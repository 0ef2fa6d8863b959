--------------------------- MODULE HealthMarkers ---------------------------
(***************************************************************************)
(* The marker files catchup, stalled and idle of a live daemon: a ticker   *)
(* writes and removes them, the pump removes idle, the reader of an attach *)
(* removes stalled, a new attach removes all three.  A write or remove is  *)
(* two steps, the swap of an atomic flag and the file operation, and no    *)
(* lock spans them.                                                        *)
(*                                                                         *)
(* `xssh ls' and the disk cap take the status of a session from the files. *)
(***************************************************************************)
EXTENDS Naturals, Sequences, FiniteSets

CONSTANTS
  Conns,    \* connections: a serveAttach, then its reader
  MaxFails  \* bound: file operations that fail

ASSUME MarkersAssumption == MaxFails \in Nat

Markers == {"catchup", "stalled", "idle"}
NoConn == "none"
Threads == {"ticker", "pump"} \cup Conns
ASSUME ConnsAssumption == Conns \cap {"ticker", "pump", NoConn} = {}

\* Bytes held: none, below the exit threshold of catchup, between it and the
\* enter threshold, above that.
Levels == 0..3
BelowExit(level) == level < 2
AboveEnter(level) == level = 3

VARIABLES
  activeConn,  \* d.activeConn
  conn,        \* per connection: off, on
  held,        \* outputBuf.Stats().HeldBytes
  clock,       \* lastAckMs and lastOutputMs: "fresh", "ticked" or "late"
  markerSet,   \* the flags catchupMarkerSet, stalledMarkerSet, idleMarkerSet
  files,       \* the marker files in the session directory
  thread,      \* per thread: clocks to be stamped, operations to do, swap done
  ticker,      \* catchupCheck: where it stands, the held bytes it read
  pumpDone,
  fails,       \* file operations that failed
  raced,       \* history: markers whose write was overtaken by a remove
  leftover     \* history: markers whose file a failed operation left there

history == <<fails, raced, leftover>>

vars == <<activeConn, conn, held, clock, markerSet, files, thread, ticker,
          pumpDone, history>>

Clocks == {"ack", "output"}
Idle == [stamp |-> FALSE, todo |-> <<>>, swapped |-> FALSE]
Write(m) == [op |-> "write", m |-> m]
Remove(m) == [op |-> "remove", m |-> m]
RemoveAll == <<Remove("catchup"), Remove("stalled"), Remove("idle")>>

Init ==
  /\ activeConn = NoConn /\ conn = [c \in Conns |-> "off"]
  /\ held = 0 /\ clock = [k \in Clocks |-> "fresh"]
  /\ markerSet = {} /\ files = {}
  /\ thread = [t \in Threads |-> Idle]
  /\ ticker = [pc |-> "wait", held |-> 0]
  /\ pumpDone = FALSE /\ fails = 0 /\ raced = {} /\ leftover = {}

-----------------------------------------------------------------------------
(* What a thread has begun to do *)

Free(t) == thread[t] = Idle
Quiet == ticker.pc \in {"wait", "off"} /\ \A t \in Threads : Free(t)

Does(t, ops) == thread' = [thread EXCEPT ![t].todo = ops]

\* serveAttach: lastAckMs.Store, lastOutputMs.Store.
Stamp(t) ==
  /\ thread[t].stamp
  /\ clock' = [k \in Clocks |-> "fresh"]
  /\ thread' = [thread EXCEPT ![t].stamp = FALSE]
  /\ UNCHANGED <<activeConn, conn, held, markerSet, files, ticker, pumpDone, history>>

Doing(t) == ~thread[t].stamp /\ thread[t].todo # <<>>
Done(t) == [thread EXCEPT ![t].todo = Tail(@), ![t].swapped = FALSE]

\* The first half of writeMarker and removeMarker: a flag that is already as
\* wanted ends it.
Swap(t) ==
  LET o == Head(thread[t].todo)
      already == (o.m \in markerSet) = (o.op = "write")
  IN /\ Doing(t) /\ ~thread[t].swapped
     /\ markerSet' = IF o.op = "write" THEN markerSet \cup {o.m} ELSE markerSet \ {o.m}
     /\ thread' = IF already THEN Done(t) ELSE [thread EXCEPT ![t].swapped = TRUE]
     /\ UNCHANGED <<activeConn, conn, held, clock, files, ticker, pumpDone, history>>

\* Mutant of AfterFailure: the flag stays set.
FlagKept(m) == markerSet

\* A write that fails is tried again at the next tick.
AfterFailure(m) == markerSet \ {m}

\* Mutant of AfterRemove: the path of another marker.
RemovesIdle(m) == files \ {"idle"}

AfterRemove(m) == files \ {m}

FileWritten(m) ==
  /\ files' = files \cup {m}
  /\ raced' = IF m \in markerSet THEN raced \ {m} ELSE raced \cup {m}
  /\ leftover' = leftover \ {m}
  /\ UNCHANGED <<markerSet, fails>>

Fails == fails < MaxFails /\ fails' = fails + 1

\* The file may have been created and then not been written or closed.
WriteFails(m) ==
  /\ Fails /\ markerSet' = AfterFailure(m) /\ UNCHANGED raced
  /\ \/ UNCHANGED <<files, leftover>>
     \/ files' = files \cup {m} /\ leftover' = leftover \cup {m}

FileRemoved(m) ==
  /\ files' = AfterRemove(m)
  /\ raced' = raced \ {m} /\ leftover' = leftover \ {m}
  /\ UNCHANGED <<markerSet, fails>>

\* Only logged: the flag is clear and the file stays.
RemoveFails(m) ==
  /\ m \in files /\ Fails
  /\ leftover' = leftover \cup {m}
  /\ UNCHANGED <<files, markerSet, raced>>

\* The second half.
FileOp(t) ==
  LET o == Head(thread[t].todo) IN
  /\ Doing(t) /\ thread[t].swapped
  /\ thread' = Done(t)
  /\ \/ o.op = "write" /\ (FileWritten(o.m) \/ WriteFails(o.m))
     \/ o.op = "remove" /\ (FileRemoved(o.m) \/ RemoveFails(o.m))
  /\ UNCHANGED <<activeConn, conn, held, clock, ticker, pumpDone>>

-----------------------------------------------------------------------------
(* Attaches, their readers, the pump *)

\* serveAttach: the active connection is set under d.mu, the rest is not.
Attach(c) ==
  /\ conn[c] = "off" /\ Free(c) /\ ~pumpDone
  /\ conn' = [conn EXCEPT ![c] = "on"] /\ activeConn' = c
  /\ thread' = [thread EXCEPT ![c].stamp = TRUE, ![c].todo = RemoveAll]
  /\ UNCHANGED <<held, clock, markerSet, files, ticker, pumpDone, history>>

\* readUpstream: an ACK trims.  A superseded reader may still have one.
Ack(c) ==
  /\ conn[c] = "on" /\ Free(c)
  /\ held' \in 0..held
  /\ clock' = [clock EXCEPT !["ack"] = "fresh"]
  /\ Does(c, <<Remove("stalled")>>)
  /\ UNCHANGED <<activeConn, conn, markerSet, files, ticker, pumpDone, history>>

Detach(c) ==
  /\ conn[c] = "on" /\ Free(c)
  /\ conn' = [conn EXCEPT ![c] = "off"]
  /\ activeConn' = IF activeConn = c THEN NoConn ELSE activeConn
  /\ UNCHANGED <<held, clock, markerSet, files, thread, ticker, pumpDone, history>>

PumpAppends ==
  /\ ~pumpDone /\ Free("pump")
  /\ held' \in held..3 \ {0}
  /\ clock' = [clock EXCEPT !["output"] = "fresh"]
  /\ Does("pump", <<Remove("idle")>>)
  /\ UNCHANGED <<activeConn, conn, markerSet, files, ticker, pumpDone, history>>

PumpEnds ==
  /\ ~pumpDone /\ Free("pump")
  /\ pumpDone' = TRUE
  /\ UNCHANGED <<activeConn, conn, held, clock, markerSet, files, thread, ticker, history>>

\* 30 s without an ACK, or without output.  No goroutine stays in mid-operation
\* that long, and the ticker ticks in it.
Elapse(k) ==
  /\ Quiet /\ clock[k] = "ticked"
  /\ clock' = [clock EXCEPT ![k] = "late"]
  /\ UNCHANGED <<activeConn, conn, held, markerSet, files, thread, ticker, pumpDone, history>>

-----------------------------------------------------------------------------
(* catchupCheck and evaluateHealthMarkers *)

At(pc) == ticker.pc = pc /\ Free("ticker")

\* Is anybody attached?
Tick ==
  /\ At("wait") /\ ~pumpDone
  /\ IF activeConn = NoConn
     THEN Does("ticker", RemoveAll) /\ UNCHANGED ticker
     ELSE ticker' = [ticker EXCEPT !.pc = "stalled"] /\ UNCHANGED thread
  /\ clock' = [k \in Clocks |-> IF clock[k] = "late" THEN "late" ELSE "ticked"]
  /\ UNCHANGED <<activeConn, conn, held, markerSet, files, pumpDone, history>>

\* Mutant of StalledOps: what held before is left alone.
StalledOnly == <<Write("stalled")>>

StalledOps == <<Write("stalled"), Remove("catchup"), Remove("idle")>>

\* Does the peer owe an ACK?
CheckStalled ==
  /\ At("stalled")
  /\ IF held > 0 /\ clock["ack"] = "late"
     THEN /\ Does("ticker", StalledOps)
          /\ ticker' = [pc |-> "wait", held |-> 0]
     ELSE /\ Does("ticker", <<Remove("stalled")>>)
          /\ ticker' = [pc |-> "catchup", held |-> held]
  /\ UNCHANGED <<activeConn, conn, held, clock, markerSet, files, pumpDone, history>>

\* Catchup, with hysteresis.
CheckCatchup ==
  LET set == "catchup" \in markerSet IN
  /\ At("catchup")
  /\ Does("ticker",
          IF set /\ BelowExit(ticker.held) THEN <<Remove("catchup")>>
          ELSE IF ~set /\ AboveEnter(ticker.held) THEN <<Write("catchup")>>
          ELSE <<>>)
  /\ ticker' = [pc |-> "idle", held |-> 0]
  /\ UNCHANGED <<activeConn, conn, held, clock, markerSet, files, pumpDone, history>>

\* Idle, unless in catchup.
CheckIdle ==
  /\ At("idle")
  /\ Does("ticker",
          IF "catchup" \notin markerSet /\ clock["output"] = "late"
          THEN <<Write("idle")>> ELSE <<Remove("idle")>>)
  /\ ticker' = [pc |-> "wait", held |-> 0]
  /\ UNCHANGED <<activeConn, conn, held, clock, markerSet, files, pumpDone, history>>

TickerEnds ==
  /\ At("wait") /\ pumpDone
  /\ ticker' = [ticker EXCEPT !.pc = "off"]
  /\ Does("ticker", RemoveAll)
  /\ UNCHANGED <<activeConn, conn, held, clock, markerSet, files, pumpDone, history>>

Ticker ==
  Tick \/ CheckStalled \/ CheckCatchup \/ CheckIdle \/ TickerEnds

Works(t) == Stamp(t) \/ Swap(t) \/ FileOp(t)

Next ==
  \/ Ticker \/ PumpAppends \/ PumpEnds
  \/ \E t \in Threads : Works(t)
  \/ \E c \in Conns : Attach(c) \/ Ack(c) \/ Detach(c)
  \/ \E k \in Clocks : Elapse(k)

Spec == Init /\ [][Next]_vars

\* The ticker ticks, and what is begun is finished.
FairSpec == Spec /\ WF_vars(Ticker) /\ \A t \in Threads : WF_vars(Works(t))

-----------------------------------------------------------------------------
(* Properties *)

TypeOK ==
  /\ activeConn \in Conns \cup {NoConn} /\ conn \in [Conns -> {"off", "on"}]
  /\ held \in Levels /\ clock \in [Clocks -> {"fresh", "ticked", "late"}]
  /\ {markerSet, files} \subseteq SUBSET Markers /\ raced \cup leftover \subseteq files
  /\ \A t \in Threads : thread[t].stamp \in BOOLEAN /\ Len(thread[t].todo) <= 3
  /\ ticker \in [pc : {"wait", "stalled", "catchup", "idle", "off"}, held : Levels]
  /\ pumpDone \in BOOLEAN /\ fails \in 0..MaxFails

Touches(t, m) == Doing(t) /\ thread[t].swapped /\ Head(thread[t].todo).m = m

\* Between two evaluations at most one marker counts as set: a session is
\* stalled, or in catchup, or idle.
OneMarkerAtATime == At("wait") => Cardinality(markerSet) <= 1

\* A file that is there although its flag is clear (and which the daemon will
\* therefore not remove) is there for one of two reasons, since it was last
\* removed or properly written: a remove fell between the two halves of a
\* write, or a write or remove of this very file failed.
GhostHasCause ==
  \A m \in files \ markerSet :
    (\A t \in Threads : ~Touches(t, m)) => m \in raced \cup leftover

Stalled == activeConn # NoConn /\ held > 0 /\ clock["ack"] = "late" /\ ~pumpDone

\* A client that stays attached and owes an ACK is reported: neither the race
\* of remove and write nor a failed operation hides it for ever.
StalledIsShown == Stalled ~> ("stalled" \in files \/ ~Stalled)

=============================================================================
