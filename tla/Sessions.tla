------------------------------ MODULE Sessions ------------------------------
(***************************************************************************)
(* The sessions of one host, which know of each other only through their   *)
(* directories: xssh ls, kill and rm, the disk-cap sweeper of each daemon, *)
(* and the check a new session has to pass.  Each takes a listing and acts *)
(* on it later, while the others do the same.                              *)
(*                                                                         *)
(* What a session does while it ends is in module Recovery, when it has    *)
(* marker files in HealthMarkers; here is what others see of it.           *)
(***************************************************************************)
EXTENDS Integers, FiniteSets, FiniteSetsExt

CONSTANTS
  Ids,      \* sessions
  Raw,      \* min(2 GiB, 20% of the free disk), in units of segment bytes
  Reserve,  \* what a growing session reserves of it
  MaxSize   \* bound: segment bytes of a session

ASSUME SessionsAssumption ==
  /\ IsFiniteSet(Ids)
  /\ {Raw, Reserve, MaxSize} \subseteq Nat

VARIABLES
  session,  \* per session: process, directory, pid file, client, markers, size
  view,     \* per session: what its sweeper or its attach --new has found
            \* out and not acted on
  cli       \* one xssh kill or rm, and then another one

vars == <<session, view, cli>>

\* Processes the pid file names.
Up == {"live", "ending", "replay"}

\* proc: "starting" and "scanning" daemons have not written their pid yet, a
\* "closing" one has removed it and its clean marker is still to come.
Nowhere == [proc |-> "none", dir |-> FALSE, pid |-> FALSE, client |-> FALSE,
            marked |-> FALSE, size |-> 0, capped |-> FALSE]

\* pc: an attach --new has found the host "full" or with "room"; a sweeper has
\* "listed" an overrun host, is "counting" its own bytes, or is "stopping".
\* growing: how many share the budget.  mine: what the count comes to.  most:
\* history, what there was when the count began and was spilled while it lasted.
NoView == [pc |-> "none", growing |-> 0, mine |-> 0, most |-> 0]

\* up: history, was the process up when it was listed to be removed?
NoCommand == [pc |-> "idle", id |-> "", up |-> FALSE]

Init ==
  /\ session = [s \in Ids |-> Nowhere]
  /\ view = [s \in Ids |-> NoView]
  /\ cli = NoCommand

-----------------------------------------------------------------------------
(* Listing *)

\* Mutant of Status: without a client a session passes for dead.
ByClient(s) ==
  IF ~session[s].client THEN "dead"
  ELSE IF session[s].proc = "replay" THEN "replay" ELSE "active"

Status(s) ==
  CASE ~session[s].pid -> "dead"
    [] session[s].pid /\ ~session[s].client -> "stale"
    [] session[s].pid /\ session[s].client ->
         IF session[s].proc = "replay" THEN "replay"
         ELSE IF session[s].marked THEN "marked" ELSE "active"

Listed == {s \in Ids : session[s].dir}

\* Mutant of Growing: who has no client is not counted.
ActiveOnly == Cardinality({s \in Listed : Status(s) = "active"})

\* GrowingCount; a session with a marker file does not count.
Growing == Cardinality({s \in Listed : Status(s) \in {"active", "stale"}})

\* TotalDiskUsage, the dead included.
Usage == MapThenSumSet(LAMBDA s : session[s].size, Listed)

DiskBudget(growing) ==
  IF Reserve * growing >= Raw THEN 0 ELSE Raw - Reserve * growing

Budget == DiskBudget(Growing)

-----------------------------------------------------------------------------
(* The life of a session, as others see it *)

Becomes(s, r) == session' = [session EXCEPT ![s] = r]

Live(s) == session[s].proc = "live"

\* A daemon whose shell is gone, or that was told to stop, serves its client on.
Running(s) == session[s].proc \in {"live", "ending"}

Sees(s, v) == view' = [view EXCEPT ![s] = v]

\* The segment files are looked at one after the other: what is unlinked or
\* written meanwhile is in the sum or is not.
CountGoesOn(s, unlinked, written) ==
  IF view[s].pc = "counting"
  THEN \E n \in (view[s].mine - unlinked)..(view[s].mine + written) :
         n >= 0 /\ Sees(s, [view[s] EXCEPT !.mine = n, !.most = @ + written])
  ELSE UNCHANGED view

\* attach --new: refuseIfDiskCapHit.
NewLists(s) ==
  /\ session[s] = Nowhere /\ view[s].pc = "none"
  /\ Sees(s, [NoView EXCEPT !.pc = IF Usage >= Budget THEN "full" ELSE "room"])
  /\ UNCHANGED <<session, cli>>

NewDecides(s) ==
  /\ session[s] = Nowhere /\ view[s].pc \in {"full", "room"}
  /\ Sees(s, NoView)
  /\ IF view[s].pc = "full"
     THEN UNCHANGED session
     ELSE Becomes(s, [Nowhere EXCEPT !.proc = "starting", !.dir = TRUE])
  /\ UNCHANGED cli

\* The daemon makes sure of its directory and writes its pid.
Starts(s) ==
  /\ session[s].proc = "starting"
  /\ Becomes(s, [session[s] EXCEPT !.proc = "live", !.dir = TRUE, !.pid = TRUE])
  /\ UNCHANGED <<view, cli>>

Connects(s) ==
  /\ Running(s) /\ session[s].dir /\ ~session[s].capped
  /\ Becomes(s, [session[s] EXCEPT !.client = TRUE, !.marked = FALSE])
  /\ UNCHANGED <<view, cli>>

Disconnects(s) ==
  /\ Running(s) /\ session[s].client
  /\ Becomes(s, [session[s] EXCEPT !.client = FALSE, !.marked = FALSE])
  /\ UNCHANGED <<view, cli>>

Marks(s) ==
  /\ Live(s) /\ session[s].client /\ session[s].dir
  /\ Becomes(s, [session[s] EXCEPT !.marked = ~@])
  /\ UNCHANGED <<view, cli>>

\* Only what does not fit the RAM tail is on disk; only an ACK frees it, one
\* segment file after the other.
Spills(s) ==
  /\ Running(s) /\ session[s].dir
  /\ session[s].size < MaxSize /\ (view[s].pc = "counting" => view[s].most < MaxSize)
  /\ Becomes(s, [session[s] EXCEPT !.size = @ + 1])
  /\ CountGoesOn(s, 0, 1)
  /\ UNCHANGED cli

Trims(s) ==
  /\ Running(s) /\ session[s].client /\ session[s].size > 0
  /\ Becomes(s, [session[s] EXCEPT !.size = @ - 1])
  /\ CountGoesOn(s, 1, 0)
  /\ UNCHANGED cli

\* The shell exits, or SIGTERM.
Stops(s) ==
  /\ Live(s)
  /\ Becomes(s, [session[s] EXCEPT !.proc = "ending"])
  /\ Sees(s, NoView)
  /\ UNCHANGED cli

\* EXIT is delivered, the directory removed.
Delivers(s) ==
  /\ session[s].proc = "ending" /\ session[s].client /\ ~session[s].capped
  /\ Becomes(s, Nowhere)
  /\ UNCHANGED <<view, cli>>

\* Or the session is preserved: the RAM tail is flushed, the pid file removed.
Preserves(s) ==
  /\ session[s].proc = "ending" /\ (session[s].client => session[s].capped)
  /\ \E n \in session[s].size..MaxSize :
       /\ ~session[s].dir => n = 0
       /\ Becomes(s, [session[s] EXCEPT !.proc = "closing", !.pid = FALSE, !.size = n,
                                        !.client = FALSE, !.marked = FALSE])
  /\ UNCHANGED <<view, cli>>

Exits(s) ==
  /\ session[s].proc = "closing"
  /\ Becomes(s, [session[s] EXCEPT !.proc = "none", !.capped = FALSE])
  /\ UNCHANGED <<view, cli>>

\* SIGKILL: the pid file names nobody any more.
Dies(s) ==
  /\ session[s].pid
  /\ Becomes(s, [session[s] EXCEPT !.proc = "none", !.pid = FALSE, !.client = FALSE,
                                   !.marked = FALSE, !.capped = FALSE])
  /\ Sees(s, NoView)
  /\ UNCHANGED cli

\* attach --session finds no socket, but segments.
ReplayStarts(s) ==
  /\ session[s].proc = "none" /\ session[s].dir /\ session[s].size > 0
  /\ Becomes(s, [session[s] EXCEPT !.proc = "scanning"])
  /\ UNCHANGED <<view, cli>>

\* A directory removed in the meantime ends it.
ReplayListens(s) ==
  /\ session[s].proc = "scanning"
  /\ IF session[s].dir
     THEN Becomes(s, [session[s] EXCEPT !.proc = "replay", !.pid = TRUE, !.client = TRUE])
     ELSE Becomes(s, Nowhere)
  /\ UNCHANGED <<view, cli>>

ReplayServes(s) ==
  /\ session[s].proc = "replay"
  /\ Becomes(s, Nowhere)
  /\ UNCHANGED <<view, cli>>

-----------------------------------------------------------------------------
(* The disk cap *)

\* A listing that shows nobody growing, or no overrun, has no consequence.
SweepLists(s) ==
  /\ Live(s) /\ view[s].pc = "none"
  /\ Growing > 0 /\ Usage > Budget
  /\ Sees(s, [NoView EXCEPT !.pc = "listed", !.growing = Growing])
  /\ UNCHANGED <<session, cli>>

\* Mutant of MySize: the sum of all sessions.
AllSizes(s) == Usage

MySize(s) == session[s].size

\* SegmentBytes: the directory is read, and then one file after the other.
SweepCounts(s) ==
  /\ Live(s) /\ view[s].pc = "listed"
  /\ Sees(s, [view[s] EXCEPT !.pc = "counting", !.mine = MySize(s),
                             !.most = session[s].size])
  /\ UNCHANGED <<session, cli>>

Share(growing) == DiskBudget(growing) \div growing

Exceeds(s) == view[s].mine > Share(view[s].growing)

\* The count is complete and compared.
SweepCompares(s) ==
  /\ Live(s) /\ view[s].pc = "counting"
  /\ Sees(s, IF Exceeds(s) THEN [NoView EXCEPT !.pc = "stopping", !.most = view[s].most]
                           ELSE NoView)
  /\ UNCHANGED <<session, cli>>

\* Whatever the session has by now.
SweepStops(s) ==
  /\ Live(s) /\ view[s].pc = "stopping"
  /\ Sees(s, NoView)
  /\ Becomes(s, [session[s] EXCEPT !.proc = "ending", !.capped = TRUE])
  /\ UNCHANGED cli

-----------------------------------------------------------------------------
(* xssh kill, rm, rm --kill *)

\* What was listed as dead is to be removed by all three; rm refuses others.
CliLists(s) ==
  /\ cli.pc = "idle" /\ session[s].dir
  /\ cli' = IF Status(s) = "dead"
            THEN [pc |-> "remove", id |-> s, up |-> session[s].proc \in Up]
            ELSE [pc |-> "signal", id |-> s, up |-> FALSE]
  /\ UNCHANGED <<session, view>>

\* os.RemoveAll: a process that runs goes on without its directory.
Unlinked(s) ==
  [session[s] EXCEPT !.dir = FALSE, !.pid = FALSE, !.marked = FALSE, !.size = 0]

\* Mutant of Terminated: the pid file counts although nobody runs.
StillNamed(s) ==
  [session[s] EXCEPT !.proc = IF @ = "live" THEN "ending" ELSE "none"]

\* SIGTERM ends a daemon gracefully, and a replay daemon at once.
Terminated(s) ==
  CASE session[s].pid /\ session[s].proc = "live" -> [session[s] EXCEPT !.proc = "ending"]
    [] session[s].pid /\ session[s].proc = "replay" ->
         [session[s] EXCEPT !.proc = "none", !.pid = FALSE, !.client = FALSE]
    [] OTHER -> session[s]

\* Whatever it is by now.
CliRemovesDead ==
  /\ cli.pc = "remove"
  /\ Becomes(cli.id, Unlinked(cli.id))
  /\ CountGoesOn(cli.id, session[cli.id].size, 0)
  /\ cli' = NoCommand

\* kill is done then, rm --kill waits for the process to go.
CliSignals ==
  LET s == cli.id IN
  /\ cli.pc = "signal"
  /\ Becomes(s, Terminated(s))
  /\ IF Terminated(s) = session[s] THEN UNCHANGED view ELSE Sees(s, NoView)
  /\ cli' \in {NoCommand, [cli EXCEPT !.pc = "waiting"]}

\* rm --kill: the process is gone, or is killed after its grace.  One that has
\* come up since has another pid.
CliRemoves ==
  LET s == cli.id IN
  /\ cli.pc = "waiting"
  /\ IF session[s].proc \in {"ending", "closing"}
     THEN Becomes(s, Nowhere) /\ UNCHANGED view
     ELSE Becomes(s, Unlinked(s)) /\ CountGoesOn(s, session[s].size, 0)
  /\ cli' = NoCommand

-----------------------------------------------------------------------------
Sweep(s) == SweepLists(s) \/ SweepCounts(s) \/ SweepCompares(s) \/ SweepStops(s)

Next ==
  \/ \E s \in Ids :
       \/ NewLists(s) \/ NewDecides(s) \/ Starts(s) \/ Connects(s) \/ Disconnects(s)
       \/ Marks(s) \/ Spills(s) \/ Trims(s) \/ Sweep(s)
       \/ Stops(s) \/ Delivers(s) \/ Preserves(s) \/ Exits(s) \/ Dies(s)
       \/ ReplayStarts(s) \/ ReplayListens(s) \/ ReplayServes(s)
       \/ CliLists(s)
  \/ CliRemovesDead \/ CliSignals \/ CliRemoves

Spec == Init /\ [][Next]_vars

\* The sweeper of a daemon that is up ticks, and finishes its check.
FairSpec == Spec /\ \A s \in Ids : WF_vars(Sweep(s))

-----------------------------------------------------------------------------
(* Properties *)

TypeOK ==
  /\ session \in [Ids -> [proc : {"none", "starting", "live", "ending", "closing",
                                  "scanning", "replay"},
                          dir : BOOLEAN, pid : BOOLEAN, client : BOOLEAN,
                          marked : BOOLEAN, size : 0..MaxSize, capped : BOOLEAN]]
  /\ \A s \in Ids :
       /\ session[s].pid => session[s].dir /\ session[s].proc \in Up
       /\ ~session[s].dir => session[s].size = 0
       /\ view[s].pc \in {"none", "full", "room", "listed", "counting", "stopping"}
       /\ view[s].growing \in 0..Cardinality(Ids) /\ view[s].most \in 0..MaxSize
  /\ cli.pc \in {"idle", "remove", "signal", "waiting"}

\* The cap stops no session whose bytes, those there when its sweeper began to
\* count them and those spilled until it was done, were within the fair share of
\* a full house: however old the listing is, and whatever is unlinked or written
\* meanwhile.  (A session that an ACK takes below that share behind the count, or
\* in the middle of it, may be stopped all the same.)
SmallIsSpared ==
  [][\A s \in Ids : (~session[s].capped /\ session'[s].capped)
        => view[s].most > Share(Cardinality(Ids))]_vars

\* A session that is left alone over its share of an overrun budget is stopped:
\* its own sweeper sees it, since without a client it only grows.
Overrun(s) ==
  LET growing == Cardinality({t \in Listed : session[t].pid /\ session[t].proc # "replay"
                                            /\ ~session[t].marked})
  IN /\ Live(s) /\ session[s].pid /\ ~session[s].client
     /\ session[s].size > Share(growing) /\ Usage > DiskBudget(growing)

DetachedOverrunEnds == \A s \in Ids : ~<>[]Overrun(s)

\* xssh takes the directory from a daemon that is up only for rm --kill, or if
\* no daemon was up when the session was listed: what looked dead is removed,
\* be it a session that has come up or is being replayed since.
DirKeptWhileUp ==
  [][\A s \in Ids :
       (session[s].pid /\ session[s].dir /\ session'[s].proc = session[s].proc
          /\ ~session'[s].dir)
       => /\ cli.id = s
          /\ cli.pc = "waiting" \/ (cli.pc = "remove" /\ ~cli.up)]_vars

=============================================================================
