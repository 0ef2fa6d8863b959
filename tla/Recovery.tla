------------------------------ MODULE Recovery ------------------------------
(***************************************************************************)
(* How a session ends, and what a client gets that comes back later:       *)
(* daemon.Run from the accept loop to the exit, the session directory it   *)
(* leaves, attach.Run, and the replay daemons (ReplayRun) attach spawns    *)
(* when it finds segment files and nobody listening.                       *)
(*                                                                         *)
(* A server is the daemon or a replay daemon; conn[s] is the connection    *)
(* server s serves, bytes and EXIT in flight included.  One attach of the  *)
(* daemon is modelled, a newer one replaces it, and bytes go in order      *)
(* (module Stream has the rest).  Of the buffer the model keeps the length *)
(* of the stream, the trim point and where the files on disk end (module   *)
(* Buffer).                                                                *)
(***************************************************************************)
EXTENDS ByteStream, Integers

CONSTANTS
  RamTail,      \* newest bytes kept in RAM only (10 MiB)
  DiskMayFail,  \* TRUE: the flush of the RAM tail may fail
  MaxTotal,     \* bound: length of the stream
  MaxReplays,   \* bound: replay daemons spawned
  MaxCuts,      \* bound: connections the network cuts
  MaxKills      \* bound: processes killed by SIGKILL, OOM or power loss

ASSUME RecoveryAssumption ==
  /\ DiskMayFail \in BOOLEAN
  /\ {RamTail, MaxTotal, MaxReplays, MaxCuts, MaxKills} \subseteq Nat

Daemon == 0
Replays == 1..MaxReplays
Servers == {Daemon} \cup Replays
NoOne == -1
NoCode == -1
ShellCode == 0

VARIABLES
  total, trim,  \* the daemon's buffer
  dir,          \* the session directory; last: where the segment files end
  daemon,       \* the daemon process
  replay,       \* the replay daemons
  conn,         \* the connection each server serves
  client,       \* the client, and the attach that dials for it
  cuts, kills,
  spoiled       \* history: an EXIT was written and lost with its connection,
                \* or a replay daemon removed the directory without having served

vars == <<total, trim, dir, daemon, replay, conn, client, cuts, kills, spoiled>>
history == <<cuts, kills, spoiled>>

NoDir == [exists |-> FALSE, sock |-> NoOne, clean |-> FALSE, diskcap |-> FALSE,
          last |-> 0]

NoConn == [open |-> FALSE, cut |-> FALSE, acked |-> FALSE, sent |-> 0,
           code |-> NoCode]

\* The client's first handshake with the daemon it had started is done.
Init ==
  /\ total = 0 /\ trim = 0
  /\ dir = [NoDir EXCEPT !.exists = TRUE, !.sock = Daemon]
  /\ daemon = [phase |-> "serving", attach |-> "live", shell |-> TRUE,
               exited |-> FALSE, exitDelivered |-> FALSE, shutdown |-> FALSE,
               signalShutdown |-> FALSE, preserveOnExit |-> FALSE,
               diskcap |-> FALSE, preserve |-> FALSE, flushed |-> FALSE]
  /\ replay = [r \in Replays |-> [phase |-> "none", clean |-> FALSE,
                                  diskcap |-> FALSE, last |-> 0,
                                  delivered |-> FALSE]]
  /\ conn = [s \in Servers |-> IF s = Daemon
                              THEN [NoConn EXCEPT !.open = TRUE, !.acked = TRUE]
                              ELSE NoConn]
  /\ client = [phase |-> "live", server |-> Daemon, shown |-> 0, code |-> NoCode]
  /\ cuts = 0 /\ kills = 0 /\ spoiled = FALSE

-----------------------------------------------------------------------------
(* The running daemon *)

\* Where the RAM tail begins: what is older is in segment files.
MemOffset == Greater(dir.last, trim)

Running == daemon.phase # "gone"

\* pumpPTY appends; the buffer spills what no longer fits the RAM tail.  (An
\* Append that fails is in module Buffer only.)
Output ==
  /\ Running /\ daemon.shell /\ ~daemon.diskcap
  /\ total < MaxTotal
  /\ total' = total + 1
  /\ dir' = [dir EXCEPT !.last = IF total + 1 - RamTail > MemOffset
                                 THEN total + 1 - RamTail ELSE @]
  /\ UNCHANGED <<trim, daemon, replay, conn, client, history>>

\* An ACK is read.
ReadAck ==
  /\ daemon.attach = "live" /\ client.phase = "live" /\ client.server = Daemon
  /\ client.shown > trim
  /\ trim' = client.shown
  /\ UNCHANGED <<total, dir, daemon, replay, conn, client, history>>

\* The shell ends, on its own or on a SIGHUP: pump EOF, waitCmd.
ShellExits ==
  /\ Running /\ daemon.shell
  /\ daemon' = [daemon EXCEPT !.shell = FALSE, !.exited = TRUE]
  /\ UNCHANGED <<total, trim, dir, replay, conn, client, history>>

\* Before Run has read the flags for the last time.
Undecided == daemon.phase \in {"serving", "killing", "waiting"}

\* SIGTERM, SIGINT or SIGHUP: the first one counts.
Signal ==
  /\ Undecided /\ ~daemon.signalShutdown
  /\ daemon' = [daemon EXCEPT !.signalShutdown = TRUE, !.preserveOnExit = TRUE]
  /\ UNCHANGED <<total, trim, dir, replay, conn, client, history>>

\* checkDiskCap decides to shut this daemon down.  The sweeper stops with the
\* pump.
DiskCap ==
  /\ Undecided /\ daemon.shell /\ ~daemon.diskcap
  /\ daemon' = [daemon EXCEPT !.diskcap = TRUE, !.shutdown = TRUE,
                              !.preserveOnExit = TRUE]
  /\ UNCHANGED <<total, trim, dir, replay, conn, client, history>>

-----------------------------------------------------------------------------
(* The daemon's attach *)

\* Server s can write to its connection, or believes it can.
Writes(s) == conn[s].open

\* A write or a read fails once the break is noticed.
Fails(s) == conn[s].open /\ conn[s].cut

\* Mutant of Closed: the socket is left open.
LeftOpen(s) == conn

Closed(s) == [conn EXCEPT ![s].open = FALSE]

AttachHello ==
  /\ daemon.attach = "hello"
  /\ \/ /\ Writes(Daemon)
        /\ daemon' = [daemon EXCEPT !.attach = "live"]
        /\ conn' = [conn EXCEPT ![Daemon].acked = TRUE]
     \/ /\ Fails(Daemon)
        /\ daemon' = [daemon EXCEPT !.attach = "none"]
        /\ conn' = Closed(Daemon)
  /\ UNCHANGED <<total, trim, dir, replay, client, history>>

AttachStreams ==
  /\ daemon.attach \in {"live", "drain"} /\ Writes(Daemon)
  /\ conn[Daemon].sent < total
  /\ conn' = [conn EXCEPT ![Daemon].sent = @ + 1]
  /\ UNCHANGED <<total, trim, dir, daemon, replay, client, history>>

\* The attach is dropped: shutdown is set, or its reader saw the break.
AttachDropped ==
  /\ daemon.attach = "live" /\ (daemon.shutdown \/ Fails(Daemon))
  /\ daemon' = [daemon EXCEPT !.attach = "none"]
  /\ conn' = Closed(Daemon)
  /\ UNCHANGED <<total, trim, dir, replay, client, history>>

AttachDrains ==
  /\ daemon.attach = "live" /\ daemon.exited /\ ~daemon.shutdown
  /\ daemon' = [daemon EXCEPT !.attach = "drain"]
  /\ UNCHANGED <<total, trim, dir, replay, conn, client, history>>

\* The streamer is done; EXIT is written: 129 if a signal stopped the daemon.
AttachExits ==
  /\ daemon.attach = "drain"
  /\ \/ /\ Writes(Daemon) /\ conn[Daemon].sent = total
        /\ daemon' = [daemon EXCEPT !.attach = "none", !.exitDelivered = TRUE]
        /\ conn' = [Closed(Daemon) EXCEPT ![Daemon].code =
                      IF daemon.signalShutdown THEN 129 ELSE ShellCode]
        /\ spoiled' = (spoiled \/ conn[Daemon].cut)
     \/ /\ Fails(Daemon)
        /\ daemon' = [daemon EXCEPT !.attach = "none"]
        /\ conn' = Closed(Daemon)
        /\ UNCHANGED spoiled
  /\ UNCHANGED <<total, trim, dir, replay, client, cuts, kills>>

-----------------------------------------------------------------------------
(* Run, from the accept loop to the exit *)

\* Mutant of MayStop: the flags are not looked at.
ExitedOnly == daemon.exited /\ daemon.attach = "none"

\* The accept loop's stopper; the last case is the keep-alive timeout.
MayStop ==
  \/ daemon.shutdown \/ daemon.signalShutdown
  \/ daemon.exited /\ daemon.attach = "none"

\* The listener is closed, which unlinks the socket's path.
AcceptStops ==
  /\ daemon.phase = "serving" /\ MayStop
  /\ daemon' = [daemon EXCEPT !.phase = "killing"]
  /\ dir' = [dir EXCEPT !.sock = NoOne]
  /\ UNCHANGED <<total, trim, replay, conn, client, history>>

\* killCmd, and the pump has ended.
Killed ==
  /\ daemon.phase = "killing"
  /\ daemon' = [daemon EXCEPT !.phase = "waiting", !.shell = FALSE,
                              !.exited = TRUE]
  /\ UNCHANGED <<total, trim, dir, replay, conn, client, history>>

\* Mutant of Preserves: a session whose shell ended on its own is removed.
SignalOnly == daemon.preserveOnExit

Preserves ==
  /\ ~daemon.exitDelivered
  /\ daemon.preserveOnExit \/ (daemon.exited /\ ~daemon.shutdown)

\* The attaches have ended; what is to become of the session is decided, and
\* the buffer closed: flushed, or removed.
CloseBuffer ==
  LET keep  == Preserves
      flush == keep /\ MemOffset < total
      Done(last, ok) ==
        /\ daemon' = [daemon EXCEPT !.phase = "closed", !.preserve = keep,
                                    !.flushed = ok]
        /\ dir' = [dir EXCEPT !.last = IF dir.exists THEN last ELSE 0]
  IN /\ daemon.phase = "waiting" /\ daemon.attach = "none"
     /\ \/ flush /\ Done(total, TRUE)
        \/ flush /\ DiskMayFail /\ \E last \in dir.last..(total - 1) :
                                      Done(last, FALSE)
        \/ keep /\ ~flush /\ Done(dir.last, TRUE)
        \/ ~keep /\ Done(0, TRUE)
     /\ UNCHANGED <<total, trim, replay, conn, client, history>>

\* sock, pid and info are removed, whoever's socket the path leads to by now.
Tidy ==
  /\ daemon.phase = "closed" /\ daemon.preserve
  /\ dir' = [dir EXCEPT !.sock = NoOne]
  /\ daemon' = [daemon EXCEPT !.phase = "tidied"]
  /\ UNCHANGED <<total, trim, replay, conn, client, history>>

\* Mutant of MarksClean: the error of Close is not looked at.
AlwaysClean == TRUE

MarksClean == daemon.flushed

\* (A clean marker that cannot be written is only logged; a replay daemon that
\* misses it refuses, as it does after a kill in front of this step.)
MarkClean ==
  /\ daemon.phase = "tidied"
  /\ dir' = [dir EXCEPT !.clean = dir.exists /\ MarksClean]
  /\ daemon' = [daemon EXCEPT !.phase = IF MarksClean /\ daemon.diskcap
                                        THEN "marked" ELSE "gone"]
  /\ UNCHANGED <<total, trim, replay, conn, client, history>>

MarkDiskcap ==
  /\ daemon.phase = "marked"
  /\ dir' = [dir EXCEPT !.diskcap = dir.exists]
  /\ daemon' = [daemon EXCEPT !.phase = "gone"]
  /\ UNCHANGED <<total, trim, replay, conn, client, history>>

RemoveDir ==
  /\ daemon.phase = "closed" /\ ~daemon.preserve
  /\ dir' = NoDir
  /\ daemon' = [daemon EXCEPT !.phase = "gone"]
  /\ UNCHANGED <<total, trim, replay, conn, client, history>>

\* SIGKILL, OOM, power loss.
Kill(s) ==
  /\ kills < MaxKills
  /\ \/ /\ s = Daemon /\ Running
        /\ daemon' = [daemon EXCEPT !.phase = "gone", !.attach = "none"]
        /\ UNCHANGED replay
     \/ /\ s \in Replays
        /\ replay[s].phase \notin {"none", "gone"}
        /\ replay' = [replay EXCEPT ![s].phase = "gone"]
        /\ UNCHANGED daemon
  /\ conn' = Closed(s)
  /\ kills' = kills + 1
  /\ UNCHANGED <<total, trim, dir, client, cuts, spoiled>>

-----------------------------------------------------------------------------
(* ReplayRun *)

Moved(r, phase) == [replay EXCEPT ![r].phase = phase]

\* The markers are looked at; the directory must be there.
ReplayStarts(r) ==
  /\ replay[r].phase = "start"
  /\ replay' = IF dir.exists
               THEN [replay EXCEPT ![r].phase = "scan", ![r].clean = dir.clean,
                                   ![r].diskcap = dir.diskcap]
               ELSE Moved(r, "gone")
  /\ UNCHANGED <<total, trim, dir, daemon, conn, client, history>>

\* Mutants of ScanSees: the end of the last segment is off by one, either way.
ShortScan == Greater(dir.last - 1, 0)
LongScan == dir.last + 1

\* Where the segment files on disk end.
ScanSees == dir.last

ReplayScans(r) ==
  /\ replay[r].phase = "scan"
  /\ replay' = [replay EXCEPT ![r].phase = "bind", ![r].last = ScanSees]
  /\ UNCHANGED <<total, trim, dir, daemon, conn, client, history>>

\* The path is unlinked and bound anew.
ReplayListens(r) ==
  /\ replay[r].phase = "bind"
  /\ IF dir.exists
     THEN /\ dir' = [dir EXCEPT !.sock = r]
          /\ replay' = Moved(r, "listen")
     ELSE /\ replay' = Moved(r, "gone")
          /\ UNCHANGED dir
  /\ UNCHANGED <<total, trim, daemon, conn, client, history>>

\* The directory is removed and the replay daemon ends, with nothing served.
GivesUp(r) ==
  /\ dir' = NoDir
  /\ replay' = Moved(r, "gone")
  /\ conn' = Closed(r)
  /\ spoiled' = TRUE
  /\ UNCHANGED <<total, trim, daemon, client, cuts, kills>>

\* Nobody connected for 30 s: not while an attach is dialing this socket.
AcceptTimeout(r) ==
  /\ replay[r].phase = "listen"
  /\ ~(client.phase = "spawned" /\ dir.sock = r)
  /\ GivesUp(r)

\* HELLO is not read, or HELLO_ACK not written.
ReplayHandshakeFails(r) ==
  /\ replay[r].phase = "hello" /\ Fails(r)
  /\ GivesUp(r)

ReplayHello(r) ==
  /\ replay[r].phase = "hello" /\ Writes(r)
  /\ replay' = Moved(r, IF replay[r].clean THEN "stream" ELSE "refuse")
  /\ conn' = [conn EXCEPT ![r].acked = TRUE]
  /\ UNCHANGED <<total, trim, dir, daemon, client, history>>

\* streamSegments reads on, as long as the files are there or still open.
ReplayStreams(r) ==
  /\ replay[r].phase = "stream" /\ Writes(r)
  /\ conn[r].sent < replay[r].last
  /\ conn' = [conn EXCEPT ![r].sent = @ + 1]
  /\ UNCHANGED <<total, trim, dir, daemon, replay, client, history>>

ReplayCode(r) == IF replay[r].diskcap THEN 134 ELSE 133

\* What EXIT may say: refused, streamed to the end, or 1 when a segment could
\* not be opened or a write failed.
MaySend(r, code) ==
  \/ replay[r].phase = "refuse" /\ code = 130
  \/ /\ replay[r].phase = "stream" /\ conn[r].sent >= replay[r].last
     /\ code = ReplayCode(r)
  \/ /\ replay[r].phase = "stream" /\ conn[r].sent < replay[r].last
     /\ ~dir.exists \/ Fails(r)
     /\ code = 1

\* EXIT is written and the connection closed.
ReplayExits(r) ==
  \E code \in {1, 130, 133, 134} :
    /\ MaySend(r, code)
    /\ \/ /\ Writes(r)
          /\ conn' = [Closed(r) EXCEPT ![r].code = code]
          /\ replay' = [replay EXCEPT ![r].phase = "cleanup",
                                      ![r].delivered = code \in {133, 134}]
          /\ spoiled' = (spoiled \/ conn[r].cut)
       \/ /\ Fails(r)
          /\ conn' = Closed(r)
          /\ replay' = Moved(r, "cleanup")
          /\ UNCHANGED spoiled
    /\ UNCHANGED <<total, trim, dir, daemon, client, cuts, kills>>

\* The stream was served to its end and EXIT was written.
Served(r) == replay[r].delivered

ReplayCleansUp(r) ==
  /\ replay[r].phase = "cleanup"
  /\ dir' = IF Served(r) THEN NoDir ELSE dir
  /\ replay' = Moved(r, "gone")
  /\ UNCHANGED <<total, trim, daemon, conn, client, history>>

-----------------------------------------------------------------------------
(* attach.Run, and the client *)

\* The socket's path leads to s, and s listens.
Listens(s) ==
  /\ dir.sock = s
  /\ IF s = Daemon THEN daemon.phase = "serving"
     ELSE replay[s].phase = "listen"

\* attach is connected to s, which the client's HELLO follows.  A replay daemon
\* stops listening (which unlinks the path).
Dial(s) ==
  /\ client.phase \in {"idle", "spawned"} /\ Listens(s)
  /\ client' = [client EXCEPT !.phase = "hello", !.server = s]
  /\ conn' = [conn EXCEPT ![s] = [NoConn EXCEPT !.open = TRUE,
                                                !.sent = client.shown]]
  /\ IF s = Daemon
     THEN /\ daemon' = [daemon EXCEPT !.attach = "hello"]
          /\ UNCHANGED <<replay, dir>>
     ELSE /\ replay' = Moved(s, "hello")
          /\ dir' = [dir EXCEPT !.sock = NoOne]
          /\ UNCHANGED daemon
  /\ UNCHANGED <<total, trim, history>>

DialFails == client.phase = "idle" /\ ~\E s \in Servers : Listens(s)

SegmentsLeft == dir.last > trim

\* Nobody listens, segments are there: a replay daemon is spawned.
SpawnReplay ==
  LET unused == {r \in Replays : replay[r].phase = "none"}
  IN /\ DialFails /\ SegmentsLeft /\ unused # {}
     /\ replay' = Moved(CHOOSE r \in unused : \A q \in unused : r <= q, "start")
     /\ client' = [client EXCEPT !.phase = "spawned"]
     /\ UNCHANGED <<total, trim, dir, daemon, conn, history>>

\* Nobody listens and there is nothing to replay: EXIT(136).  attach has made
\* the directory by then.
NothingLeft ==
  /\ DialFails /\ ~SegmentsLeft
  /\ client' = [client EXCEPT !.phase = "exited", !.code = 136]
  /\ dir' = [dir EXCEPT !.exists = TRUE]
  /\ UNCHANGED <<total, trim, daemon, replay, conn, history>>

\* No socket came up within 5 s (a replay daemon takes less to start): attach
\* ends, and the client with 137.
SpawnFails ==
  /\ client.phase = "spawned" /\ ~\E s \in Servers : Listens(s)
  /\ \A r \in Replays : replay[r].phase \notin {"start", "scan", "bind"}
  /\ client' = [client EXCEPT !.phase = "failed"]
  /\ UNCHANGED <<total, trim, dir, daemon, replay, conn, history>>

\* The client's connection.
Line == conn[client.server]

RecvHelloAck ==
  /\ client.phase = "hello" /\ Line.acked
  /\ client' = [client EXCEPT !.phase = "live"]
  /\ UNCHANGED <<total, trim, dir, daemon, replay, conn, history>>

RecvOutput ==
  /\ client.phase = "live" /\ Line.sent > client.shown
  /\ client' = [client EXCEPT !.shown = Line.sent]
  /\ UNCHANGED <<total, trim, dir, daemon, replay, conn, history>>

RecvExit ==
  /\ client.phase = "live" /\ Line.sent <= client.shown /\ Line.code # NoCode
  /\ client' = [client EXCEPT !.phase = "exited", !.code = Line.code]
  /\ UNCHANGED <<total, trim, dir, daemon, replay, conn, history>>

\* The reconnect loop: tried again only if this connection got HELLO_ACK.
Retried == [client EXCEPT !.phase = IF @ = "live" THEN "idle" ELSE "failed",
                          !.server = NoOne]

RecvEOF ==
  /\ client.phase \in {"hello", "live"}
  /\ ~Line.open /\ Line.code = NoCode
  /\ IF client.phase = "hello" THEN ~Line.acked ELSE Line.sent <= client.shown
  /\ client' = Retried
  /\ UNCHANGED <<total, trim, dir, daemon, replay, conn, history>>

\* A connection ends with what is in flight on it lost, and the server is not
\* told yet: the network cuts it, sshCmd.Wait closes the pipe with frames
\* unread, or attach's bridge closes the socket since its standard input ended.
Cut ==
  /\ cuts < MaxCuts
  /\ \/ /\ client.phase \in {"hello", "live"}
        /\ conn' = [conn EXCEPT ![client.server].cut = TRUE]
        /\ spoiled' = (spoiled \/ Line.code # NoCode)
     \/ /\ client.phase = "spawned"
        /\ UNCHANGED <<conn, spoiled>>
  /\ client' = Retried
  /\ cuts' = cuts + 1
  /\ UNCHANGED <<total, trim, dir, daemon, replay, kills>>

\* `~.`: SHUTDOWN is sent, and may arrive.
Abort ==
  /\ client.phase = "live"
  /\ client' = [client EXCEPT !.phase = "aborted", !.server = NoOne]
  /\ conn' = [conn EXCEPT ![client.server].cut = TRUE]
  /\ \/ /\ client.server = Daemon /\ daemon.attach # "none" /\ Undecided
        /\ daemon' = [daemon EXCEPT !.shutdown = TRUE]
     \/ UNCHANGED daemon
  /\ UNCHANGED <<total, trim, dir, replay, history>>

-----------------------------------------------------------------------------
Attach ==
  AttachHello \/ AttachStreams \/ AttachDropped \/ AttachDrains \/ AttachExits

Run == AcceptStops \/ Killed \/ CloseBuffer \/ Tidy \/ MarkClean \/ MarkDiskcap
         \/ RemoveDir

ReplayRun(r) ==
  \/ ReplayStarts(r) \/ ReplayScans(r) \/ ReplayListens(r)
  \/ ReplayHandshakeFails(r) \/ ReplayHello(r) \/ ReplayStreams(r)
  \/ ReplayExits(r) \/ ReplayCleansUp(r)

Client ==
  \/ \E s \in Servers : Dial(s)
  \/ SpawnReplay \/ NothingLeft \/ SpawnFails
  \/ RecvHelloAck \/ RecvOutput \/ RecvExit \/ RecvEOF

Next ==
  \/ Output \/ ReadAck \/ ShellExits \/ Signal \/ DiskCap
  \/ Attach \/ Run
  \/ \E r \in Replays : ReplayRun(r) \/ AcceptTimeout(r)
  \/ \E s \in Servers : Kill(s)
  \/ Client \/ Cut \/ Abort

Spec == Init /\ [][Next]_vars

\* Processes are scheduled.  A server whose connection is dead and was not
\* reset promises nothing that touches the connection; dropping it on
\* shutdown does not.
Scheduled ==
  \/ ~conn[Daemon].cut /\ Attach
  \/ daemon.shutdown /\ AttachDropped
  \/ \E r \in Replays : ~conn[r].cut /\ ReplayRun(r)
  \/ Client

\* Run waits for nobody but the attaches.  (Without a condition of its own for
\* Run, a client that reconnects for ever could keep it from stopping.)
FairSpec == Spec /\ WF_vars(Scheduled) /\ WF_vars(Run)

-----------------------------------------------------------------------------
(* Properties *)

TypeOK ==
  /\ {total, trim, client.shown} \subseteq 0..MaxTotal
  /\ trim <= client.shown /\ client.shown <= total
  /\ dir \in [exists : BOOLEAN, sock : Servers \cup {NoOne}, clean : BOOLEAN,
              diskcap : BOOLEAN, last : 0..MaxTotal]
  /\ daemon \in
       [phase : {"serving", "killing", "waiting", "closed", "tidied", "marked",
                 "gone"},
        attach : {"none", "hello", "live", "drain"},
        shell : BOOLEAN, exited : BOOLEAN, exitDelivered : BOOLEAN,
        shutdown : BOOLEAN, signalShutdown : BOOLEAN, preserveOnExit : BOOLEAN,
        diskcap : BOOLEAN, preserve : BOOLEAN, flushed : BOOLEAN]
  /\ replay \in [Replays -> [phase : {"none", "start", "scan", "bind", "listen",
                                    "hello", "stream", "refuse", "cleanup",
                                    "gone"},
                            clean : BOOLEAN, diskcap : BOOLEAN,
                            last : 0..MaxTotal, delivered : BOOLEAN]]
  /\ conn \in [Servers -> [open : BOOLEAN, cut : BOOLEAN, acked : BOOLEAN,
                          sent : 0..MaxTotal,
                          code : {NoCode, ShellCode, 1, 129, 130, 133, 134}]]
  /\ client \in [phase : {"idle", "spawned", "hello", "live", "exited", "failed",
                         "aborted"},
                server : Servers \cup {NoOne}, shown : 0..MaxTotal,
                code : {NoCode, ShellCode, 1, 129, 130, 133, 134, 136}]
  /\ cuts \in 0..MaxCuts /\ kills \in 0..MaxKills /\ spoiled \in BOOLEAN

\* The clean marker tells the truth for as long as it is there: every byte not
\* acknowledged is in the segment files, also when a replay daemon came in
\* between the last steps of the daemon, or the flush failed.
CleanIsComplete ==
  dir.clean => dir.last = total \/ trim = total

\* A client that exits with one of the codes that say "you have it all" has:
\* whether it was served live or by a replay daemon that looked at the markers
\* and scanned the files while the daemon was still ending.
ExitTellsAll ==
  client.code \in {ShellCode, 129, 133, 134} => client.shown = total

\* Until then the rest of the stream is with the daemon, in the directory, or
\* on its way with an EXIT behind it,
\* if no process was killed, no append and no flush failed, the user did not
\* abort, no EXIT was lost in flight with its connection, be it by the network
\* or by ssh's end, the client's or attach's, and no server gave the directory
\* up unserved.
KeptUntilShown ==
  \/ client.shown = total \/ Running \/ dir.last = total
  \/ client.phase \in {"hello", "live"} /\ Line.code # NoCode
  \/ kills > 0 \/ spoiled \/ client.phase = "aborted"
  \/ daemon.preserve /\ ~daemon.flushed

\* Once the daemon is gone the client is told, whatever it left behind: no
\* client reconnects for ever to a session that ended.
GoneIsTold ==
  daemon.phase = "gone" ~> client.phase \in {"exited", "failed", "aborted"}

\* A daemon asked to stop does, unless it waits for an attach whose connection
\* is dead.
StopEnds ==
  (daemon.shutdown \/ daemon.signalShutdown)
    ~> \/ daemon.phase = "gone"
       \/ daemon.attach # "none" /\ conn[Daemon].cut

\* ReplayRun: "Only clean up the session dir when the replay actually completed
\* end-to-end".
OnlyServedIsRemoved ==
  [][(dir.exists /\ ~dir'.exists /\ ~Running)
       => \E r \in Replays : replay[r].delivered]_vars

=============================================================================
