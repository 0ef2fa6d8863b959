# continuous-ssh: a TLA+ verification development

`continuous-ssh` (`xssh`) wraps an interactive ssh session so that it survives
disconnects. A daemon on the remote host owns the shell's pty and buffers its
output; the local client runs `ssh host xssh attach`, which bridges ssh's stdin
and stdout to the daemon's Unix socket. When the network drops, the client
reconnects and the daemon resends what the client has not shown. When the
daemon ends with nobody attached, it leaves the rest of the output on disk, and
a later attach spawns a *replay daemon* that serves it.

This directory models that system in TLA+, model-checks it with TLC and proves
theorems about it with TLAPS. `PROJECT.json` lists components, runs, mutants,
findings, hazards and theorems, and maps each definition to the source lines it
stands for.

## The system

| Part | Source | State it keeps | Operations |
|------|--------|----------------|------------|
| stream buffer | `internal/buffer` | RAM tail, segment files, chunk hashes, trim point, notify channel, sealed | New, Append, TrimTo, ReadAt, WaitFor, Seal, Close, ScanSegments |
| chunk reconciliation | `internal/chunk` | none | ResendFrom on two manifests; encoding of HELLO and RESIZE |
| frame protocol | `internal/proto` | write mutex | WriteFrame, ReadFrame |
| daemon, attaches | `internal/daemon` | activeConn, epoch, exited, exitDelivered; per attach a streamer and a reader | acceptLoop, serveAttach, streamLoop, readUpstream, pumpPTY, waitCmd |
| daemon, end of session | `internal/daemon` | shutdown, signalShutdown, preserveOnExit, diskcap; the session directory (segments, sock, pid, info, clean, diskcap) | signal handler, checkDiskCap, Run from the accept loop to the exit |
| replay daemon | `internal/daemon` ReplayRun | what it scanned, the one connection it serves | accept with timeout, handshake, streamSegments, EXIT, removal |
| attach | `internal/attach` | none (one process per connection) | Run (`--new`, `--session`), spawn of daemon and replay daemon, bridge |
| client | `internal/client` | history and manifest, ackedThrough, current connection, terminal state | run, runOnce, readFrames, handleOutputFrame, tryAck, stdin and `~.`, wake probe, auto-install |
| disk cap | `internal/sessions/diskcap.go`, daemon | segment sizes of all sessions | budget, share, shutdown |
| health markers | `internal/daemon` | an atomic flag and a file each for catchup, stalled, idle; two clocks | catchupCheck, evaluateHealthMarkers; removals by pump, reader, attach |
| sessions CLI | `internal/sessions` | none; reads the session directories | List, Kill, Rm |
| filters | `internal/altscreen`, `internal/client` | the automaton, the pending `~`, the last byte shown | Scan, readStdinForever's escapes, crlfTranslator |
| logging, command line | `internal/dlog`, `cmd/xssh` | log files | no behaviour depends on them |

The parts interact by frames over one socket per connection (HELLO, HELLO_ACK,
OUTPUT, ACK, EXIT, SHUTDOWN, ...), by the daemon's condition variable (attaches,
accept stopper, waitCmd), by the buffer's lock and notify channel (pump,
streamers, readers), and by the session directory (daemon, replay daemons,
attaches of later connections, `xssh ls/kill/rm`).

What makes it hard, and what must nevertheless hold:

* **Several attaches at once.** The daemon serves an old connection while a new
  one shakes hands; the new one closes the old one's socket, the old one's
  goroutines run on for a while. The terminal must still show the stream once
  and in order, and nothing may be freed that it has not shown.
* **Sections, not transactions.** A manifest, the comparison, the clamp to the
  trim point and the first read are separate sections under the buffer's lock,
  with the shell writing and other readers trimming in between.
* **Failing and torn spills**, segment boundaries, trims in mid-segment and
  mid-chunk: no held byte may be lost or read back as another.
* **The end.** Shell exit, signals, abort, disk cap and SIGKILL in any order, a
  flush that fails, markers written in separate steps, while a client
  reconnects and a replay daemon looks at a directory that is still changing.
* **Reconnecting.** Each attempt has an ssh process, two pipes and four
  goroutines; the network dies at any step of dialling, a session, its end and
  the next attempt, while `~.`, the wake probe and late frames of the previous
  attempt are under way. No key may be sent twice, no EXIT taken for a broken
  link, and `~.` must work in every state.
* **Acting on what was.** Disk-cap sweepers, new sessions, `xssh kill` and `rm`
  decide on listings of a host that goes on changing; health flags and files are
  changed by four kinds of goroutines without a common lock.
* **Waiting.** Streamers wait for the buffer, serveAttach waits for its
  streamer and reader, Run waits for the attaches, the client waits for a
  connection: nobody may wait for ever, as far as the network allows.

## Modules

| Module | What it is |
|--------|-----------|
| `ByteStream` | the data abstraction: the byte at offset k is the number k, so a lost, repeated or displaced byte is a wrong number |
| `Buffer` | `internal/buffer`, one action per method |
| `StreamWindow` | abstract specification of the buffer: an append-only window with exact reads |
| `BufferProofs` | TLAPS proofs about `Buffer`: the held range, the chunk hashes, the disk-waste bound, waiting |
| `Chunk` | `ResendFrom`, as operators |
| `MCChunk` | every pair of small histories and trims, and the reference definition |
| `ChunkProofs` | TLAPS proof about `ResendFrom`, for hashes of any kind |
| `Stream` | daemon, connections and client: the output stream across disconnects; EXTENDS `Chunk` |
| `Delivery` | abstract specification of `Stream`: shown in order, once, and freed only after it is shown |
| `StreamProofs` | TLAPS proofs about `Stream`, that it implements `Delivery` among them |
| `Recovery` | the end of the daemon, the session directory, attach, replay daemons, exit codes |
| `RecoveryProofs` | TLAPS proofs about `Recovery` |
| `Client` | the client process around the stream: attempts, ssh processes, goroutines, `~.`, wake probe, keys on their way to the pty |
| `ClientProofs` | TLAPS proofs about `Client` |
| `HealthMarkers` | the marker files of a daemon and who writes and removes them |
| `HealthMarkersProofs` | TLAPS proofs about `HealthMarkers` |
| `Sessions` | the sessions of one host: listings, disk cap, `xssh kill` and `rm` |
| `SessionsProofs` | TLAPS proofs about `Sessions` |
| `Filters` | the alt-screen scanner, the `~` escapes, the CR LF translation, byte by byte, with their reference definitions |
| `MCAlgorithms` | `MCChunk` and `Filters` in one specification for TLC, one at work at a time |
| `AlgorithmProofs` | TLAPS proofs that `ResendFrom` and the filters do what their reference definitions say |

`Buffer`, `Stream` and `Recovery` are layers over the same buffer: `Stream`
uses the window that `Buffer` is shown to implement (`total`, `trim`,
`sealed`), plus the manifest as `ManifestAligned` says it is; `Recovery` keeps
the length, the trim point and the end of the files on disk, and one attach at
a time, which `Stream` has in full. `Client` is the other half of `Stream`'s
client: what happens to a connection rather than to the bytes of it; its far end
is a summary of `Recovery`. `Sessions` sees of a session what `Recovery` leaves
in its directory, and of its markers only whether there is one, which
`HealthMarkers` details.

### Buffer

Variables are the fields of `Buffer` (`mem`, `memOffset`, `segments`,
`chunkHashes`, ...), plus what Close left on disk (`persisted`), the last reply
of `ReadAt`, one goroutine in `WaitFor`, and a history flag `failed`. All
methods hold `b.mu`, so a method is an action; `WaitFor` is three (`WaitFor`,
`WaitCheck`, `WaitWake`, and `WaitCancel` for its context) because it releases
the lock. The loops of `spillToDisk` and `Append` are given in closed form
(`Spill`, `HashIn`). `AppendFails` and the second disjunct of `Close` are the
error returns: `SpillFailures` is the set of file contents an error can leave,
short writes included. A SHA-256 hash is the bytes hashed. After a failed
Append nothing is appended (pumpPTY returns). Reading is where disks do not fail here:
that a segment file cannot be opened or read, or is shorter than its segment
(`buffer.go:372-377`), is left out.

### Chunk

`End`, `Overlap`, `Divergent`, `LastChunkStart`, `ResendFrom` follow the lines
of `chunk.ResendFrom`. `MCChunk` grows and trims two arbitrary byte histories
and compares the result with "the largest adequate chunk boundary", defined
without the algorithm.

### Stream

One record per connection and per attach. `attach[c].stage` is where
`serveAttach` stands: `hello` (reading HELLO), `manifest` (FirstIndex read),
`resend` (hashes read, ResendFrom done), `acked` (HELLO_ACK written), `live`
(the cond.Wait loop), `drain` (exited, waiting for the streamer), `closing`
(streamCancel, Close, waiting for both goroutines), `gone`. The streamer and the
reader have states of their own. `link[c]` is one ssh process with its bridge:
two queues, its two ends, and `reset` once the break is noticed at the daemon's
end. The client process has the phases of `run` and `runOnce`; `ticker` is
`watchAckIdle` in `tryAck`: the connection loaded from `currentPC` and, once
`ackMu` has been held, the offset it is about to acknowledge. The ACK may go to
a connection that is over by then, and one of `handleOutputFrame` may overtake
it, so ACKs reach the daemon out of order. `Rerun` is `xssh --session` after a failure.

Reading an ACK and trimming is one step here. A reader that has its frame when
its socket is closed trims after `Activate`; the model lets it trim up to
`Activate` only. The offset is one the client has shown either way, and a
streamer overtaken by it gives up as in `stream_drain`.

Left out: STDIN, RESIZE, PING, protocol versions, signals, SHUTDOWN, the disk
cap, the keep-alive timeout and the session directory. Client and daemon
histories cannot differ in content here (both are the shell's output), so the
divergence branch of `ResendFrom` is exercised in `MCChunk`; that a *manifest
read in three sections* does not mislead it is checked here.

### Recovery

`daemon.phase` follows `Run` after `acceptLoop`: `serving`, `killing` (listener
closed), `waiting` (shell killed, pump ended, waiting for attaches), `closed`
(decision made, buffer closed), `tidied` (sock, pid and info removed), `marked`
(clean written, diskcap not yet), `gone`. `replay[r].phase` follows `ReplayRun`:
`start` (markers), `scan`, `bind`, `listen`, `hello`, `stream` or `refuse`,
`cleanup`. `dir` is the session directory; `dir.sock` is whom the path leads to,
so an ending daemon that removes the path of a replay daemon's socket is
visible. The client and the attach process that dials for it are one record:
`idle`, `spawned` (attach waits for a replay daemon's socket), `hello`, `live`,
and the ends `exited` (with a code), `failed` (137), `aborted`. `Kill` is
SIGKILL, the OOM killer or power loss. A keep-alive timeout may come at any
time.

Assumed: a replay daemon binds its socket within attach's 5 s, and an attach
that dials a listening replay daemon connects before its 30 s are over; the
model has one client. `Cut` is every way in which a connection ends with what is in
flight on it lost: the network cuts it; `sshCmd.Wait` closes the client's pipe with
frames unread (`client.go:839`); attach's bridge closes the socket because its
standard input ended first (`attach.go:286-294`). `spoiled` records that an EXIT was
lost that way, written before or after the connection was dead, or that a replay
daemon removed the directory unserved: after those the code loses output by design of
the socket, and the properties except them by name rather than silently.

Left out: an Append that fails (`daemon.go:830-834`: the buffer is sealed and the pump
ends with the shell still running). `CleanIsComplete` and `ExitTellsAll` are hence
about a daemon whose spills succeed; after one that failed half-way, a Close that
succeeds leaves a clean marker on a directory with bytes doubled (see Findings).
A marker that cannot be written (`daemon.go:251-260`) has no step of its own: a replay
daemon that misses `clean` refuses, as it does after a kill in front of `MarkClean`,
and one that misses `diskcap` only, as after a kill in front of `MarkDiskcap`.

### Client

`run.phase` is where `run` and `runOnce` stand: `start` (the head of the loop),
`dial` (ssh started, HELLO written, waiting for HELLO_ACK), `live` (the select),
`shutdown` (SHUTDOWN written, 2 s for ssh to end), `joining` (sessCancel and
killSSH done, `wg.Wait`), `done`. `session` is what `runOnce` starts: readFrames,
forwardStdin, the goroutine in `sshCmd.Wait` with `sshDone`, and `exitCh`. `probe`
is `watchForWake`: the connection it took, and whether it has a Pong for it.
`stdin` holds what is typed and not read (`tty`), `stdinCh` (`ch`) and `~.`.

`link[n]` is one ssh process: `proc`, the client's end of its stdout pipe (`open`,
which `sshCmd.Wait` closes while readFrames may still be reading), what is in it
(`down`), what is on its way up (`up`), and `cut` for a network that is gone
without a word. `Slots` are used again once nothing refers to them; that makes
the reconnect loop endless in a finite model.

`far` is what the client needs of the other side: which connection is active,
the daemon's stdin channel and its writer, the pty, and whether the daemon
lives, has lost its shell, has preserved its session or is gone. A HELLO_ACK may
always turn out to be of another major version (132). Left out: the terminal's
raw mode and its failures, errors of encoding HELLO, auto-install (its outcome is
`Returns` with `why = "missing"`), OUTPUT and ACK.

### HealthMarkers

Writing or removing a marker swaps an atomic flag and then does the file
operation; `thread[t]` is what a thread has begun: the clocks to stamp, the list
of operations, and whether the first one's flag has been swapped. The ticker's
evaluation is `Tick`, `CheckStalled`, `CheckCatchup` and `CheckIdle`, each
reading what it decides on when it gets there; `ticker.held` is the byte count
taken at the check for stalled. A file operation may fail. A failed write clears the
flag, and the file may be there all the same (`WriteFails`: os.WriteFile creates
before it writes and closes); a failed remove is only logged, with the flag clear and
the file there (`RemoveFails`). `raced` and `leftover` are histories: the markers whose
write a remove overtook, and those whose file a failed operation left, each until that
file is removed or properly written. Append and its `lastOutputMs` store are one step, so
are TrimTo and its `lastAckMs` store; serveAttach's stores are not. `Elapse`
makes a clock 30 s old; it needs a tick in between and nobody in the middle of
an operation, since no operation takes that long.

### Sessions

`session[s]` is a process, a directory with a pid file, whether a client is
attached, whether a marker file makes the session count as not growing, and its
segment bytes. `view[s]` is what a sweeper, or an `attach --new`, has found out and
has not acted on. checkDiskCap holds no lock, and a sweeper goes through it in four
steps: it has `listed` an overrun host, it is `counting` its own segment files, which
others unlink and write meanwhile (`CountGoesOn`: each such file is in the sum or is
not), it compares (`SweepCompares`), and it is `stopping`, whatever its session has
by then. `view[s].most` is a history: what there was when the count began and was
spilled while it lasted. `cli` is an `xssh kill`, `rm` or `rm --kill` between its
listing and its last step; there is one at a time, without bound on their number.

Left out: a listing is one step although List reads one directory after another, and
one without consequence (no overrun, or nobody growing) is no step at all; the free disk
that DiskBudget asks for is a constant; a check that is under way when its session is ended by something else
is dropped (in the code it may still find for the cap: the daemon, which is ending
already, then ends as a capped one, which `Recovery` has as long as its shell runs);
pids are not used again.

### Filters

Three loops over bytes, each with the state the code keeps from one read or write
to the next. A step is one byte of a loop (`ScanNext`, `KeyTyped`, `ByteShown`) or
its end (`ScanReturns`, `ReadEnds`, `WriteEnds`), which may come between any two
bytes: every way of cutting the input into reads is a behaviour. `output`, `keys` and
`text` are histories of the input, and the properties compare what was made of them
with definitions that look at all of it: `Switched` (the alt-screen sequences
anywhere in the output; the last one decides `inAltScreen`), `Meant` (the places
of the keys the remote should have got; those that the last read holds in front of a
`~.` count as got although they stay in `stdin.out` and are never sent, see
Findings), `PlaceOnScreen` (where each byte stands on
the terminal, behind a CR for every bare LF so far). The scanner is the same code
in daemon and client; `Write` is the program behind the pty.

## Runs

| Run | Properties | What it shows |
|-----|-----------|----------------|
| `buffer_disk` | TypeOK, SegmentsTileHeldRange, ManifestAligned, TrimWasteBounded, PersistedComplete, ImplementsWindow, WaiterReturns | the daemon's buffer, failing and torn spills included |
| `algorithms` | ResendsFromLargestAdequate, AltScreenTracked, TextFiltered | ResendFrom over all pairs of small histories; the filters over all small inputs, cut anywhere into any number of reads and writes |
| `stream_safety` | TypeOK, NoGap, CurrentAttachIsActive, ExitIsLast, ImplementsDelivery | three connections, one cut, late ACKs, old attaches overtaking new ones |
| `stream_chunks` | NoGap, ImplementsDelivery | chunks of two bytes: ragged tails, overlap, mid-chunk trims; a client started anew |
| `stream_live` | ShownOrTold, SupersededEnds | liveness |
| `stream_drain` | DrainedBeforeExit | violated: see Findings |
| `stream_reattach` | ReattachShows | violated: see Findings |
| `recovery_ends` | TypeOK, CleanIsComplete, ExitTellsAll, KeptUntilShown, GoneIsTold, StopEnds | every way a session ends, with reconnects, replay daemons and a kill at any step |
| `recovery_served` | OnlyServedIsRemoved | violated: see Findings |
| `client_ends` | TypeOK, RunDecidesRightly, PongIsFresh, KeysOnceInOrder, EscapeHeard, AbortEnds, ShutdownHeard | the reconnect loop against every end of an attempt |
| `markers` | TypeOK, OneMarkerAtATime, GhostHasCause, StalledIsShown | health markers without a lock, a failing write or remove |
| `host` | TypeOK, DirKeptWhileUp, SmallIsSpared, DetachedOverrunEnds | disk cap and commands on stale listings and torn counts |

The client's RAM-only buffer (`Disk = FALSE`) has no run: the proofs hold for it
as for the daemon's.

`CHECK_DEADLOCK FALSE` is set everywhere: a session really ends, and bounded
streams and connections run out.

**Bounds.** `buffer_disk`: a stream of 5 bytes, chunks and segments of 2, a RAM
tail of 1, appends and reads of up to 3. An append can then complete two chunks
and fill more than one segment, spill a part of a segment, a trim can fall in
front of, inside, at the end of and beyond each segment and chunk, and a spill
can fail before, between and inside its writes. `algorithms`: three chunks per
side are enough for an overlap with a divergence in front of, inside and behind
it, with either side longer or trimmed further; six pieces of escape sequences
hold two whole sequences or one with more parameters than `ParmMax` keeps; six
keys hold two escapes that begin a line, each with what follows. A read may end
between any two bytes. The three filters and ResendFrom share no state, so that one
is at work at a time.
`stream_safety`: three
connections are what it takes for an old attach to replace a newer one after
the client has left it, and for ACKs of a first connection to arrive while the
third resumes. `stream_chunks` trades one connection for chunks of two bytes in a stream of
four, with one frame in flight: two chunks, each of which may be ragged.
In `stream_chunks` a client can only be started anew before anything is shown
(one cut); what happens after that is `stream_reattach`. `recovery_ends`: two
bytes of output, one in RAM, so that there may be a segment, a tail, both or
neither; one cut and one kill, and one replay daemon more than can fail.
`client_ends`: two ssh processes at a time (the current one and one that probe,
pipe or far end still refer to), channels of one (16 and 64 in the code), so that
both are full and empty in turn, and two events among keys, suspends and silent
cuts; the safety properties were also checked with three. `markers`: one
connection that attaches, ACKs and leaves again and again, so that its removals
fall anywhere in the ticker's work (checked with two aside), and one file
operation that fails (checked with two aside). `host`: two sessions, whose
budget is 3 units when one grows and 2 when both do, with shares of 3 and 1: sizes
of 0 to 3 are below, at and above the share of 1, both sessions together can overrun
either budget, and the share of 3 is reached; listings, counts and commands follow one another without bound.
The safety properties were also checked with a budget of 4 and sizes up to 4.

**Fairness.** `Buffer!FairSpec`: the waiting goroutine is scheduled, and
pumpPTY seals after a failed append. `Stream!FairSpec`: weak fairness of
`Scheduled`, the union of the steps of goroutines and the client that need
neither the shell, nor a timer, nor the network: since only finitely many of
them can follow each other, this says "while some goroutine can run, one does".
Steps that read from or write to a socket whose far end is dead but not reset
are left out of it: TCP promises nothing there, and nor does the code. The
shell need not write or exit, the network need not cut or reset, the ticker
need not tick. `Recovery!FairSpec` likewise, with a condition of its own for
`Run`, because a client that keeps reconnecting must not keep the daemon from
ending. `Client!FairSpec`: goroutines are scheduled; an attempt of ssh ends one
way or the other and a dead link is noticed. That is ssh's and TCP's affair: the client
passes `-T` and the user's arguments only (`client.go:952-956`), so it is TCP's timeouts
that notice it, or `ServerAliveInterval` if the user's ssh configuration sets it
(`src/README.md:693-696`). `AbortEnds` rests on this while the client is dialling
(the case at `client.go:704` under Findings). Nobody need type, read
the pty, end the shell or wake the machine, and a probe need not time out.
`HealthMarkers!FairSpec`: the ticker ticks, and what a thread has begun it
finishes. `Sessions!FairSpec`: each live daemon's sweeper ticks, and nothing else.

**Mutants.** Each property of a passing run has a mutated definition
(`NeverWaits`, `AlwaysReleased`, `SealedFirst`, ...) that stands right in front
of the one it replaces and that the run must reject.

## Findings

Each is a run that TLC finds violated, against a sentence of the code or the
docs (`PROJECT.json` quotes them).

1. `stream_drain`. serveAttach clamps its start to the trim point; the reader of
   the connection being replaced then handles one more ACK and trims beyond it.
   ReadAt fails, the streamer ends, the connection stays open and shows nothing,
   and on the shell's exit EXIT follows without the rest.
2. `stream_reattach`. `xssh --session` starts with an empty history; the daemon
   resumes at its trim point; the client drops every frame as a gap.
3. `recovery_served`. The replay daemon's accept timeout and each handshake
   failure remove the preserved session.

Met while modelling and not kept as runs, in the same manner:

* EXIT written into a connection that was cut and not yet noticed sets
  `exitDelivered`, and the session is removed with output never shown
  (`daemon.go:1097` against the comment at 416-417).
* HELLO_ACK resets the client's ACK watermark to all it has shown; if the last
  ACK was lost and the shell is silent, the daemon never frees those bytes
  (`client.go:791` against `README.md:792-795`).
* `preserveOnExit` is not qualified by `shutdown`: after a signal, `~.` does not
  remove the session (`daemon.go:230` against 226-229 and `README.md:930`).
* The disk-cap shutdown sets `shutdown`, which drops the attach undrained
  (`daemon.go:818` against 784-786); the bytes survive on disk
  (`KeptUntilShown`).
* A replay daemon that looks for the marker before the ending daemon has
  written it answers 130, "didn't shut down cleanly" (`daemon.go:1328` against
  1417-1419); the files stay, so a later attempt succeeds.
* A shell that ends on its own while nobody is attached is preserved and
  replayed with 133, the code for "stopped by signal" (`daemon.go:230` against
  1420-1422, `README.md:929` and 1125).

* After an Append that failed half-way through its spill, part of `mem` is in the
  segments and `memOffset` has not moved. If the disk recovers, Close writes
  `mem` again behind it, returns nil, and the session is marked clean with bytes
  doubled (`buffer.go:582` against 565-567; `PersistedComplete` excepts it).
* A reconnect between the close of the listener and the flush of the RAM tail
  gets 136, "the session is truly gone", when there is no segment file yet
  (`attach.go:114-117`).
* `sshCmd.Wait` closes the stdout pipe when ssh has ended, whether or not
  readFrames has read it: an EXIT still in the pipe is lost and the client
  reconnects, to be told 136 (`client.go:839` against the comment at 881-885).
  `RunDecidesRightly` is about the EXIT that was read.
* The wake probe's timeout kills the ssh process that is current by then, also a
  newer one that is still dialling. Its stderr is empty, which counts as
  permanent, so the client ends with 137 instead of reconnecting
  (`client.go:1231`).
* While no session drains it, `stdinCh` takes 16 reads; then readStdinForever
  blocks and `~.` is not heard (`EscapeHeard` excepts it).
* Keys typed in front of `~.` and read together with it are dropped
  (`client.go:540-545`).
* A Pong waits behind OUTPUT on the daemon's write mutex and in the socket: with a
  backlog on a slow link it can miss the probe's 10 s (`daemon.go:1219`).
* HELLO_ACK is read without the context: after `~.` a client that is dialling
  ends when ssh gives up (`client.go:704`).
* killCmd and waitCmd both call `cmd.Wait`; the one that comes second gets an
  error, and waitCmd then reports exit code 1 for whatever the shell's was
  (`daemon.go:894`).
* A remove that falls between the swap and the WriteFile of a write leaves a
  *ghost*: a file whose flag is clear. The daemon does not remove it, List
  reports the session by it and does not count it as growing, until the marker
  is next set and cleared (`daemon.go:689`, against `README.md:1023-1025`,
  "Cleared on any incoming ACK"). A remove that fails leaves a ghost too: the flag is
  clear by then and the error is only logged (`daemon.go:704-707`, likewise 727-730 and
  751-754); so does a write that fails behind the creation of the file.
  `GhostHasCause` says, and `GhostsHaveCause` proves, that there is no third cause: each
  ghost is one of a race or of a failed operation on that very file. Likewise a
  write between Swap(false) and Remove of an attach loses its file until the
  flag is cleared and set again.
* When every session is idle, in catchup or stalled, nobody counts as growing and
  checkDiskCap returns: there is no ceiling then (`README.md:783-787` calls
  DiskBudget "the only ceiling").
* Every new session lowers budget and share, so that starting one can get an
  older one stopped; `SmallIsSpared` bounds whom it can hit.
* checkDiskCap holds no lock between SegmentBytes (`daemon.go:805`) and the stop
  (816-818): an ACK that trims in between, or behind the file just counted, gets a
  session stopped and preserved that is within its share by then. `SmallIsSpared` is
  about what was there to be counted.
* What was listed as dead is removed by `kill`, `rm` and `rm --kill`, though it
  may have come up or be replayed by then (`sessions.go:440-443`);
  `DirKeptWhileUp` excepts it.
* An ESC inside another escape sequence ends that one and begins none: a switch
  of the alt-screen right behind it is missed (`AltScreenTracked` excepts it).
* The auto-install prompt reads standard input while readStdinForever may be
  reading it (`client.go:1528`).

## Proofs

`BufferProofs`, for every value of the constants (`BufferAssumption`: the sizes
are positive):

* `BufferInvariant`: `Spec => []BufferInv`. `SegmentsTileHeldRange` is not
  inductive: that the held range is covered does not say where the next segment
  starts. `BufferInv` strengthens it to `Tiling`: the segments, ordered by
  start, are sound files that do not overlap and cover
  `trimOffset..memOffset-1` exactly, and the last ends at `memOffset`, where the
  next spill continues; after a failed spill only `Covering` is left, which is
  why nothing may be appended then. The proof has a lemma per
  action; `SpillTiling` and `FailureCovers` carry it: the closed form of the
  spill loop extends a tiling, and every state a failed spill can leave still
  covers what was covered.
* `TypeCorrect`, `NothingHeldIsLost` (`SegmentsTileHeldRange`) and
  `CloseKeepsStream` (`PersistedComplete`) follow from it.
* `BufferImplementsWindow`: every step of `Buffer` is a step of `StreamWindow`
  or a stutter; the work is in `ReadExact`, that ReadAt assembles the right
  bytes from files and RAM.
* `ManifestIsAligned`. `ManifestAligned` alone is not inductive, since the length of
  what is hashed of the open chunk does not say what the next append completes;
  `HashInv` adds its content. The work is `DivAppend` (an append completes as many
  chunks as the quotient grows by) and `HashInRight`; `BufferInv` contributes the types
  and `trimOffset <= total`.
* `WasteIsBounded` (`TrimWasteBounded`). The bound counts the stored bytes, each by
  segment and place in its file. A tiling gives every one of them a place of its own in
  the stream (`PlaceOf`, `PlacesApart`), between the start of the oldest segment, which
  reaches beyond `trimOffset` and is no longer than `SegmentSize`, and `memOffset`:
  hence there are no more of them than places (`StoredBounded`), and no sum over the
  segments is needed.
* `WaiterIsWoken`: the safety half of `WaiterReturns`. WaitFor takes the channel before it
  checks, and `NoLostWakeup` says that whoever sleeps either waits for what is not
  there yet or sleeps on a channel that was closed since; the one exception is a failed
  append, which closes nothing until Seal follows it.

`ChunkProofs`, for every chunk size, any two manifests and any set their hashes
may be of: `ResendIsExact`, and lemmas about the bounds of ResendFrom that
`StreamProofs` uses, where a hash is a sequence of bytes.

`AlgorithmProofs`, for input of any length, any chunk size and any number of parameter
bytes kept (`ChunkAssumption`, `LengthAssumption`, `FiltersAssumption`):

* `ResendIsLargestAdequate` (`ResendsFromLargestAdequate`). `HistoryInv` has the
  histories' types and that nobody trims more than complete chunks; `LargestAdequate`
  then shows that `Divergent` is where the first comparable difference is, also when
  one side has trimmed what the other would compare.
* `AltScreenIsTracked` (`AltScreenTracked`). What the scanner holds is about the last few
  bytes, and the property about all of them: `AutomatonInv` ties the one to the other
  in both directions. Whatever the automaton stands in, the output has there
  (else it would see switches that are not there), and in a sequence that begins where
  nothing else is, the automaton stands (else it would miss it), with `parm` as much
  of the parameters as is kept. `EventNext` then says that a byte brings an event exactly
  when a sequence ends with it. It is for the second direction that the output has to be
  `Plain`: behind an ESC that interrupts a sequence the automaton is idle.
* `TextIsFiltered` (`TextFiltered`), from `KeysInv` and `TerminalInv`, which add what
  `atStartOfLine`, `pendingTilde` and `lastByte` say of the last key or byte. `MeantNext`
  and `PlaceNext` say how the reference definitions change with one more byte; the
  cardinalities in them are why those lemmas are there and no induction over the
  input is needed: the bytes come one by one, as the code takes them.
* `RunTakesTheirSteps`: what run `algorithms` explores implements `Spec` of `MCChunk` and
  `FilterSpec`, which those theorems are about.

`StreamProofs`, for any number of connections, cuts, bytes and frames in flight
(the assumptions `Stream` states: bounds are natural numbers, frames carry at
least a byte, connections are numbered from 1):

* `TypeCorrect` and `CurrentIsActive` (`CurrentAttachIsActive`). An epoch alone does not
  say which attach serves the client. `ServeInv` adds that no attach has an epoch to
  come (`ActiveOK`), that connections are opened in order and nothing is done on one
  before it is (`UntouchedOK`), that the client's end is up on its own connection only
  (`LinkOK`), and that a streamer belongs to a started attach (`StageOK`).
* `ShownIsStream`. `NoGap` is far from inductive: whether a frame leaves a hole is
  settled long before, when an attach reads its HELLO, decides where to resume, and
  is overtaken by the client's next connection. `DataInv` says for every connection
  what each thing under way may be. Every OUTPUT frame holds the stream's own bytes
  and starts at or below what the client will have shown when it comes to it
  (`FramesOK`, by `Reached`: the end of a frame in front of it, or what is shown
  already); a manifest the daemon holds, and an ACK on its way, never exceed what is
  shown (`UpOK`, `peer`); the resume offset is at most what is shown or about to be
  (`DataOK`). That nothing is freed that was not shown, `trim <= Len(shown)`, is part of
  it, because an attach clamps its resume offset to the trim point. For EXIT, `Finished`
  and `Unfinished` say that a streamer ends only when everything was sent, when its
  connection is dead, or starved (`stream_drain`), and that EXIT lies behind the last
  byte.
* The theorem speaks of a client process that was not started again
  (`client.reruns = 0`), whatever `MaxReruns` is. A client started with `--session` has
  an empty history against bytes already freed, `trim <= Len(shown)` is false of it, and
  finding `stream_reattach` shows what it comes to.
  `NoGapEver`, `ExitComesLast` and `ImplementsPromise` (`ImplementsDelivery`) are
  properties of the whole behaviour and hence assume `MaxReruns = 0`, one client
  process, as run `stream_safety` has it.
* `ImplementsPromise`: an OUTPUT frame read is `Show`, an ACK read is `Free`, the
  shell's steps are those of `Delivery`, and all others are stutters; `StreamInv`
  supplies that `Show` is in order and `Free` not beyond it.

`RecoveryProofs`, for any length of output, any number of replay daemons, cuts and
kills:

* `TypeCorrect`. `BaseInv` bounds every offset by the length of the stream.
* `MarkerTellsTruth` (`CleanIsComplete`) and `CodeTellsTruth` (`ExitTellsAll`) come from one
  invariant, `EndInv`, since the marker is what codes are decided on and a replay
  daemon's conclusions outlive the directory they were drawn from. `DaemonOK`: what
  is done by the time Run gets somewhere, and whose the socket is. `DirOK`: once the
  flush is done, and as long as the marker lies, the files are `Covered`. `ReplayOK`: so
  is what a replay daemon scanned, if it saw the marker. `CodeOK`: a good code on its way
  means that the shell writes no more (`Frozen`) and what was sent is everything.
  `WaitOK` is what makes these inductive: a replay daemon is spawned for one attach,
  which waits for it, so that a client that finds the directory gone while the
  daemon is still ending is not one that can have attach make it again.
* `NothingIsLost` (`KeptUntilShown`). `KeptInv` adds `LineOK` (a server believes its
  connection open only if the client is at its other end, or the network has cut it),
  `ToldOK` (EXIT that counts as delivered is on its way, or the exceptions of
  `KeptUntilShown` apply) and `LeftOK` (what Run left behind when it ended, case by
  case of its decision).

`SessionsProofs`, for any number of sessions, budgets and sizes:

* `TypeCorrect`. `HostInv` relates pid file, directory and process: only a process that is
  up and has its directory is named by a pid file, and no directory has no bytes.
* `SmallSpared` (`SmallIsSpared`). `Known` is what a sweeper may have found out at each
  stage: a listing counts no more growing sessions than there are, the count never
  exceeds what was there to be counted (`CountKept`, whatever is unlinked and written
  meanwhile), and who is about to stop its session had more than the smallest share.
  `ShareShrinks` shows that the share only falls with the number that grow: that is why
  no old listing can hit a session whose bytes were within the smallest share. Nothing
  is said of the session's size when it is stopped: the code does not ensure it.
* `DirectoryKept` (`DirKeptWhileUp`). `CliOK` says that a removal which does not wait for a
  kill was decided on a listing in which no daemon was up. The property says so
  explicitly: the proof needed it, and it is what the code ensures.

`ClientProofs`, for any number of slots and events and channels of any capacity:

* `TypeCorrect`. `BaseInv` has the records' types and who may run when: readFrames and the
  others only in a session, a probe only with a connection.
* `RunDecides` (`RunDecidesRightly`). `DecideInv`: an EXIT that was read is in `exitCh` or in
  runOnce's result until run ends, whatever the select fired on; the terminal is
  active from the first HELLO_ACK on, which is in `haveHelloAcked` only after the
  attempt.
* `PongsAreFresh` (`PongIsFresh`). Nothing in a Pong tells which Ping it answers. `ProbeInv`
  shows why none is mistaken: only the current ssh process may be up, and nothing of
  a probe is under way on it (`Quiet`) but the one Ping or Pong of the present probe,
  since a probe that gives up kills that very process (`forceReconnect`), and a probe
  that is answered has had its only Pong.
* `KeysInOrder` (`KeysOnceInOrder`). The keys in the pty depend on those in two channels,
  on every link and in the terminal. `OrderInv` orders the whole way: `StdinOrder` (keys
  leave terminal, channel and client in the order typed) and `LinkOrder` (what a link
  carries rises, is nowhere else, was not handed to the daemon before, and lies above
  all that came over that link); `Trail` is what the daemon has, in the channel and in
  the pty. Keystrokes of *different* connections may be reordered there, and the
  property allows it. `ClientAssumption` assumes, of the constants, that `NoSlot` is no
  slot.

`HealthMarkersProofs`, for any number of connections and failing operations
(`ConnsAssumption`, `MarkersAssumption`):

* `TypeCorrect`. `WorkInv` says what work a thread may have: operations on different
  markers, writes by the ticker only, a swapped flag for the first of them only.
  Each way to begin, go on with or finish work has a lemma.
* `GhostsHaveCause` (`GhostHasCause`). The property speaks of moments when
  nobody touches the file; `GhostInv` says of every moment who accounts for it. Its
  second part is needed for the write that fails over a file left there before:
  it clears the flag, and the file must have been accounted for without the ticker.
* `MarkersExclude` (`OneMarkerAtATime`). Flags do exclude each other between two
  evaluations, but not within one: catchup and idle may both be set between their
  checks. `OneInv` speaks of `Pending`, the flags as they will be when the ticker has
  done what it has begun, which other threads can only clear, and keeps stalled
  out of the way from its check to the end of the evaluation.

Model-checked only: liveness (`WaiterReturns`, `ShownOrTold`, `SupersededEnds`,
`GoneIsTold`, `StopEnds`, `EscapeHeard`, `AbortEnds`, `ShutdownHeard`,
`StalledIsShown`, `DetachedOverrunEnds`), which is out of the prover's reach under
fairness. All invariants and action properties of the passing runs are proved.
A `stream_chunks` behaviour in which the client is started anew
before anything is shown is covered by the run only. The three violated properties
are of course not proved.

## Plan

1. Done: `Buffer`, `StreamWindow`, `BufferProofs`, with the disk-waste bound.
2. Done: `Chunk`, `ChunkProofs`.
3. Done: `Stream`, `Delivery`, `StreamProofs`.
4. Done: `Recovery`, `RecoveryProofs`.
5. Done: `ManifestIsAligned`, which makes the manifest in `Stream` a proved
   abstraction, and `WaiterIsWoken`, that `WaitFor` loses no wakeup.
6. Done: `Client`, `ClientProofs`. Next: the two callers of `cmd.Wait` and the shell's
   exit code.
7. Done: `Sessions`, with the disk cap, `xssh kill` and `rm`, and `SessionsProofs`.
8. Done: `HealthMarkers`, `HealthMarkersProofs`.
9. Done: `Filters`, `MCAlgorithms`, `AlgorithmProofs`.

## Not modelled

Logging, command-line parsing, auto-install (interactive shell
commands), rendering of `ls`, encodings of HELLO and RESIZE, and signal-safe
details of the pty.
