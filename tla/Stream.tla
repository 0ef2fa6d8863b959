------------------------------- MODULE Stream -------------------------------
(***************************************************************************)
(* The output stream across disconnects: the daemon's attaches             *)
(* (daemon.serveAttach, streamLoop, readUpstream), the connections, and    *)
(* the client (runOnce, readFrames, handleOutputFrame, tryAck).            *)
(*                                                                         *)
(* The daemon's buffer is the window StreamWindow specifies: total, trim   *)
(* and sealed.  A manifest is computed from it, as ManifestAligned of      *)
(* module Buffer says it may be.  Every connection c in Conns is one ssh   *)
(* process with the remote attach that bridges it to the daemon's socket:  *)
(* a queue of frames each way and its two ends.  The client has one        *)
(* connection at a time and numbers them in the order it opens them; the   *)
(* daemon serves each in a goroutine of its own (attach[c]), with two      *)
(* more for the streamer and the reader.  One action is one section under  *)
(* a lock, or one frame read or written.                                   *)
(*                                                                         *)
(* Left to other modules: signals, SHUTDOWN and the disk cap, the          *)
(* keep-alive timeout (the client reconnects within 30 s of the exit),     *)
(* STDIN, RESIZE, PING, versions, and what becomes of the session          *)
(* directory.                                                              *)
(***************************************************************************)
EXTENDS Chunk, SequencesExt

CONSTANTS
  MaxTotal,     \* bound: length of the stream
  MaxRead,      \* bound: bytes asked of one ReadAt (64 KiB)
  AckInterval,  \* unacknowledged bytes that trigger an ACK (5 MiB)
  MaxConns,     \* bound: connections the client opens
  MaxCuts,      \* bound: connections the network cuts
  Capacity,     \* bound: frames in flight to the client
  MaxReruns     \* bound: times the user starts the client again

ASSUME StreamAssumption ==
  /\ {MaxTotal, MaxCuts, MaxReruns} \subseteq Nat
  /\ {MaxRead, AckInterval, MaxConns, Capacity} \subseteq Nat \ {0}

Conns == 1..MaxConns
None == 0

VARIABLES
  total, trim, sealed,    \* the daemon's buffer
  exited, exitDelivered,  \* d.exited, d.exitDelivered
  listening,              \* the listener is open
  activeConn, epoch,      \* d.activeConn, d.epoch
  attach,                 \* the goroutines serving each connection
  link,                   \* the connections
  client,                 \* the client process
  cuts,                   \* connections cut so far
  starved,                \* history: a streamer gave up on a trimmed offset
  gapped                  \* history: the client dropped a frame as a gap

window == <<total, trim, sealed>>
shell == <<exited, exitDelivered, listening>>
active == <<activeConn, epoch>>
history == <<cuts, starved, gapped>>
vars == <<total, trim, sealed, exited, exitDelivered, listening, activeConn,
          epoch, attach, link, client, cuts, starved, gapped>>

Stages == {"none", "hello", "manifest", "resend", "acked", "live", "drain",
           "closing", "gone"}

\* Frames; bytes of the stream are named by their position.
Hello(bytes) == [type |-> "HELLO", off |-> 0, bytes |-> bytes]
HelloAck == [type |-> "HELLO_ACK", off |-> 0, bytes |-> <<>>]
Output(off, bytes) == [type |-> "OUTPUT", off |-> off, bytes |-> bytes]
Ack(off) == [type |-> "ACK", off |-> off, bytes |-> <<>>]
Exit == [type |-> "EXIT", off |-> 0, bytes |-> <<>>]

\* No ACK of the idle ticker is under way.
NoTick == [conn |-> None, off |-> 0]

\* An attach that holds no state: not begun, or returned.
NotServed(stage) ==
  [stage |-> stage, first |-> 0, peer |-> <<>>, from |-> 0, epoch |-> 0,
   streamer |-> "off", reader |-> "off"]

Init ==
  /\ total = 0 /\ trim = 0 /\ sealed = FALSE
  /\ exited = FALSE /\ exitDelivered = FALSE /\ listening = TRUE
  /\ activeConn = None /\ epoch = 0
  /\ attach = [c \in Conns |-> NotServed("none")]
  /\ link = [c \in Conns |-> [clientEnd |-> FALSE, daemonEnd |-> FALSE,
                              reset |-> FALSE, down |-> <<>>, up |-> <<>>]]
  /\ client = [phase |-> "idle", conn |-> 0, shown |-> <<>>, ackedThrough |-> 0,
               ticker |-> NoTick, reruns |-> 0]
  /\ cuts = 0 /\ starved = FALSE /\ gapped = FALSE

-----------------------------------------------------------------------------
(* The remote shell *)

\* pumpPTY appends what it reads.
PumpAppend ==
  /\ ~sealed
  /\ total < MaxTotal
  /\ total' = total + 1
  /\ UNCHANGED <<trim, sealed, shell, active, attach, link, client, history>>

\* pumpPTY reads EOF and seals the buffer.
PumpEOF ==
  /\ ~sealed
  /\ sealed' = TRUE
  /\ UNCHANGED <<total, trim, shell, active, attach, link, client, history>>

\* waitCmd: after the pump has ended.
WaitCmd ==
  /\ sealed /\ ~exited
  /\ exited' = TRUE
  /\ UNCHANGED <<window, exitDelivered, listening, active, attach, link, client,
                 history>>

-----------------------------------------------------------------------------
(* serveAttach: the handshake *)

\* The daemon can write to connection c.  A live one has room for Capacity
\* frames; one that broke swallows them until the break is noticed.
CanSend(c) ==
  /\ link[c].daemonEnd /\ ~link[c].reset
  /\ link[c].clientEnd => Len(link[c].down) < Capacity

SendFails(c) == ~link[c].daemonEnd \/ link[c].reset

\* The links after frame f went down connection c.
Sent(c, f) ==
  IF link[c].clientEnd THEN [link EXCEPT ![c].down = Append(@, f)] ELSE link

\* The daemon closes connection c: what it has not read is lost, what it has
\* written can still be read.
Closed(links, c) ==
  [links EXCEPT ![c].daemonEnd = FALSE, ![c].up = <<>>, ![c].reset = FALSE]

\* A frame is there to be read from connection c.
Receives(c, type) ==
  /\ link[c].daemonEnd
  /\ link[c].up # <<>>
  /\ Head(link[c].up).type = type

\* Reading fails: the daemon closed the socket, or the break was noticed and
\* what the client had sent is read.
ReadFails(c) == ~link[c].daemonEnd \/ (link[c].reset /\ link[c].up = <<>>)

\* HELLO is read, and the manifest's FirstIndex.
ReadHello(c) ==
  /\ attach[c].stage = "hello" /\ Receives(c, "HELLO")
  /\ attach' = [attach EXCEPT ![c].stage = "manifest",
                              ![c].peer = Head(link[c].up).bytes,
                              ![c].first = trim \div ChunkSize]
  /\ link' = [link EXCEPT ![c].up = Tail(@)]
  /\ UNCHANGED <<window, shell, active, client, history>>

\* The hashes of the complete chunks of a history known from chunk first on.
HashesOf(first, len) ==
  [i \in 1..((len \div ChunkSize) - first) |->
     Slice((first + i - 1) * ChunkSize, (first + i) * ChunkSize)]

\* The client never trims: its manifest starts with chunk 0.
PeerManifest(bytes) ==
  [firstIndex |-> 0,
   hashes |-> [i \in 1..(Len(bytes) \div ChunkSize) |->
                 SubSeq(bytes, (i - 1) * ChunkSize + 1, i * ChunkSize)]]

\* The manifest's hashes are read, in a second section under the buffer's
\* lock, and the two manifests are compared.
CompareManifests(c) ==
  LET own == [firstIndex |-> attach[c].first,
              hashes |-> HashesOf(trim \div ChunkSize, total)]
  IN /\ attach[c].stage = "manifest"
     /\ attach' = [attach EXCEPT
                     ![c].stage = "resend",
                     ![c].from = ResendFrom(own, PeerManifest(attach[c].peer)),
                     ![c].peer = <<>>]
     /\ UNCHANGED <<window, shell, active, link, client, history>>

\* Clamp to the buffer's trim point.
Resume(from) == Greater(from, trim)

\* The clamp, in a third section, and HELLO_ACK.
SendHelloAck(c) ==
  /\ attach[c].stage = "resend"
  /\ \/ /\ CanSend(c)
        /\ attach' = [attach EXCEPT ![c].stage = "acked",
                                    ![c].from = Resume(@), ![c].first = 0]
        /\ link' = Sent(c, HelloAck)
     \/ /\ SendFails(c)
        /\ attach' = [attach EXCEPT ![c] = NotServed("gone")]
        /\ link' = Closed(link, c)
  /\ UNCHANGED <<window, shell, active, client, history>>

\* The connection broke before HELLO arrived.
HelloFails(c) ==
  /\ attach[c].stage = "hello" /\ ReadFails(c)
  /\ attach' = [attach EXCEPT ![c] = NotServed("gone")]
  /\ link' = Closed(link, c)
  /\ UNCHANGED <<window, shell, active, client, history>>

\* The previous attach's socket is closed, whatever that attach is doing.
Kicked(c) ==
  IF activeConn = None THEN link ELSE Closed(link, activeConn)

Activate(c) ==
  /\ attach[c].stage = "acked"
  /\ link' = Kicked(c)
  /\ activeConn' = c
  /\ epoch' = epoch + 1
  /\ attach' = [attach EXCEPT ![c].stage = "live", ![c].epoch = epoch + 1,
                              ![c].streamer = "run", ![c].reader = "on"]
  /\ UNCHANGED <<window, shell, client, history>>

-----------------------------------------------------------------------------
(* streamLoop *)

\* streamCancel has been called, or the socket closed.
Cancelled(c) == attach[c].stage = "closing"

\* ReadAt and the write of what it returned.
StreamOutput(c) ==
  LET off == attach[c].from
      end == Lesser(off + MaxRead, total)
  IN /\ attach[c].streamer = "run"
     /\ trim <= off /\ off < total
     /\ CanSend(c)
     /\ link' = Sent(c, Output(off, Slice(off, end)))
     /\ attach' = [attach EXCEPT ![c].from = end]
     /\ UNCHANGED <<window, shell, active, client, history>>

\* The buffer is drained: wait for more.
StreamDrained(c) ==
  /\ attach[c].streamer = "run"
  /\ attach[c].from >= total
  /\ attach' = [attach EXCEPT ![c].streamer = "wait"]
  /\ UNCHANGED <<window, shell, active, link, client, history>>

\* Mutant of MoreToSend: WaitFor looks at sealed before it looks at total.
SealedFirst(c) == ~sealed /\ attach[c].from < total

MoreToSend(c) == attach[c].from < total

\* WaitFor returns: more to send, or sealed for good.
StreamWakes(c) ==
  /\ attach[c].streamer = "wait"
  /\ MoreToSend(c) \/ sealed
  /\ attach' = [attach EXCEPT ![c].streamer =
                  IF MoreToSend(c) THEN "run" ELSE "done"]
  /\ UNCHANGED <<window, shell, active, link, client, history>>

\* The streamer gives up: cancelled, the write failed, or the offset it is at
\* has been trimmed.
StreamEnds(c) ==
  /\ \/ /\ attach[c].streamer \in {"run", "wait"} /\ Cancelled(c)
        /\ UNCHANGED starved
     \/ /\ attach[c].streamer = "run"
        /\ trim <= attach[c].from /\ attach[c].from < total
        /\ SendFails(c)
        /\ UNCHANGED starved
     \/ /\ attach[c].streamer = "run"
        /\ attach[c].from < trim
        /\ starved' = TRUE
  /\ attach' = [attach EXCEPT ![c].streamer = "done"]
  /\ UNCHANGED <<window, shell, active, link, client, cuts, gapped>>

-----------------------------------------------------------------------------
(* readUpstream *)

\* Mutant of TrimmedTo: the last ACK wins.
LastAck(off) == Lesser(off, total)

\* Mutant of TrimmedTo: the acknowledged offset itself is trimmed.
TrimmedThrough(off) == Greater(trim, Lesser(off + 1, total))

\* TrimTo: an acknowledgement that comes late changes nothing.
TrimmedTo(off) == Greater(trim, Lesser(off, total))

ReadAck(c) ==
  /\ attach[c].reader = "on" /\ Receives(c, "ACK")
  /\ trim' = TrimmedTo(Head(link[c].up).off)
  /\ link' = [link EXCEPT ![c].up = Tail(@)]
  /\ UNCHANGED <<total, sealed, shell, active, attach, client, history>>

\* A reader that ends bumps the epoch only if its attach is still the active
\* one.
ReaderBumps(c) == activeConn = c

ReaderEnds(c) ==
  /\ attach[c].reader = "on" /\ ReadFails(c)
  /\ attach' = [attach EXCEPT ![c].reader = "done"]
  /\ epoch' = IF ReaderBumps(c) THEN epoch + 1 ELSE epoch
  /\ UNCHANGED <<window, shell, activeConn, link, client, history>>

-----------------------------------------------------------------------------
(* serveAttach: the wait, and the end *)

\* Mutant of IsSuperseded: only the pointer is compared, not the epoch.
IsReplaced(c) == activeConn # c

IsSuperseded(c) == epoch # attach[c].epoch

Superseded(c) ==
  /\ attach[c].stage = "live" /\ IsSuperseded(c)
  /\ attach' = [attach EXCEPT ![c].stage = "closing"]
  /\ link' = Closed(link, c)
  /\ UNCHANGED <<window, shell, active, client, history>>

\* The shell has exited: wait for the streamer.
Exiting(c) ==
  /\ attach[c].stage = "live" /\ ~IsSuperseded(c) /\ exited
  /\ attach' = [attach EXCEPT ![c].stage = "drain"]
  /\ UNCHANGED <<window, shell, active, link, client, history>>

\* Mutant of Drained: EXIT does not wait for the streamer.
NeverWaits(c) == TRUE

Drained(c) == attach[c].streamer = "done"

\* EXIT is written, and the socket closed behind it.
SendExit(c) ==
  /\ attach[c].stage = "drain" /\ Drained(c)
  /\ \/ /\ CanSend(c)
        /\ link' = Closed(Sent(c, Exit), c)
        /\ exitDelivered' = TRUE
     \/ /\ SendFails(c)
        /\ link' = Closed(link, c)
        /\ UNCHANGED exitDelivered
  /\ attach' = [attach EXCEPT ![c].stage = "closing"]
  /\ UNCHANGED <<window, exited, listening, active, client, history>>

\* Mutant of Released: the pointer is cleared whoever it points at.
AlwaysReleased(c) == None

Released(c) == IF activeConn = c THEN None ELSE activeConn

Cleanup(c) ==
  /\ attach[c].stage = "closing"
  /\ attach[c].streamer = "done" /\ attach[c].reader = "done"
  /\ activeConn' = Released(c)
  /\ attach' = [attach EXCEPT ![c] = NotServed("gone")]
  /\ UNCHANGED <<window, shell, epoch, link, client, history>>

\* acceptLoop's first goroutine.
CloseListener ==
  /\ listening /\ exited /\ exitDelivered /\ activeConn = None
  /\ listening' = FALSE
  /\ UNCHANGED <<window, exited, exitDelivered, active, attach, link, client,
                 history>>

-----------------------------------------------------------------------------
(* The connection and the client *)

\* The client's connection breaks: ssh exits, frames on their way down are
\* lost, those on their way up may still arrive.
Broken(c) == [link EXCEPT ![c].clientEnd = FALSE, ![c].down = <<>>]

\* The reconnect loop after a connection is gone: one that got as far as
\* HELLO_ACK is tried again, one that did not makes the client exit (137, or 1
\* before the first HELLO_ACK).  A connect that fails at once is tried again
\* too: it is a Connect not taken yet.
Retried == [client EXCEPT !.phase = IF @ = "live" THEN "idle" ELSE "failed"]

Cut ==
  /\ client.phase \in {"hello", "live"} /\ cuts < MaxCuts
  /\ link' = Broken(client.conn)
  /\ client' = Retried
  /\ cuts' = cuts + 1
  /\ UNCHANGED <<window, shell, active, attach, starved, gapped>>

\* The break is noticed at the daemon's end (attach's bridge exits); what the
\* client had sent is still there to be read, or lost.
Reset(c) ==
  /\ ~link[c].clientEnd /\ link[c].daemonEnd /\ ~link[c].reset
  /\ \E up \in {link[c].up, <<>>} :
       link' = [link EXCEPT ![c].reset = TRUE, ![c].up = up]
  /\ UNCHANGED <<window, shell, active, attach, client, history>>

\* runOnce up to the HELLO: also the next attempt of the reconnect loop.
Connect ==
  LET c == client.conn + 1
  IN /\ client.phase = "idle" /\ c \in Conns /\ listening
     /\ client' = [client EXCEPT !.phase = "hello", !.conn = c]
     /\ link' = [link EXCEPT ![c].clientEnd = TRUE, ![c].daemonEnd = TRUE,
                             ![c].up = <<Hello(client.shown)>>]
     /\ attach' = [attach EXCEPT ![c].stage = "hello"]
     /\ UNCHANGED <<window, shell, active, history>>

\* The daemon is gone: attach answers EXIT(136).
ConnectRefused ==
  /\ client.phase = "idle" /\ ~listening
  /\ client' = [client EXCEPT !.phase = "refused"]
  /\ UNCHANGED <<window, shell, active, attach, link, history>>

\* xssh --session with the id of the message of exit 137, or of xssh ls: a
\* client that has shown nothing.
Rerun ==
  /\ client.phase = "failed" /\ client.reruns < MaxReruns
  /\ client' = [client EXCEPT !.phase = "idle", !.shown = <<>>,
                              !.ackedThrough = 0, !.ticker = NoTick,
                              !.reruns = @ + 1]
  /\ UNCHANGED <<window, shell, active, attach, link, history>>

Incoming(type) ==
  /\ link[client.conn].down # <<>>
  /\ Head(link[client.conn].down).type = type

Taken == [link EXCEPT ![client.conn].down = Tail(@)]

RecvHelloAck ==
  /\ client.phase = "hello" /\ Incoming("HELLO_ACK")
  /\ client' = [client EXCEPT !.phase = "live",
                              !.ackedThrough = Len(client.shown)]
  /\ link' = Taken
  /\ UNCHANGED <<window, shell, active, attach, history>>

\* At least min bytes of what is shown are not acknowledged yet.
AckDue(shown, min) == Len(shown) - client.ackedThrough >= min

\* Mutant of Fresh: the frame is appended whole.
WholeFrame(f) == f.bytes

\* The links after an ACK of off was written to connection c: one for a
\* connection that is broken or that the daemon has closed is lost.
Acked(links, c, off) ==
  IF links[c].clientEnd /\ links[c].daemonEnd
  THEN [links EXCEPT ![c].up = Append(@, Ack(off))] ELSE links

\* The bytes of an OUTPUT frame that are new to the client.
Fresh(f) == SubSeq(f.bytes, Len(client.shown) - f.off + 1, Len(f.bytes))

\* handleOutputFrame: overlap is skipped, a gap is dropped, the rest is
\* written to the terminal, appended, and acknowledged when AckInterval
\* bytes have come in.
RecvOutput ==
  LET f     == Head(link[client.conn].down)
      held  == Len(client.shown)
      shown == client.shown \o Fresh(f)
  IN /\ client.phase = "live" /\ Incoming("OUTPUT")
     /\ IF f.off + Len(f.bytes) <= held \/ f.off > held
        THEN /\ link' = Taken
             /\ gapped' = (gapped \/ f.off > held)
             /\ UNCHANGED client
        ELSE /\ UNCHANGED gapped
             /\ IF AckDue(shown, AckInterval)
                THEN /\ client' = [client EXCEPT !.shown = shown,
                                                 !.ackedThrough = Len(shown)]
                     /\ link' = Acked(Taken, client.conn, Len(shown))
                ELSE /\ client' = [client EXCEPT !.shown = shown]
                     /\ link' = Taken
     /\ UNCHANGED <<window, shell, active, attach, cuts, starved>>

RecvExit ==
  /\ client.phase = "live" /\ Incoming("EXIT")
  /\ client' = [client EXCEPT !.phase = "exited"]
  /\ link' = Broken(client.conn)
  /\ UNCHANGED <<window, shell, active, attach, history>>

\* The daemon closed the socket and everything before that has been read.
RecvEOF ==
  /\ client.phase \in {"hello", "live"}
  /\ ~link[client.conn].daemonEnd /\ link[client.conn].down = <<>>
  /\ client' = Retried
  /\ link' = Broken(client.conn)
  /\ UNCHANGED <<window, shell, active, attach, history>>

\* watchAckIdle: the ticker fires and tryAck loads currentPC.
TickerLoads ==
  /\ client.phase = "live" /\ client.ticker = NoTick
  /\ client' = [client EXCEPT !.ticker.conn = client.conn]
  /\ UNCHANGED <<window, shell, active, attach, link, history>>

\* The check under ackMu.
TickerTakes ==
  /\ client.ticker.conn # None /\ client.ticker.off = 0
  /\ client' = IF AckDue(client.shown, 1)
               THEN [client EXCEPT !.ticker.off = Len(client.shown),
                                   !.ackedThrough = Len(client.shown)]
               ELSE [client EXCEPT !.ticker = NoTick]
  /\ UNCHANGED <<window, shell, active, attach, link, history>>

\* The write, to the connection loaded before: an ACK of handleOutputFrame may
\* have overtaken it.
TickerWrites ==
  /\ client.ticker.off > 0
  /\ client' = [client EXCEPT !.ticker = NoTick]
  /\ link' = Acked(link, client.ticker.conn, client.ticker.off)
  /\ UNCHANGED <<window, shell, active, attach, history>>

-----------------------------------------------------------------------------
Shell == PumpAppend \/ PumpEOF \/ WaitCmd

Serve(c) ==
  \/ ReadHello(c) \/ CompareManifests(c) \/ SendHelloAck(c) \/ HelloFails(c)
  \/ Activate(c) \/ Superseded(c) \/ Exiting(c) \/ SendExit(c) \/ Cleanup(c)

Streamer(c) ==
  StreamOutput(c) \/ StreamDrained(c) \/ StreamWakes(c) \/ StreamEnds(c)

Reader(c) == ReadAck(c) \/ ReaderEnds(c)

ClientReads == RecvHelloAck \/ RecvOutput \/ RecvExit \/ RecvEOF

Next ==
  \/ Shell
  \/ \E c \in Conns : Serve(c) \/ Streamer(c) \/ Reader(c) \/ Reset(c)
  \/ CloseListener
  \/ Connect \/ ConnectRefused \/ Rerun \/ ClientReads
  \/ TickerLoads \/ TickerTakes \/ TickerWrites
  \/ Cut

Spec == Init /\ [][Next]_vars

\* A socket whose far end is dead but has not been reset promises nothing: a
\* write may block, a read may never see EOF.
Hung(c) ==
  link[c].daemonEnd /\ ~link[c].clientEnd /\ ~link[c].reset

\* serveAttach is at a step that reads from or writes to the socket.
AtSocket(c) == attach[c].stage \in {"hello", "resend", "drain"}

\* What does not wait for the shell, the network or a timer.
Scheduled ==
  \/ WaitCmd \/ CloseListener
  \/ \E c \in Conns : \/ ~(Hung(c) /\ AtSocket(c)) /\ Serve(c)
                      \/ ~Hung(c) /\ (Streamer(c) \/ Reader(c))
  \/ Connect \/ ConnectRefused \/ ClientReads

\* Goroutines are scheduled, frames on a connection nobody cuts arrive, and
\* the reconnect loop retries.  The shell need not write or exit, the network
\* need not cut, and a frame sent before a cut need not arrive or be lost.
\* One condition for all of Scheduled is enough, and asks
\* less than one for each: only finitely many of its steps can follow each
\* other, so it comes down to "while some goroutine can run, one does".
FairSpec == Spec /\ WF_vars(Scheduled)

-----------------------------------------------------------------------------
(* Properties *)

Frame == [type : {"HELLO", "HELLO_ACK", "OUTPUT", "ACK", "EXIT"},
          off : Nat, bytes : Seq(Nat)]

TypeOK ==
  /\ total \in 0..MaxTotal /\ trim \in 0..MaxTotal /\ sealed \in BOOLEAN
  /\ {exited, exitDelivered, listening, starved, gapped} \subseteq BOOLEAN
  /\ activeConn \in Conns \cup {None} /\ epoch \in Nat /\ cuts \in 0..MaxCuts
  /\ attach \in [Conns -> [stage : Stages, first : Nat, peer : Seq(Nat),
                           from : Nat, epoch : Nat,
                           streamer : {"off", "run", "wait", "done"},
                           reader : {"off", "on", "done"}]]
  /\ link \in [Conns -> [clientEnd : BOOLEAN, daemonEnd : BOOLEAN, reset : BOOLEAN,
                         down : Seq(Frame), up : Seq(Frame)]]
  /\ client \in [phase : {"idle", "hello", "live", "exited", "refused", "failed"},
                 conn : Conns \cup {None}, shown : Seq(Nat),
                 ackedThrough : Nat,
                 ticker : [conn : Conns \cup {None}, off : Nat],
                 reruns : 0..MaxReruns]

\* Seen from outside, the attaches, connections and cuts are invisible: the
\* terminal shows the stream in order and each byte once, and the daemon
\* frees no byte the terminal has not shown, however late or on whichever
\* connection an ACK arrives.
Promise == INSTANCE Delivery WITH shown <- client.shown

ImplementsDelivery == Promise!DeliverySpec

\* No frame is ever ahead of the client: where the daemon resumes from is
\* computed in three separate sections under the buffer's lock while another
\* attach trims and the shell writes, yet the result never leaves a hole.
NoGap == ~gapped

\* The attach whose epoch is current is the one activeConn points at: the
\* end of an older attach, whenever it comes, does not take the pointer away
\* from a newer one, and activeConn never names an attach that has ended.
CurrentAttachIsActive ==
  /\ \A c \in Conns :
       attach[c].stage \in {"live", "drain"} /\ attach[c].epoch = epoch
         => activeConn = c
  /\ activeConn # None =>
       attach[activeConn].stage \in {"live", "drain", "closing"}

\* A client that receives EXIT has shown everything, unless a streamer had
\* given up on a trimmed offset.
ExitIsLast ==
  client.phase = "exited" => Len(client.shown) = total \/ starved

\* The same without the exception, as the code's comment has it: "Drain the
\* buffer, then send EXIT".
DrainedBeforeExit ==
  client.phase = "exited" => Len(client.shown) = total

\* Every byte the shell wrote is shown at last, or the client is told that the
\* session is gone or could not be reached, if the network stops cutting, no
\* streamer gave up on a trimmed offset, and the client was not started again
\* when bytes had been freed: no interleaving of handshakes, kicks and
\* reconnects leaves the client waiting on a connection nobody serves.
ShownOrTold ==
  \A k \in 1..MaxTotal :
    total >= k
      ~> (\/ Len(client.shown) >= k \/ starved
          \/ client.reruns > 0 /\ trim > 0
          \/ client.phase \in {"refused", "failed"})

\* The attach has lost its client or was replaced, and has not ended.
Outdated(c) ==
  attach[c].stage \in {"live", "closing"} /\ attach[c].epoch # epoch

\* Superseded attaches end: their goroutines and sockets do not outlive their
\* connection.  (Conns is finite, so none stays outdated if again and again
\* none is.)
SupersededEnds == []<>(\A c \in Conns : ~Outdated(c))

\* Started again with --session, the client shows what the daemon sends it:
\* the option "lets you reattach after fixing the underlying problem".
ReattachShows == client.reruns > 0 => ~gapped

=============================================================================
