------------------------------- MODULE Client -------------------------------
(***************************************************************************)
(* The client process around the output stream: run's loop, the ssh        *)
(* process of each attempt with its pipes, the goroutines runOnce starts   *)
(* and joins, the end of a session (EXIT, ~., a dead link), the probe after*)
(* a suspend, and what is typed on its way to the remote pty.              *)
(*                                                                         *)
(* ssh processes live in Slots, used again once nothing refers to them, so *)
(* that the loop may go round for ever.  link[n].down is what ssh has put  *)
(* into its stdout pipe, link[n].up what the daemon's end has still to     *)
(* read.  OUTPUT and ACK frames are in module Stream, the daemon's end of  *)
(* a session in Recovery; here the far end is what the client needs of it. *)
(***************************************************************************)
EXTENDS Naturals, Sequences, SequencesExt

CONSTANTS
  Slots,     \* ssh processes that can be told apart
  StdinCap,  \* capacity of the client's stdinCh (16)
  InputCap,  \* capacity of the daemon's stdinCh (64)
  MaxEvents  \* bound: keystrokes, suspends and links that die silently

NoSlot == "none"

ASSUME ClientAssumption ==
  /\ {StdinCap, InputCap} \subseteq Nat \ {0}
  /\ MaxEvents \in Nat /\ NoSlot \notin Slots

Keys == 1..MaxEvents
NoCode == 999
ShellCode == 0
Aborted == 130
OtherMajor == 132

VARIABLES
  run,       \* run and runOnce: where they stand, and what they know
  cancelled, \* the context of run is cancelled
  link,      \* per ssh process: the process, its pipes, its network link
  session,   \* the goroutines of runOnce's session, exitCh and sshDone
  probe,     \* watchForWake
  pongCh,    \* one Pong, or none
  stdin,     \* readStdinForever and stdinCh
  far,       \* the daemon's end
  exitRead   \* history: EXIT was read from ssh's stdout

vars == <<run, cancelled, link, session, probe, pongCh, stdin, far, exitRead>>

Ack == [type |-> "ack", arg |-> 0]
Pong == [type |-> "pong", arg |-> 0]
Exit(code) == [type |-> "exit", arg |-> code]
Key(k) == [type |-> "stdin", arg |-> k]
Ping == [type |-> "ping", arg |-> 0]
Shutdown == [type |-> "shutdown", arg |-> 0]

\* stderr: what ssh says when it gives up.
NoLink == [proc |-> "none", cut |-> FALSE, open |-> FALSE, stderr |-> "",
           down |-> <<>>, up |-> <<>>]

NoSession == [reader |-> "off", forwarder |-> "off", waiter |-> "off",
              exitCh |-> NoCode]

Init ==
  /\ run = [phase |-> "start", slot |-> NoSlot, haveHelloAcked |-> FALSE,
            result |-> NoCode, code |-> NoCode]
  /\ cancelled = FALSE
  /\ link = [n \in Slots |-> NoLink]
  /\ session = NoSession
  /\ probe = [phase |-> "idle", pc |-> NoSlot, wakes |-> 0,
              answered |-> FALSE]
  /\ pongCh = FALSE
  /\ stdin = [active |-> FALSE, typed |-> 0, tty |-> <<>>, ch |-> <<>>,
              abort |-> "no"]
  /\ far = [conn |-> [n \in Slots |-> "none"], state |-> "none",
            input |-> <<>>, pty |-> <<>>, cuts |-> 0]
  /\ exitRead = FALSE

-----------------------------------------------------------------------------
(* Links and processes *)

\* A process that runs and whose link is up.
Reaches(n) == link[n].proc = "up" /\ ~link[n].cut

Piped(n, frames) ==
  [link EXCEPT ![n].down = IF Reaches(n) THEN @ \o frames ELSE @]

\* The client's end writes: what is written to a cut link goes nowhere.
Written(n, frame) ==
  [link EXCEPT ![n].up = IF Reaches(n) THEN Append(@, frame) ELSE @]

Dead(n) == [link EXCEPT ![n].proc = "dead"]

Running == run.phase # "done"

\* Somebody types, closes the lid, or the network fails.
MayHappen == stdin.typed + probe.wakes + far.cuts < MaxEvents

\* currentSSH and currentPC.
CurrentSSH ==
  IF run.phase \in {"dial", "live", "shutdown", "joining"}
  THEN run.slot ELSE NoSlot
CurrentPC ==
  IF run.phase \in {"live", "shutdown", "joining"}
  THEN run.slot ELSE NoSlot

\* The network dies without a word.
Cut(n) ==
  /\ Running /\ Reaches(n) /\ MayHappen
  /\ link' = [link EXCEPT ![n].cut = TRUE]
  /\ far' = [far EXCEPT !.cuts = @ + 1,
                        !.conn[n] = IF @ = "hello" THEN "closed" ELSE @]
  /\ UNCHANGED <<run, cancelled, session, probe, pongCh, stdin, exitRead>>

\* ssh notices (ServerAliveInterval, TCP), or is told that the command ended:
\* by then all its output is in the pipe.
SshExits(n) ==
  /\ link[n].proc = "up" /\ (link[n].cut \/ far.conn[n] = "closed")
  /\ link' = Dead(n)
  /\ UNCHANGED <<run, cancelled, session, probe, pongCh, stdin, far, exitRead>>

\* ssh does not get through and says why.
Refused(n, why) ==
  /\ Reaches(n) /\ far.conn[n] = "hello"
  /\ link' = [Dead(n) EXCEPT ![n].stderr = why]
  /\ far' = [far EXCEPT !.conn[n] = "closed"]
  /\ UNCHANGED <<run, cancelled, session, probe, pongCh, stdin, exitRead>>

-----------------------------------------------------------------------------
(* The far end *)

\* HELLO is answered, by the daemon if there is one.
Accept(n) ==
  /\ Reaches(n) /\ far.conn[n] = "hello"
  /\ far.state \in {"none", "alive", "exiting"}
  /\ link' = Piped(n, <<Ack>>)
  /\ far' = [far EXCEPT !.conn[n] = "acked",
                        !.state = IF @ = "none" THEN "alive" ELSE @]
  /\ UNCHANGED <<run, cancelled, session, probe, pongCh, stdin, exitRead>>

\* A replay daemon serves what was preserved; attach refuses with 136 when
\* there is nothing, or with 135 to make a session while the disk cap is hit.
AnswerOnly(n, frames) ==
  /\ Reaches(n) /\ far.conn[n] = "hello"
  /\ link' = Piped(n, frames)
  /\ far' = [far EXCEPT !.conn[n] = "closed",
                        !.state = IF @ = "kept" THEN "gone" ELSE @]
  /\ UNCHANGED <<run, cancelled, session, probe, pongCh, stdin, exitRead>>

Replay(n) == far.state = "kept" /\ AnswerOnly(n, <<Ack, Exit(133)>>)
NothingThere(n) == far.state = "gone" /\ AnswerOnly(n, <<Exit(136)>>)
CapRefuses(n) == far.state = "none" /\ AnswerOnly(n, <<Exit(135)>>)

\* serveAttach makes a connection the active one and closes the one before.
Activate(n) ==
  /\ far.conn[n] = "acked"
  /\ far' = [far EXCEPT !.conn = [m \in Slots |->
               IF m = n THEN "active"
               ELSE IF @[m] = "active" THEN "closed" ELSE @[m]]]
  /\ UNCHANGED <<run, cancelled, link, session, probe, pongCh, stdin, exitRead>>

\* Mutant of Dispatched: a goroutine for each frame hands it over.
DispatchedAside(item) ==
  {Append(far.input, item), <<item>> \o far.input}

\* Mutant of Dispatched: readUpstream waits for room in the channel.
DispatchedInOrder(item) ==
  IF Len(far.input) < InputCap THEN {Append(far.input, item)} ELSE {}

\* What may become of the daemon's stdinCh: it takes a keystroke, or the
\* keystroke is dropped.
Dispatched(item) ==
  {IF Len(far.input) < InputCap THEN Append(far.input, item) ELSE far.input}

\* readUpstream reads a frame.  What has arrived is read even if the link was
\* cut since.
FarReads(n) ==
  LET f == Head(link[n].up)
      rest == [link EXCEPT ![n].up = Tail(@)]
  IN /\ far.conn[n] = "active" /\ link[n].up # <<>>
     /\ \/ /\ f.type = "stdin"
           /\ \E q \in Dispatched([key |-> f.arg, slot |-> n]) :
                far' = [far EXCEPT !.input = q]
           /\ link' = rest
        \/ /\ f.type = "ping"
           /\ link' = [rest EXCEPT ![n].down =
                         IF Reaches(n) THEN Append(@, Pong) ELSE @]
           /\ UNCHANGED far
        \/ /\ f.type = "shutdown"
           /\ link' = rest
           /\ far' = [far EXCEPT !.state = "gone", !.conn = [m \in Slots |->
                        IF @[m] \in {"acked", "active"} THEN "closed" ELSE @[m]]]
     /\ UNCHANGED <<run, cancelled, session, probe, pongCh, stdin, exitRead>>

\* The writer goroutine hands a keystroke to the pty, if the shell reads.
PtyWrite ==
  /\ far.input # <<>> /\ far.state \in {"alive", "exiting"}
  /\ far' = [far EXCEPT !.input = Tail(@), !.pty = Append(@, Head(far.input))]
  /\ UNCHANGED <<run, cancelled, link, session, probe, pongCh, stdin, exitRead>>

\* The reader of a connection sees that ssh is gone.
FarNotices(n) ==
  /\ far.conn[n] \in {"hello", "acked", "active"}
  /\ link[n].proc = "dead" /\ ~link[n].cut
  /\ far.conn[n] = "active" => link[n].up = <<>>
  /\ far' = [far EXCEPT !.conn[n] = "closed"]
  /\ UNCHANGED <<run, cancelled, link, session, probe, pongCh, stdin, exitRead>>

ShellExits ==
  /\ Running /\ far.state = "alive"
  /\ far' = [far EXCEPT !.state = "exiting"]
  /\ UNCHANGED <<run, cancelled, link, session, probe, pongCh, stdin, exitRead>>

\* EXIT to the attached client, and the session is removed; or nobody is
\* attached and it is preserved.
SendExit(n) ==
  /\ far.state = "exiting" /\ far.conn[n] = "active"
  /\ link' = Piped(n, <<Exit(ShellCode)>>)
  /\ far' = [far EXCEPT !.state = "gone", !.conn[n] = "closed"]
  /\ UNCHANGED <<run, cancelled, session, probe, pongCh, stdin, exitRead>>

Preserve ==
  /\ far.state = "exiting"
  /\ \A n \in Slots : far.conn[n] \notin {"acked", "active"}
  /\ far' = [far EXCEPT !.state = "kept"]
  /\ UNCHANGED <<run, cancelled, link, session, probe, pongCh, stdin, exitRead>>

-----------------------------------------------------------------------------
(* run and runOnce *)

\* A slot nothing refers to any more.  (Which of them is used makes no
\* difference.)
Free(n) ==
  /\ link[n].proc # "up" /\ far.conn[n] \in {"none", "closed"}
  /\ probe.phase = "idle" \/ probe.pc # n

\* Nobody reads any more what a slot that is not current has left in its pipes.
Retired(n) ==
  IF n = run.slot THEN [link[n] EXCEPT !.down = <<>>, !.stderr = ""]
  ELSE link[n]

\* The head of run's loop, and of runOnce: ssh is started, HELLO written.
Start ==
  /\ run.phase = "start"
  /\ \/ /\ cancelled
        /\ run' = [run EXCEPT !.phase = "done", !.code = Aborted]
        /\ UNCHANGED <<link, far>>
     \/ /\ ~cancelled
        /\ \E n \in Slots :
             /\ Free(n) /\ n = CHOOSE m \in Slots : Free(m)
             /\ run' = [run EXCEPT !.phase = "dial", !.slot = n]
             /\ link' = [m \in Slots |->
                           IF m = n THEN [NoLink EXCEPT !.proc = "up", !.open = TRUE]
                           ELSE IF Free(m) THEN NoLink ELSE Retired(m)]
             /\ far' = [far EXCEPT !.conn = [m \in Slots |->
                           IF m = n THEN "hello"
                           ELSE IF Free(m) THEN "none" ELSE @[m]]]
  /\ UNCHANGED <<cancelled, session, probe, pongCh, stdin, exitRead>>

\* Mutant of HaveHelloAcked: a snapshot from before the attempt.
HadHelloAcked(acked) == run.haveHelloAcked

HaveHelloAcked(acked) == run.haveHelloAcked \/ acked

\* What run makes of an attempt.  A remote without xssh can be helped by
\* installing it there.
Returns(acked, result) ==
  LET why  == link[run.slot].stderr
      have == HaveHelloAcked(acked)
      bail == ~have \/ (~acked /\ why # "transient")
      Then(phase, code) ==
        run' = [run EXCEPT !.phase = phase, !.code = code, !.result = NoCode,
                           !.haveHelloAcked = run.haveHelloAcked \/ acked]
  IN \/ result # NoCode /\ Then("done", result)
     \/ /\ result = NoCode
        /\ \/ cancelled /\ Then("done", Aborted)
           \/ ~cancelled /\ bail /\ why = "missing" /\ Then("start", NoCode)
           \/ ~cancelled /\ bail /\ Then("done", IF have THEN 137 ELSE 1)
           \/ ~cancelled /\ ~bail /\ Then("start", NoCode)

\* The attempt ends before a session: EXIT instead of HELLO_ACK, a HELLO_ACK
\* of another protocol version, or nothing.
DialEnds ==
  LET n == run.slot IN
  /\ run.phase = "dial"
  /\ \/ /\ link[n].down # <<>> /\ Head(link[n].down).type = "exit"
        /\ Returns(FALSE, Head(link[n].down).arg)
        /\ exitRead' = TRUE
     \/ /\ link[n].down # <<>> /\ Head(link[n].down) = Ack
        /\ Returns(FALSE, OtherMajor)
        /\ UNCHANGED exitRead
     \/ /\ link[n].down = <<>> /\ link[n].proc = "dead"
        /\ Returns(FALSE, NoCode)
        /\ UNCHANGED exitRead
  /\ link' = [Dead(n) EXCEPT ![n].open = FALSE]
  /\ UNCHANGED <<cancelled, session, probe, pongCh, stdin, far>>

\* HELLO_ACK: the first one activates the terminal; the session's goroutines
\* are started.
RecvHelloAck ==
  LET n == run.slot IN
  /\ run.phase = "dial" /\ link[n].down # <<>> /\ Head(link[n].down) = Ack
  /\ run' = [run EXCEPT !.phase = "live"]
  /\ link' = [link EXCEPT ![n].down = Tail(@)]
  /\ session' = [NoSession EXCEPT !.reader = "on", !.forwarder = "on",
                                  !.waiter = "on"]
  /\ stdin' = [stdin EXCEPT !.active = TRUE]
  /\ UNCHANGED <<cancelled, probe, pongCh, far, exitRead>>

\* The select of runOnce has fired: sessCancel, killSSH.
Stops(result) ==
  /\ run' = [run EXCEPT !.phase = "joining", !.result = result]
  /\ link' = Dead(run.slot)

SelectExit ==
  /\ run.phase = "live" /\ session.exitCh # NoCode
  /\ Stops(session.exitCh)
  /\ session' = [session EXCEPT !.exitCh = NoCode]
  /\ UNCHANGED <<cancelled, probe, pongCh, stdin, far, exitRead>>

SelectDone ==
  /\ run.phase = "live" /\ session.waiter = "done"
  /\ Stops(NoCode)
  /\ UNCHANGED <<cancelled, session, probe, pongCh, stdin, far, exitRead>>

\* Mutant of AbortSeen: only run's loop looks at the context.
AbortSeenByRun == cancelled /\ run.phase = "start"

AbortSeen == cancelled

\* SHUTDOWN is written, or its 500 ms pass.
SelectAbort ==
  /\ run.phase = "live" /\ AbortSeen
  /\ run' = [run EXCEPT !.phase = "shutdown"]
  /\ link' \in {link, Written(run.slot, Shutdown)}
  /\ UNCHANGED <<cancelled, session, probe, pongCh, stdin, far, exitRead>>

\* ssh has ended by itself, or its 2 s are over.
ShutdownEnds ==
  /\ run.phase = "shutdown"
  /\ Stops(NoCode)
  /\ UNCHANGED <<cancelled, session, probe, pongCh, stdin, far, exitRead>>

\* Mutant of LateExit: exitCh is not looked at again.
NoLateExit == run.result

\* An EXIT read after the select fired counts.
LateExit == IF run.result = NoCode THEN session.exitCh ELSE run.result

\* wg.Wait for the two goroutines (not for the one in sshCmd.Wait), and
\* runOnce returns.
Join ==
  /\ run.phase = "joining"
  /\ session.reader = "off" /\ session.forwarder = "off"
  /\ Returns(TRUE, LateExit)
  /\ session' = NoSession
  /\ UNCHANGED <<cancelled, link, probe, pongCh, stdin, far, exitRead>>

-----------------------------------------------------------------------------
(* The session's goroutines *)

\* readFrames.
ReaderReads ==
  LET n == run.slot
      f == Head(link[n].down)
  IN /\ session.reader = "on" /\ link[n].open /\ link[n].down # <<>>
     /\ link' = [link EXCEPT ![n].down = Tail(@)]
     /\ \/ /\ f.type = "pong"
           /\ pongCh' = TRUE
           /\ probe' = [probe EXCEPT !.answered =
                          @ \/ (probe.phase = "waiting" /\ probe.pc = n)]
           /\ UNCHANGED <<session, exitRead>>
        \/ /\ f.type = "exit"
           /\ session' = [session EXCEPT !.exitCh = f.arg, !.reader = "off"]
           /\ exitRead' = TRUE
           /\ UNCHANGED <<pongCh, probe>>
     /\ UNCHANGED <<run, cancelled, stdin, far>>

\* The end of ssh's output, or of the pipe.
ReaderEnds ==
  LET n == run.slot IN
  /\ session.reader = "on"
  /\ ~link[n].open \/ (link[n].proc = "dead" /\ link[n].down = <<>>)
  /\ session' = [session EXCEPT !.reader = "off"]
  /\ UNCHANGED <<run, cancelled, link, probe, pongCh, stdin, far, exitRead>>

\* sshCmd.Wait returns when the process is gone, and closes the pipes: what
\* readFrames has not read by then is lost.
WaitReturns ==
  /\ session.waiter = "on" /\ link[run.slot].proc = "dead"
  /\ session' = [session EXCEPT !.waiter = "done"]
  /\ link' = [link EXCEPT ![run.slot].open = FALSE]
  /\ UNCHANGED <<run, cancelled, probe, pongCh, stdin, far, exitRead>>

\* sessCtx.
SessionOver == session.reader = "off" \/ run.phase = "joining" \/ cancelled

\* forwardStdin: its select may take a keystroke after the session is over, and
\* a failed write drops what it took.
Forwards ==
  LET n == run.slot IN
  /\ session.forwarder = "on" /\ stdin.ch # <<>>
  /\ stdin' = [stdin EXCEPT !.ch = Tail(@)]
  /\ IF link[n].proc = "up"
     THEN /\ link' = Written(n, Key(Head(stdin.ch)))
          /\ UNCHANGED session
     ELSE /\ session' = [session EXCEPT !.forwarder = "off"]
          /\ UNCHANGED link
  /\ UNCHANGED <<run, cancelled, probe, pongCh, far, exitRead>>

ForwardEnds ==
  /\ session.forwarder = "on" /\ SessionOver
  /\ session' = [session EXCEPT !.forwarder = "off"]
  /\ UNCHANGED <<run, cancelled, link, probe, pongCh, stdin, far, exitRead>>

-----------------------------------------------------------------------------
(* The terminal's input: keystrokes, and the escape ~. *)

Escape == MaxEvents + 1

TypeKey ==
  /\ Running /\ stdin.active /\ MayHappen
  /\ stdin' = [stdin EXCEPT !.typed = @ + 1, !.tty = Append(@, stdin.typed + 1)]
  /\ UNCHANGED <<run, cancelled, link, session, probe, pongCh, far, exitRead>>

TypeEscape ==
  /\ Running /\ stdin.active /\ stdin.abort = "no"
  /\ stdin' = [stdin EXCEPT !.abort = "typed", !.tty = Append(@, Escape)]
  /\ UNCHANGED <<run, cancelled, link, session, probe, pongCh, far, exitRead>>

\* Mutant of Listening: only while a session is live.
ListeningLive == CurrentPC # NoSlot

\* readStdinForever runs from the first HELLO_ACK on.
Listening == stdin.active

\* A read goes to stdinCh; a full channel blocks the reader, and what is typed
\* stays unread.
StdinReads ==
  /\ Running /\ Listening /\ ~cancelled /\ stdin.tty # <<>>
  /\ \/ /\ Head(stdin.tty) \in Keys /\ Len(stdin.ch) < StdinCap
        /\ stdin' = [stdin EXCEPT !.tty = Tail(@),
                                  !.ch = Append(@, Head(stdin.tty))]
        /\ UNCHANGED cancelled
     \/ /\ Head(stdin.tty) = Escape
        /\ stdin' = [stdin EXCEPT !.tty = Tail(@), !.abort = "heard"]
        /\ cancelled' = TRUE
  /\ UNCHANGED <<run, link, session, probe, pongCh, far, exitRead>>

-----------------------------------------------------------------------------
(* watchForWake *)

\* Mutant of Drained: a Pong that came late stays in the channel.
NotDrained == pongCh

Drained == FALSE

\* Awake again: the current connection is taken, a stale Pong thrown away.
ProbeStarts ==
  /\ Running /\ stdin.active /\ ~cancelled
  /\ probe.phase = "idle" /\ MayHappen /\ CurrentPC # NoSlot
  /\ probe' = [phase |-> "pinging", pc |-> CurrentPC, wakes |-> probe.wakes + 1,
               answered |-> FALSE]
  /\ pongCh' = Drained
  /\ UNCHANGED <<run, cancelled, link, session, stdin, far, exitRead>>

\* forceReconnect kills the ssh process that is current now.
ForceReconnect ==
  /\ probe' = [probe EXCEPT !.phase = "idle", !.pc = NoSlot]
  /\ link' = IF CurrentSSH # NoSlot /\ link[CurrentSSH].proc = "up"
             THEN Dead(CurrentSSH)
             ELSE link

ProbePings ==
  /\ Running /\ probe.phase = "pinging"
  /\ IF link[probe.pc].proc = "up"
     THEN /\ link' = Written(probe.pc, Ping)
          /\ probe' = [probe EXCEPT !.phase = "waiting"]
     ELSE ForceReconnect
  /\ UNCHANGED <<run, cancelled, session, pongCh, stdin, far, exitRead>>

ProbePong ==
  /\ Running /\ probe.phase = "waiting" /\ pongCh
  /\ probe' = [probe EXCEPT !.phase = "idle", !.pc = NoSlot]
  /\ pongCh' = FALSE
  /\ UNCHANGED <<run, cancelled, link, session, stdin, far, exitRead>>

\* 10 s without a Pong.
ProbeTimesOut ==
  /\ Running /\ probe.phase = "waiting"
  /\ ForceReconnect
  /\ UNCHANGED <<run, cancelled, session, pongCh, stdin, far, exitRead>>

-----------------------------------------------------------------------------
Run ==
  \/ Start \/ DialEnds \/ RecvHelloAck
  \/ SelectExit \/ SelectDone \/ SelectAbort \/ ShutdownEnds \/ Join

Reader == ReaderReads \/ ReaderEnds
Forwarder == Forwards \/ ForwardEnds

\* The end of an attempt to connect, or of a connection.
Answered(n) ==
  \/ Accept(n) \/ Replay(n) \/ NothingThere(n) \/ CapRefuses(n)
  \/ \E why \in {"transient", "missing", "other"} : Refused(n, why)

Served(n) == Activate(n) \/ FarReads(n) \/ FarNotices(n)

Next ==
  \/ Run \/ Reader \/ WaitReturns \/ Forwarder
  \/ StdinReads \/ TypeKey \/ TypeEscape
  \/ ProbeStarts \/ ProbePings \/ ProbePong \/ ProbeTimesOut
  \/ \E n \in Slots : Cut(n) \/ SshExits(n) \/ Answered(n) \/ Served(n)
                        \/ SendExit(n)
  \/ PtyWrite \/ ShellExits \/ Preserve

Spec == Init /\ [][Next]_vars

\* Goroutines and processes are scheduled.  An attempt to connect ends one way
\* or the other, and a dead link is noticed: that is up to ssh (TCP timeouts,
\* ServerAliveInterval), as the README leaves it.  Nobody need type, cut a
\* link, wake up, end the shell or read the pty.
FairSpec ==
  /\ Spec
  /\ WF_vars(Run) /\ WF_vars(Reader \/ WaitReturns \/ Forwarder)
  /\ WF_vars(StdinReads)
  /\ \A n \in Slots : WF_vars(SshExits(n) \/ Answered(n) \/ Served(n))

-----------------------------------------------------------------------------
(* Properties *)

Codes == {ShellCode, 1, Aborted, OtherMajor, 133, 135, 136, 137}

TypeOK ==
  /\ run \in [phase : {"start", "dial", "live", "shutdown", "joining", "done"},
              slot : Slots \cup {NoSlot}, haveHelloAcked : BOOLEAN,
              result : Codes \cup {NoCode}, code : Codes \cup {NoCode}]
  /\ {cancelled, pongCh, exitRead} \subseteq BOOLEAN
  /\ \A n \in Slots :
       /\ link[n].proc \in {"none", "up", "dead"}
       /\ \A i \in DOMAIN link[n].down :
            link[n].down[i].type \in {"ack", "pong", "exit"}
       /\ \A i \in DOMAIN link[n].up :
            link[n].up[i].type \in {"stdin", "ping", "shutdown"}
       /\ far.conn[n] \in {"none", "hello", "acked", "active", "closed"}
  /\ session \in [reader : {"off", "on"}, forwarder : {"off", "on"},
                  waiter : {"off", "on", "done"}, exitCh : Codes \cup {NoCode}]
  /\ probe.phase \in {"idle", "pinging", "waiting"}
  /\ Len(stdin.ch) <= StdinCap /\ Len(far.input) <= InputCap
  /\ far.state \in {"none", "alive", "exiting", "kept", "gone"}

\* An EXIT that readFrames has read is the end, also when the select of runOnce
\* had already fired on sshDone or the abort: run never goes round again.
ExitNotRetried == exitRead => run.phase # "start"

\* "Initial connection failed" (1) is never said of a client that had a
\* session, nor "reconnect failed" (137) of one that had none.
GivesUpHonestly ==
  /\ run.code = 1 => ~stdin.active
  /\ run.code = 137 => stdin.active

\* What run makes of an attempt is right in both respects, whatever order ssh's
\* end, EXIT, the abort and the probe come in.
RunDecidesRightly == ExitNotRetried /\ GivesUpHonestly

\* A Pong the waiting probe would take came over the connection it probes,
\* after its Ping: never from a probe that was given up before.
PongIsFresh == probe.phase = "waiting" /\ pongCh => probe.answered

\* Keystrokes are not replayed: what was typed once is read once by the shell,
\* and what went over one connection comes in order.
KeysOnceInOrder ==
  \A i, j \in DOMAIN far.pty : i < j =>
    /\ far.pty[i].key # far.pty[j].key
    /\ far.pty[i].slot = far.pty[j].slot => far.pty[i].key < far.pty[j].key

\* `~.` is heard in every state of the connection, the network being down for
\* ever included, unless stdinCh is full while no session drains it.
EscapeHeard ==
  (stdin.abort = "typed" /\ stdin.active)
    ~> \/ cancelled \/ run.phase = "done"
       \/ Len(stdin.ch) = StdinCap

\* Once heard it ends the client, whatever the connection is doing.
AbortEnds == cancelled ~> run.phase = "done"

\* A SHUTDOWN that arrived is acted on, whether or not the shell reads what was
\* typed in front of it.
Unheard ==
  \E n \in Slots : far.conn[n] = "active" /\ Contains(link[n].up, Shutdown)
ShutdownHeard == Unheard ~> ~Unheard

=============================================================================
