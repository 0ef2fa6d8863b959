---------------------------- MODULE ClientProofs ----------------------------
(***************************************************************************)
(* The client for any number of ssh processes, keystrokes, suspends and    *)
(* dead links, and for channels of any capacity.                           *)
(***************************************************************************)
EXTENDS Client, TLAPS

DownFrames == [type : {"ack", "pong", "exit"}, arg : {0, 133, 135, 136}]
UpFrames == [type : {"stdin", "ping", "shutdown"}, arg : Nat]

Links == [proc : {"none", "up", "dead"}, cut : BOOLEAN, open : BOOLEAN,
          stderr : {"", "transient", "missing", "other"},
          down : Seq(DownFrames), up : Seq(UpFrames)]

Runs == [phase : {"start", "dial", "live", "shutdown", "joining", "done"},
         slot : Slots \cup {NoSlot}, haveHelloAcked : BOOLEAN,
         result : {0, 132, 133, 135, 136, NoCode}, code : Codes \cup {NoCode}]

Sessions == [reader : {"off", "on"}, forwarder : {"off", "on"},
             waiter : {"off", "on", "done"}, exitCh : {0, 133, 135, 136, NoCode}]

Probes == [phase : {"idle", "pinging", "waiting"}, pc : Slots \cup {NoSlot},
           wakes : Nat, answered : BOOLEAN]

Stdins == [active : BOOLEAN, typed : 0..MaxEvents, tty : Seq(Nat), ch : Seq(Nat),
           abort : {"no", "typed", "heard"}]

Conns == {"none", "hello", "acked", "active", "closed"}
States == {"none", "alive", "exiting", "kept", "gone"}
Items == [key : Nat, slot : Slots]
Fars == [conn : [Slots -> Conns], state : States,
         input : Seq(Items), pty : Seq(Items), cuts : Nat]

\* runOnce is past HELLO_ACK.
InSession == run.phase \in {"live", "shutdown", "joining"}

\* Types, and who may run when.
BaseInv ==
  /\ run \in Runs /\ cancelled \in BOOLEAN /\ pongCh \in BOOLEAN /\ exitRead \in BOOLEAN
  /\ link \in [Slots -> Links] /\ session \in Sessions /\ probe \in Probes
  /\ stdin \in Stdins /\ far \in Fars
  /\ Len(stdin.ch) <= StdinCap /\ Len(far.input) <= InputCap
  /\ InSession \/ run.phase = "dial" => run.slot \in Slots
  /\ session.reader = "on" \/ session.forwarder = "on" \/ session.waiter # "off"
       => InSession
  /\ probe.phase # "idle" => probe.pc \in Slots

-----------------------------------------------------------------------------
(* Queues *)

\* There is a frame of a type in a queue; there are two.
Has(q, t) == \E i \in 1..Len(q) : q[i].type = t
Twice(q, t) == \E i, j \in 1..Len(q) : i < j /\ q[i].type = t /\ q[j].type = t

\* The constants are numbers.
LEMMA Numbers ==
  StdinCap \in Nat \ {0} /\ InputCap \in Nat \ {0} /\ MaxEvents \in Nat
BY ClientAssumption DEF ClientAssumption

\* An empty queue holds nothing.
LEMMA EmptyHolds ==
  ASSUME NEW t
  PROVE  ~Has(<<>>, t) /\ ~Twice(<<>>, t)
BY DEF Has, Twice

\* What a queue holds after a frame was added.
LEMMA AppendHolds ==
  ASSUME NEW S, NEW q \in Seq(S), NEW f \in S, NEW t
  PROVE  /\ Append(q, f) \in Seq(S)
         /\ Has(Append(q, f), t) => Has(q, t) \/ f.type = t
         /\ Twice(Append(q, f), t) => Twice(q, t) \/ (Has(q, t) /\ f.type = t)
<1>1. /\ Append(q, f) \in Seq(S) /\ Len(Append(q, f)) = Len(q) + 1 /\ Len(q) \in Nat
      /\ \A i \in 1..Len(q) : Append(q, f)[i] = q[i]
      /\ Append(q, f)[Len(q) + 1] = f
  OBVIOUS
<1> DEFINE p == Append(q, f)
<1> HIDE DEF p
<1>2. Has(p, t) => Has(q, t) \/ f.type = t
  BY <1>1 DEF Has, p
<1>3. ASSUME Twice(p, t) PROVE Twice(q, t) \/ (Has(q, t) /\ f.type = t)
  <2>1. PICK i, j \in 1..Len(p) : i < j /\ p[i].type = t /\ p[j].type = t
    BY <1>3 DEF Twice
  <2>2. i \in 1..Len(q) /\ p[i] = q[i]
    BY <1>1, <2>1 DEF p
  <2>3. CASE j \in 1..Len(q)
    BY <1>1, <2>1, <2>2, <2>3 DEF Twice, p
  <2>4. CASE j = Len(q) + 1
    BY <1>1, <2>1, <2>2, <2>4 DEF Has, p
  <2> QED BY <1>1, <2>1, <2>3, <2>4 DEF p
<1> QED BY <1>1, <1>2, <1>3 DEF p

\* What it holds after the first frame was taken.
LEMMA TailHolds ==
  ASSUME NEW S, NEW q \in Seq(S), q # <<>>, NEW t
  PROVE  /\ Head(q) \in S /\ Tail(q) \in Seq(S)
         /\ Has(Tail(q), t) => Has(q, t)
         /\ Twice(Tail(q), t) => Twice(q, t)
         /\ Head(q).type = t => Has(q, t) /\ (Has(Tail(q), t) => Twice(q, t))
<1>1. /\ Head(q) \in S /\ Head(q) = q[1] /\ 1 \in 1..Len(q) /\ Len(q) \in Nat
      /\ Tail(q) \in Seq(S) /\ Len(Tail(q)) = Len(q) - 1
      /\ \A i \in 1..Len(Tail(q)) : Tail(q)[i] = q[i + 1]
  OBVIOUS
<1> DEFINE p == Tail(q)
<1> HIDE DEF p
<1>2. \A i \in 1..Len(p) : i + 1 \in 1..Len(q) /\ p[i] = q[i + 1]
  BY <1>1 DEF p
<1>3. Has(p, t) => Has(q, t)
  BY <1>2 DEF Has
<1>4. ASSUME Twice(p, t) PROVE Twice(q, t)
  <2>1. PICK i, j \in 1..Len(p) : i < j /\ p[i].type = t /\ p[j].type = t
    BY <1>4 DEF Twice
  <2>2. i + 1 < j + 1 /\ q[i + 1].type = t /\ q[j + 1].type = t
    BY <1>2, <2>1
  <2> QED BY <1>2, <2>1, <2>2 DEF Twice
<1>5. ASSUME Head(q).type = t, Has(p, t) PROVE Twice(q, t)
  <2>1. PICK i \in 1..Len(p) : p[i].type = t
    BY <1>5 DEF Has
  <2>2. 1 < i + 1 /\ q[1].type = t /\ q[i + 1].type = t
    BY <1>1, <1>2, <1>5, <2>1
  <2> QED BY <1>1, <1>2, <2>1, <2>2 DEF Twice
<1>6. Head(q).type = t => Has(q, t)
  BY <1>1 DEF Has
<1> QED BY <1>1, <1>3, <1>4, <1>5, <1>6 DEF p

\* What it holds after frames of other types were added.
LEMMA OthersHold ==
  ASSUME NEW S, NEW q \in Seq(S), NEW p \in Seq(S), NEW t,
         \A i \in 1..Len(p) : p[i].type # t
  PROVE  /\ q \o p \in Seq(S)
         /\ Has(q \o p, t) => Has(q, t)
         /\ Twice(q \o p, t) => Twice(q, t)
<1>1. /\ q \o p \in Seq(S) /\ Len(q \o p) = Len(q) + Len(p)
      /\ Len(q) \in Nat /\ Len(p) \in Nat
      /\ \A i \in 1..Len(q \o p) :
           (q \o p)[i] = IF i <= Len(q) THEN q[i] ELSE p[i - Len(q)]
  OBVIOUS
<1> DEFINE r == q \o p
<1> HIDE DEF r
<1>2. ASSUME NEW i \in 1..Len(r), r[i].type = t
      PROVE  i \in 1..Len(q) /\ r[i] = q[i]
  <2>1. CASE i <= Len(q)
    BY <1>1, <2>1 DEF r
  <2>2. CASE ~(i <= Len(q))
    <3>1. i - Len(q) \in 1..Len(p) /\ r[i] = p[i - Len(q)]
      BY <1>1, <2>2 DEF r
    <3> QED BY <1>2, <3>1
  <2> QED BY <2>1, <2>2
<1>3. Has(r, t) => Has(q, t)
  BY <1>2 DEF Has
<1>4. Twice(r, t) => Twice(q, t)
  BY <1>2 DEF Twice
<1> QED BY <1>1, <1>3, <1>4 DEF r

-----------------------------------------------------------------------------
(* Links *)

\* One link replaced.
LEMMA PutFacts ==
  ASSUME NEW ls \in [Slots -> Links], NEW n \in Slots, NEW w \in Links
  PROVE  /\ [ls EXCEPT ![n] = w] \in [Slots -> Links]
         /\ [ls EXCEPT ![n] = w][n] = w
         /\ \A m \in Slots \ {n} : [ls EXCEPT ![n] = w][m] = ls[m]
OBVIOUS

\* Links that differ in other things than their queues, or run no more.
Calmer(ls) ==
  /\ ls \in [Slots -> Links]
  /\ \A m \in Slots : /\ ls[m].up = link[m].up /\ ls[m].down = link[m].down
                      /\ ls[m].proc = "up" => link[m].proc = "up"

\* A process ends, its pipe is closed, its link is cut, or it says why.
LEMMA CalmerFacts ==
  ASSUME link \in [Slots -> Links], NEW n \in Slots,
         NEW why \in {"", "transient", "missing", "other"}
  PROVE  /\ Calmer(link) /\ Calmer(Dead(n)) /\ Dead(n)[n].proc = "dead"
         /\ Calmer([Dead(n) EXCEPT ![n].open = FALSE])
         /\ [Dead(n) EXCEPT ![n].open = FALSE][n].proc = "dead"
         /\ Calmer([Dead(n) EXCEPT ![n].stderr = why])
         /\ Calmer([link EXCEPT ![n].cut = TRUE])
         /\ Calmer([link EXCEPT ![n].open = FALSE])
<1> DEFINE u == link[n]
           d == [u EXCEPT !.proc = "dead"]
           c == [u EXCEPT !.cut = TRUE]
           o == [u EXCEPT !.open = FALSE]
           do == [d EXCEPT !.open = FALSE]
           ds == [d EXCEPT !.stderr = why]
<1>1. u \in Links
  OBVIOUS
<1>2. /\ Dead(n) = [link EXCEPT ![n] = d] /\ Dead(n)[n] = d
      /\ [link EXCEPT ![n].cut = TRUE] = [link EXCEPT ![n] = c]
      /\ [link EXCEPT ![n].open = FALSE] = [link EXCEPT ![n] = o]
  BY Zenon DEF Dead
<1>3. /\ [Dead(n) EXCEPT ![n].open = FALSE] = [Dead(n) EXCEPT ![n] = do]
      /\ [Dead(n) EXCEPT ![n].stderr = why] = [Dead(n) EXCEPT ![n] = ds]
  BY <1>2, Zenon
<1> HIDE DEF u
<1>4. /\ d \in Links /\ d.up = u.up /\ d.down = u.down /\ d.proc = "dead"
      /\ c \in Links /\ c.up = u.up /\ c.down = u.down /\ c.proc = u.proc
      /\ o \in Links /\ o.up = u.up /\ o.down = u.down /\ o.proc = u.proc
  BY <1>1 DEF Links
<1> HIDE DEF d
<1>5. /\ do \in Links /\ do.up = u.up /\ do.down = u.down /\ do.proc = "dead"
      /\ ds \in Links /\ ds.up = u.up /\ ds.down = u.down /\ ds.proc = "dead"
  BY <1>4 DEF Links
<1> HIDE DEF c, o, do, ds
<1>6. Calmer([link EXCEPT ![n] = d]) /\ Calmer([link EXCEPT ![n] = c])
      /\ Calmer([link EXCEPT ![n] = o])
  BY <1>4 DEF Calmer, u
<1>7. Dead(n) \in [Slots -> Links]
      /\ \A m \in Slots \ {n} : Dead(n)[m] = link[m]
  BY <1>2, <1>4
<1>8. Calmer([Dead(n) EXCEPT ![n] = do]) /\ Calmer([Dead(n) EXCEPT ![n] = ds])
      /\ [Dead(n) EXCEPT ![n] = do][n].proc = "dead"
  BY <1>4, <1>5, <1>7 DEF Calmer, u
<1>9. Calmer(link)
  BY DEF Calmer
<1> QED BY <1>2, <1>3, <1>4, <1>6, <1>8, <1>9

\* One link with other queues.
Rewired(ls, n, up, down) ==
  /\ ls \in [Slots -> Links]
  /\ ls[n].up = up /\ ls[n].down = down /\ ls[n].proc = link[n].proc
  /\ \A m \in Slots \ {n} : ls[m] = link[m]

\* A queue replaced, and then the other.
LEMMA RewiredFacts ==
  ASSUME link \in [Slots -> Links], NEW n \in Slots,
         NEW up \in Seq(UpFrames), NEW down \in Seq(DownFrames)
  PROVE  /\ Rewired([link EXCEPT ![n].up = up], n, up, link[n].down)
         /\ Rewired([link EXCEPT ![n].down = down], n, link[n].up, down)
         /\ Rewired([[link EXCEPT ![n].up = up] EXCEPT ![n].down = down], n, up, down)
<1> DEFINE u == link[n]
           p == [u EXCEPT !.up = up]
           d == [u EXCEPT !.down = down]
           pd == [p EXCEPT !.down = down]
           ls == [link EXCEPT ![n].up = up]
<1>1. u \in Links
  OBVIOUS
<1>2. /\ ls = [link EXCEPT ![n] = p] /\ ls[n] = p
      /\ [link EXCEPT ![n].down = down] = [link EXCEPT ![n] = d]
  BY Zenon
<1>3. [ls EXCEPT ![n].down = down] = [ls EXCEPT ![n] = pd]
  BY <1>2, Zenon
<1> HIDE DEF u
<1>4. /\ p \in Links /\ p.up = up /\ p.down = u.down /\ p.proc = u.proc
      /\ d \in Links /\ d.up = u.up /\ d.down = down /\ d.proc = u.proc
  BY <1>1 DEF Links
<1> HIDE DEF p
<1>5. pd \in Links /\ pd.up = up /\ pd.down = down /\ pd.proc = u.proc
  BY <1>4 DEF Links
<1> HIDE DEF d, pd
<1>6. /\ Rewired([link EXCEPT ![n] = p], n, up, link[n].down)
      /\ Rewired([link EXCEPT ![n] = d], n, link[n].up, down)
  BY <1>4 DEF Rewired, u
<1> HIDE DEF ls
<1>7. ls \in [Slots -> Links] /\ \A m \in Slots \ {n} : ls[m] = link[m]
  BY <1>2, <1>4
<1>8. Rewired([ls EXCEPT ![n] = pd], n, up, down)
  BY <1>5, <1>7 DEF Rewired, u
<1> QED BY <1>2, <1>3, <1>6, <1>8 DEF ls

\* The queues of a link are queues of frames.
LEMMA QueueTypes ==
  ASSUME link \in [Slots -> Links], NEW n \in Slots
  PROVE  link[n].up \in Seq(UpFrames) /\ link[n].down \in Seq(DownFrames)
BY DEF Links

\* The client wrote a frame, or it went nowhere.
LEMMA WrittenFacts ==
  ASSUME link \in [Slots -> Links], NEW n \in Slots, NEW f \in UpFrames
  PROVE  \E q \in {link[n].up, Append(link[n].up, f)} :
           Rewired(Written(n, f), n, q, link[n].down)
<1> DEFINE q == IF Reaches(n) THEN Append(link[n].up, f) ELSE link[n].up
<1>1. Written(n, f) = [link EXCEPT ![n].up = q]
  BY Zenon DEF Written
<1>2. q \in {link[n].up, Append(link[n].up, f)}
  OBVIOUS
<1> HIDE DEF q
<1>3. q \in Seq(UpFrames)
  <2>1. Append(link[n].up, f) \in Seq(UpFrames)
    BY QueueTypes
  <2> QED BY <1>2, <2>1, QueueTypes
<1> QED BY <1>1, <1>2, <1>3, QueueTypes, RewiredFacts

\* The far end wrote frames, or they went nowhere.
LEMMA PipedFacts ==
  ASSUME link \in [Slots -> Links], NEW n \in Slots, NEW fs \in Seq(DownFrames)
  PROVE  \E q \in {link[n].down, link[n].down \o fs} :
           Rewired(Piped(n, fs), n, link[n].up, q)
<1> DEFINE q == IF Reaches(n) THEN link[n].down \o fs ELSE link[n].down
<1>1. Piped(n, fs) = [link EXCEPT ![n].down = q]
  BY Zenon DEF Piped
<1>2. q \in {link[n].down, link[n].down \o fs}
  OBVIOUS
<1> HIDE DEF q
<1>3. q \in Seq(DownFrames)
  <2>1. link[n].down \o fs \in Seq(DownFrames)
    BY QueueTypes
  <2> QED BY <1>2, <2>1, QueueTypes
<1> QED BY <1>1, <1>2, <1>3, QueueTypes, RewiredFacts

-----------------------------------------------------------------------------
(* Frames, and steps of the network and of the far end *)

\* The frames the actions write.
LEMMA FrameTypes ==
  /\ Ack \in DownFrames /\ Pong \in DownFrames
  /\ \A code \in {0, 133, 135, 136} : Exit(code) \in DownFrames
  /\ Ping \in UpFrames /\ Shutdown \in UpFrames
  /\ \A k \in Nat : Key(k) \in UpFrames
  /\ Ping.type = "ping" /\ Pong.type = "pong" /\ Shutdown.type = "shutdown"
  /\ Ack.type = "ack" /\ Ack.arg = 0
  /\ \A k : Key(k).type = "stdin" /\ Key(k).arg = k
BY DEF Ack, Pong, Exit, Ping, Shutdown, Key, DownFrames, UpFrames

\* Whoever answers HELLO, or ends a session, writes no Pong.
LEMMA AnswerTypes ==
  /\ \A fs \in {<<Ack>>, <<Ack, Exit(133)>>, <<Exit(136)>>, <<Exit(135)>>, <<Exit(ShellCode)>>} :
       fs \in Seq(DownFrames) /\ \A i \in 1..Len(fs) : fs[i].type # "pong"
<1>1. /\ Ack \in DownFrames /\ Ack.type # "pong"
      /\ \A code \in {0, 133, 135, 136} : Exit(code) \in DownFrames /\ Exit(code).type # "pong"
  BY FrameTypes DEF Exit, Ack
<1>2. ASSUME NEW f \in DownFrames, f.type # "pong"
      PROVE  <<f>> \in Seq(DownFrames) /\ \A i \in 1..Len(<<f>>) : <<f>>[i].type # "pong"
  BY <1>2
<1>3. ASSUME NEW f \in DownFrames, f.type # "pong", NEW g \in DownFrames, g.type # "pong"
      PROVE  <<f, g>> \in Seq(DownFrames)
             /\ \A i \in 1..Len(<<f, g>>) : <<f, g>>[i].type # "pong"
  BY <1>3
<1>4. ShellCode \in {0, 133, 135, 136}
  BY DEF ShellCode
<1> QED BY <1>1, <1>2, <1>3, <1>4

\* Such a step changes nothing of the client, and brings no Pong and no key.
Distant ==
  /\ UNCHANGED <<run, cancelled, session, probe, pongCh, stdin, exitRead>>
  /\ far' \in Fars /\ far'.input = far.input /\ far'.pty = far.pty
  /\ link' \in [Slots -> Links]
  /\ \A m \in Slots :
       /\ link'[m].up = link[m].up
       /\ link'[m].proc = "up" => link[m].proc = "up"
       /\ Has(link'[m].down, "pong") => Has(link[m].down, "pong")
       /\ Twice(link'[m].down, "pong") => Twice(link[m].down, "pong")

\* A state of the far end in which no key has moved.
SameKeys(f) == f \in Fars /\ f.input = far.input /\ f.pty = far.pty

\* Another state of the connections, of the session, or of the network.
LEMMA FarFacts ==
  ASSUME far \in Fars, NEW n \in Slots, NEW c \in Conns, NEW cs \in [Slots -> Conns],
         NEW st \in States, NEW k \in Nat
  PROVE  /\ SameKeys(far) /\ SameKeys([far EXCEPT !.conn[n] = c])
         /\ SameKeys([far EXCEPT !.conn[n] = c, !.state = st])
         /\ SameKeys([far EXCEPT !.state = st, !.conn[n] = c])
         /\ SameKeys([far EXCEPT !.cuts = k, !.conn[n] = c])
         /\ SameKeys([far EXCEPT !.conn = cs])
         /\ SameKeys([far EXCEPT !.state = st, !.conn = cs])
         /\ SameKeys([far EXCEPT !.state = st])
<1> DEFINE d == [far.conn EXCEPT ![n] = c]
<1>1. d \in [Slots -> Conns]
  BY DEF Fars
<1>2. /\ [far EXCEPT !.conn[n] = c] = [far EXCEPT !.conn = d]
      /\ [far EXCEPT !.conn[n] = c, !.state = st] = [far EXCEPT !.conn = d, !.state = st]
      /\ [far EXCEPT !.state = st, !.conn[n] = c] = [far EXCEPT !.state = st, !.conn = d]
      /\ [far EXCEPT !.cuts = k, !.conn[n] = c] = [far EXCEPT !.cuts = k, !.conn = d]
  BY Zenon
<1> HIDE DEF d
<1>3. ASSUME NEW e \in [Slots -> Conns]
      PROVE  /\ SameKeys([far EXCEPT !.conn = e])
             /\ SameKeys([far EXCEPT !.conn = e, !.state = st])
             /\ SameKeys([far EXCEPT !.state = st, !.conn = e])
             /\ SameKeys([far EXCEPT !.cuts = k, !.conn = e])
             /\ SameKeys([far EXCEPT !.state = st])
  BY <1>3 DEF Fars, SameKeys
<1>4. SameKeys(far)
  BY DEF SameKeys
<1>5. /\ SameKeys([far EXCEPT !.conn = d])
      /\ SameKeys([far EXCEPT !.conn = d, !.state = st])
      /\ SameKeys([far EXCEPT !.state = st, !.conn = d])
      /\ SameKeys([far EXCEPT !.cuts = k, !.conn = d])
  BY <1>1, <1>3
<1> QED BY <1>2, <1>3, <1>4, <1>5, Zenon

\* The far end has written frames other than Pong.
LEMMA AnswerFacts ==
  ASSUME link \in [Slots -> Links], NEW n \in Slots, NEW fs \in Seq(DownFrames),
         \A i \in 1..Len(fs) : fs[i].type # "pong", link' = Piped(n, fs)
  PROVE  /\ link' \in [Slots -> Links]
         /\ \A m \in Slots :
              /\ link'[m].up = link[m].up
              /\ link'[m].proc = "up" => link[m].proc = "up"
              /\ Has(link'[m].down, "pong") => Has(link[m].down, "pong")
              /\ Twice(link'[m].down, "pong") => Twice(link[m].down, "pong")
<1>1. PICK q \in {link[n].down, link[n].down \o fs} : Rewired(Piped(n, fs), n, link[n].up, q)
  BY PipedFacts
<1>2. /\ Has(q, "pong") => Has(link[n].down, "pong")
      /\ Twice(q, "pong") => Twice(link[n].down, "pong")
  BY <1>1, QueueTypes, OthersHold
<1> QED BY <1>1, <1>2 DEF Rewired

\* Steps of the network, of ssh, and of whoever answers at the far end.
LEMMA WireFacts ==
  ASSUME BaseInv, NEW n \in Slots,
         \/ Cut(n) \/ SshExits(n) \/ Answered(n) \/ SendExit(n)
         \/ Activate(n) \/ FarNotices(n)
  PROVE  Distant
<1>a. /\ link \in [Slots -> Links] /\ far \in Fars /\ far.cuts \in Nat
      /\ far.conn \in [Slots -> Conns] /\ far.state \in States
  BY DEF BaseInv, Fars
<1>b. "closed" \in Conns /\ "acked" \in Conns /\ "hello" \in Conns /\ far.conn[n] \in Conns
      /\ "alive" \in States /\ "gone" \in States /\ "exiting" \in States /\ "kept" \in States
  BY <1>a DEF Conns, States
<1>c. ASSUME Calmer(link')
      PROVE  /\ link' \in [Slots -> Links]
             /\ \A m \in Slots :
                  /\ link'[m].up = link[m].up
                  /\ link'[m].proc = "up" => link[m].proc = "up"
                  /\ Has(link'[m].down, "pong") => Has(link[m].down, "pong")
                  /\ Twice(link'[m].down, "pong") => Twice(link[m].down, "pong")
  BY <1>c DEF Calmer
<1> DEFINE Quietly ==
      /\ link' \in [Slots -> Links]
      /\ \A m \in Slots :
           /\ link'[m].up = link[m].up
           /\ link'[m].proc = "up" => link[m].proc = "up"
           /\ Has(link'[m].down, "pong") => Has(link[m].down, "pong")
           /\ Twice(link'[m].down, "pong") => Twice(link[m].down, "pong")
<1>1. CASE Cut(n)
  <2>1. Quietly
    BY <1>1, <1>a, <1>c, CalmerFacts DEF Cut
  <2>2. PICK k \in Nat, c \in Conns : far' = [far EXCEPT !.cuts = k, !.conn[n] = c]
    <3>1. far' = [far EXCEPT !.cuts = far.cuts + 1,
                             !.conn[n] = IF far.conn[n] = "hello" THEN "closed" ELSE far.conn[n]]
      BY <1>1, Zenon DEF Cut
    <3>2. far.cuts + 1 \in Nat
      BY <1>a
    <3>3. (IF far.conn[n] = "hello" THEN "closed" ELSE far.conn[n]) \in Conns
      BY <1>b
    <3> QED BY <3>1, <3>2, <3>3, Zenon
  <2>3. SameKeys(far')
    BY <1>a, <2>2, FarFacts
  <2> QED BY <1>1, <2>1, <2>3 DEF Cut, Distant, SameKeys
<1>2. CASE SshExits(n)
  <2>1. Quietly
    BY <1>2, <1>a, <1>c, CalmerFacts DEF SshExits
  <2> QED BY <1>2, <1>a, <2>1 DEF SshExits, Distant
<1>3. CASE \E why \in {"transient", "missing", "other"} : Refused(n, why)
  <2>1. PICK why \in {"", "transient", "missing", "other"} : Refused(n, why)
    BY <1>3
  <2>2. Quietly
    BY <2>1, <1>a, <1>c, CalmerFacts DEF Refused
  <2>3. SameKeys(far')
    BY <2>1, <1>a, <1>b, FarFacts DEF Refused
  <2> QED BY <2>1, <2>2, <2>3 DEF Refused, Distant, SameKeys
<1>4. CASE Accept(n) \/ SendExit(n)
          \/ \E fs \in {<<Ack, Exit(133)>>, <<Exit(136)>>, <<Exit(135)>>} : AnswerOnly(n, fs)
  <2>1. PICK fs \in {<<Ack>>, <<Ack, Exit(133)>>, <<Exit(136)>>, <<Exit(135)>>,
                     <<Exit(ShellCode)>>} : link' = Piped(n, fs)
    BY <1>4, Zenon DEF Accept, SendExit, AnswerOnly
  <2>2. fs \in Seq(DownFrames) /\ \A i \in 1..Len(fs) : fs[i].type # "pong"
    BY AnswerTypes
  <2>3. Quietly
    BY <1>a, <2>1, <2>2, AnswerFacts
  <2>4. SameKeys(far')
    <3>1. CASE SendExit(n)
      BY <3>1, <1>a, <1>b, FarFacts DEF SendExit
    <3>2. CASE Accept(n)
      <4> DEFINE st == IF far.state = "none" THEN "alive" ELSE far.state
      <4>1. far' = [far EXCEPT !.conn[n] = "acked", !.state = st]
        BY <3>2, Zenon DEF Accept
      <4>2. st \in States
        BY <1>a, <1>b
      <4> HIDE DEF st
      <4> QED BY <1>a, <1>b, <4>1, <4>2, FarFacts
    <3>3. CASE \E gs : AnswerOnly(n, gs)
      <4> DEFINE st == IF far.state = "kept" THEN "gone" ELSE far.state
      <4>1. far' = [far EXCEPT !.conn[n] = "closed", !.state = st]
        BY <3>3, Zenon DEF AnswerOnly
      <4>2. st \in States
        BY <1>a, <1>b
      <4> HIDE DEF st
      <4> QED BY <1>a, <1>b, <4>1, <4>2, FarFacts
    <3> QED BY <1>4, <3>1, <3>2, <3>3
  <2>5. UNCHANGED <<run, cancelled, session, probe, pongCh, stdin, exitRead>>
    BY <1>4 DEF Accept, SendExit, AnswerOnly
  <2> QED BY <2>3, <2>4, <2>5 DEF Distant, SameKeys
<1>5. CASE Activate(n) \/ FarNotices(n)
  <2>1. UNCHANGED <<run, cancelled, link, session, probe, pongCh, stdin, exitRead>>
    BY <1>5 DEF Activate, FarNotices
  <2>2. SameKeys(far')
    <3>1. CASE Activate(n)
      <4> DEFINE cs == [m \in Slots |-> IF m = n THEN "active"
                          ELSE IF far.conn[m] = "active" THEN "closed" ELSE far.conn[m]]
      <4>1. cs \in [Slots -> Conns]
        BY <1>a DEF Conns
      <4>2. far' = [far EXCEPT !.conn = cs]
        BY <3>1, Zenon DEF Activate
      <4> HIDE DEF cs
      <4> QED BY <1>a, <1>b, <4>1, <4>2, FarFacts
    <3>2. CASE FarNotices(n)
      BY <3>2, <1>a, <1>b, FarFacts DEF FarNotices
    <3> QED BY <1>5, <3>1, <3>2
  <2> QED BY <1>a, <2>1, <2>2 DEF Distant, SameKeys
<1> QED
  BY <1>1, <1>2, <1>3, <1>4, <1>5 DEF Answered, Replay, NothingThere, CapRefuses

\* The shell has ended, or what it wrote is preserved.
LEMMA ShellFacts ==
  ASSUME BaseInv, ShellExits \/ Preserve
  PROVE  Distant
<1>1. link \in [Slots -> Links] /\ far \in Fars
  BY DEF BaseInv
<1>2. far' \in Fars /\ far'.input = far.input /\ far'.pty = far.pty
  BY <1>1 DEF ShellExits, Preserve, Fars, States
<1>3. UNCHANGED <<run, cancelled, link, session, probe, pongCh, stdin, exitRead>>
  BY DEF ShellExits, Preserve
<1> QED BY <1>1, <1>2, <1>3 DEF Distant

\* The daemon reads a keystroke, a Ping or SHUTDOWN.
LEMMA FarReadsFacts ==
  ASSUME BaseInv, NEW n \in Slots, FarReads(n)
  PROVE  /\ UNCHANGED <<run, cancelled, session, probe, pongCh, stdin, exitRead>>
         /\ link[n].up # <<>> /\ far' \in Fars /\ far'.pty = far.pty
         /\ Len(far'.input) <= InputCap
         /\ \/ /\ Head(link[n].up).type = "stdin"
               /\ far'.input \in {far.input,
                                  Append(far.input, [key |-> Head(link[n].up).arg, slot |-> n])}
               /\ Rewired(link', n, Tail(link[n].up), link[n].down)
            \/ /\ Head(link[n].up).type = "ping" /\ far' = far
               /\ \E q \in {link[n].down, Append(link[n].down, Pong)} :
                    Rewired(link', n, Tail(link[n].up), q)
            \/ /\ Head(link[n].up).type = "shutdown" /\ far'.input = far.input
               /\ Rewired(link', n, Tail(link[n].up), link[n].down)
<1> DEFINE f == Head(link[n].up)
           rest == [link EXCEPT ![n].up = Tail(link[n].up)]
<1>a. /\ link \in [Slots -> Links] /\ far \in Fars /\ far.conn \in [Slots -> Conns]
      /\ far.input \in Seq(Items) /\ Len(far.input) <= InputCap
  BY DEF BaseInv, Fars
<1>b. link[n].up # <<>>
  BY DEF FarReads
<1>c. f \in UpFrames /\ f.arg \in Nat /\ Tail(link[n].up) \in Seq(UpFrames)
      /\ link[n].down \in Seq(DownFrames)
  <2>1. f \in UpFrames /\ Tail(link[n].up) \in Seq(UpFrames)
    BY <1>a, <1>b, QueueTypes
  <2> QED BY <1>a, <2>1, QueueTypes DEF UpFrames
<1>d. Rewired(rest, n, Tail(link[n].up), link[n].down)
  BY <1>a, <1>c, RewiredFacts
<1>e. UNCHANGED <<run, cancelled, session, probe, pongCh, stdin, exitRead>>
  BY DEF FarReads
<1>1. CASE f.type = "stdin"
  <2>1. PICK q \in Dispatched([key |-> f.arg, slot |-> n]) : far' = [far EXCEPT !.input = q]
    BY <1>1, Zenon DEF FarReads
  <2>2. link' = rest
    BY <1>1, Zenon DEF FarReads
  <2>3. [key |-> f.arg, slot |-> n] \in Items
    BY <1>c DEF Items
  <2>4. /\ q \in {far.input, Append(far.input, [key |-> f.arg, slot |-> n])}
        /\ q \in Seq(Items) /\ Len(q) <= InputCap
    <3>1. CASE Len(far.input) < InputCap
      <4>1. q = Append(far.input, [key |-> f.arg, slot |-> n])
        BY <3>1 DEF Dispatched
      <4> QED BY <1>a, <2>3, <3>1, <4>1, Numbers
    <3>2. CASE ~(Len(far.input) < InputCap)
      BY <1>a, <3>2 DEF Dispatched
    <3> QED BY <3>1, <3>2
  <2>5. far' \in Fars /\ far'.pty = far.pty /\ far'.input = q
    BY <1>a, <2>1, <2>4 DEF Fars
  <2> QED BY <1>1, <1>b, <1>d, <1>e, <2>2, <2>4, <2>5
<1>2. CASE f.type = "ping"
  <2> DEFINE q == IF Reaches(n) THEN Append(link[n].down, Pong) ELSE link[n].down
  <2>1. far' = far
    BY <1>2, Zenon DEF FarReads
  <2>2. link' = [rest EXCEPT ![n].down = IF Reaches(n) THEN Append(@, Pong) ELSE @]
    BY <1>2, Zenon DEF FarReads
  <2>3. rest[n].down = link[n].down
    BY <1>d DEF Rewired
  <2>4. link' = [rest EXCEPT ![n].down = q]
    <3>1. link' = [rest EXCEPT ![n].down = IF Reaches(n) THEN Append(rest[n].down, Pong)
                                           ELSE rest[n].down]
      BY <2>2, Zenon
    <3> HIDE DEF rest
    <3> QED BY <2>3, <3>1, Zenon
  <2>5. q \in {link[n].down, Append(link[n].down, Pong)} /\ q \in Seq(DownFrames)
    BY <1>c, FrameTypes
  <2> HIDE DEF q
  <2>6. Rewired(link', n, Tail(link[n].up), q)
    BY <1>a, <1>c, <2>4, <2>5, RewiredFacts
  <2> QED BY <1>2, <1>a, <1>b, <1>e, <2>1, <2>5, <2>6
<1>3. CASE f.type = "shutdown"
  <2> DEFINE cs == [m \in Slots |-> IF far.conn[m] \in {"acked", "active"}
                                    THEN "closed" ELSE far.conn[m]]
  <2>1. link' = rest
    BY <1>3, Zenon DEF FarReads
  <2>2. far' = [far EXCEPT !.state = "gone", !.conn = cs]
    BY <1>3, Zenon DEF FarReads
  <2>3. cs \in [Slots -> Conns] /\ "gone" \in States
    BY <1>a DEF Conns, States
  <2> HIDE DEF cs
  <2>4. SameKeys(far')
    <3>1. "none" \in Conns /\ 0 \in Nat
      BY DEF Conns
    <3> QED BY <1>a, <2>2, <2>3, <3>1, FarFacts
  <2> QED BY <1>3, <1>a, <1>b, <1>d, <1>e, <2>1, <2>4 DEF SameKeys
<1> QED BY <1>1, <1>2, <1>3 DEF FarReads

\* A keystroke is handed to the pty.
LEMMA PtyFacts ==
  ASSUME BaseInv, PtyWrite
  PROVE  /\ UNCHANGED <<run, cancelled, link, session, probe, pongCh, stdin, exitRead>>
         /\ far' \in Fars /\ far.input # <<>> /\ Len(far'.input) <= InputCap
         /\ far'.input = Tail(far.input) /\ far'.pty = Append(far.pty, Head(far.input))
<1>1. /\ far.input \in Seq(Items) /\ far.pty \in Seq(Items) /\ far.input # <<>>
      /\ far \in Fars /\ Len(far.input) <= InputCap
  BY DEF BaseInv, Fars, PtyWrite
<1>2. /\ Tail(far.input) \in Seq(Items) /\ Append(far.pty, Head(far.input)) \in Seq(Items)
      /\ Len(Tail(far.input)) <= InputCap
  BY <1>1, Numbers
<1> DEFINE i == Tail(far.input)
           p == Append(far.pty, Head(far.input))
<1>3. far' = [far EXCEPT !.input = i, !.pty = p]
  BY Zenon DEF PtyWrite
<1> HIDE DEF i, p
<1>4. far' \in Fars /\ far'.input = i /\ far'.pty = p
  BY <1>1, <1>2, <1>3 DEF Fars, i, p
<1> QED BY <1>1, <1>2, <1>4 DEF PtyWrite, i, p

-----------------------------------------------------------------------------
(* Steps of run and runOnce *)

\* An attempt has returned: either the loop goes round, or the client ends with
\* the code of an EXIT, or with one that says truly whether it had a session.
LEMMA ReturnsFacts ==
  ASSUME run \in Runs, NEW acked \in BOOLEAN, NEW result \in {0, 132, 133, 135, 136, NoCode},
         Returns(acked, result)
  PROVE  /\ run' \in Runs /\ run'.phase \in {"start", "done"} /\ run'.slot = run.slot
         /\ run'.haveHelloAcked <=> run.haveHelloAcked \/ acked
         /\ result # NoCode => run'.phase = "done"
         /\ run'.code # NoCode => run'.phase = "done"
         /\ run'.code = 1 => ~run'.haveHelloAcked
         /\ run'.code = 137 => run'.haveHelloAcked
<1>1. PICK b \in BOOLEAN : b <=> run.haveHelloAcked \/ acked
  OBVIOUS
<1> DEFINE To(phase, code) == run' = [run EXCEPT !.phase = phase, !.code = code,
                                        !.result = NoCode, !.haveHelloAcked = b]
<1>2. \/ result # NoCode /\ To("done", result)
      \/ /\ result = NoCode
         /\ \/ To("done", Aborted) \/ To("start", NoCode)
            \/ To("done", IF HaveHelloAcked(acked) THEN 137 ELSE 1)
  <2>1. (run.haveHelloAcked \/ acked) = b
    BY <1>1
  <2>2. \/ result # NoCode
           /\ run' = [run EXCEPT !.phase = "done", !.code = result, !.result = NoCode,
                                 !.haveHelloAcked = run.haveHelloAcked \/ acked]
        \/ /\ result = NoCode
           /\ \/ run' = [run EXCEPT !.phase = "done", !.code = Aborted, !.result = NoCode,
                                    !.haveHelloAcked = run.haveHelloAcked \/ acked]
              \/ run' = [run EXCEPT !.phase = "start", !.code = NoCode, !.result = NoCode,
                                    !.haveHelloAcked = run.haveHelloAcked \/ acked]
              \/ run' = [run EXCEPT !.phase = "done",
                                    !.code = IF HaveHelloAcked(acked) THEN 137 ELSE 1,
                                    !.result = NoCode,
                                    !.haveHelloAcked = run.haveHelloAcked \/ acked]
    BY Zenon DEF Returns
  <2> QED BY <2>1, <2>2, Zenon
<1>3. PICK code \in {1, 137} :
        code = (IF HaveHelloAcked(acked) THEN 137 ELSE 1) /\ (code = 137 <=> b)
  BY <1>1 DEF HaveHelloAcked
<1>4. \/ result # NoCode /\ To("done", result)
      \/ /\ result = NoCode
         /\ To("done", Aborted) \/ To("start", NoCode) \/ To("done", code)
  BY <1>2, <1>3, Zenon
<1>5. ASSUME NEW p \in {"start", "done"}, NEW k \in Codes \cup {NoCode}, To(p, k)
      PROVE  /\ run' \in Runs /\ run'.phase = p /\ run'.slot = run.slot
             /\ run'.haveHelloAcked <=> b
             /\ run'.code = k
  BY <1>5 DEF Runs
<1>6. /\ \A k \in {Aborted, NoCode, code, result} : k \in Codes \cup {NoCode}
      /\ Aborted \notin {1, 137} /\ NoCode \notin {1, 137} /\ result \notin {1, 137}
  BY <1>3 DEF Codes, Aborted, NoCode, OtherMajor, ShellCode
<1> HIDE DEF To
<1>7. CASE result # NoCode /\ To("done", result)
  <2>1. /\ run' \in Runs /\ run'.phase = "done" /\ run'.slot = run.slot
        /\ run'.haveHelloAcked <=> b
        /\ run'.code = result
    BY <1>5, <1>6, <1>7
  <2> QED BY <1>1, <1>6, <2>1
<1>8. ASSUME result = NoCode, NEW p \in {"start", "done"}, NEW k \in {Aborted, NoCode, code},
             To(p, k), k # NoCode => p = "done", k = 1 => ~b, k = 137 => b
      PROVE  /\ run' \in Runs /\ run'.phase \in {"start", "done"} /\ run'.slot = run.slot
             /\ run'.haveHelloAcked <=> run.haveHelloAcked \/ acked
             /\ run'.code # NoCode => run'.phase = "done"
             /\ run'.code = 1 => ~run'.haveHelloAcked
             /\ run'.code = 137 => run'.haveHelloAcked
  <2>1. /\ run' \in Runs /\ run'.phase = p /\ run'.slot = run.slot
        /\ run'.haveHelloAcked <=> b
        /\ run'.code = k
    <3>1. k \in Codes \cup {NoCode}
      BY <1>6
    <3> QED BY <1>5, <1>8, <3>1
  <2> QED BY <1>1, <1>8, <2>1
<1>9. CASE result = NoCode /\ To("done", Aborted)
  BY <1>6, <1>8, <1>9
<1>10. CASE result = NoCode /\ To("start", NoCode)
  BY <1>6, <1>8, <1>10
<1>11. CASE result = NoCode /\ To("done", code)
  BY <1>3, <1>6, <1>8, <1>11
<1> QED BY <1>4, <1>7, <1>9, <1>10, <1>11

\* A session that is over, or whose select has fired.
LEMMA StopsFacts ==
  ASSUME BaseInv, NEW result \in {0, 132, 133, 135, 136, NoCode}, Stops(result),
         InSession
  PROVE  /\ run' \in Runs /\ run'.phase = "joining" /\ run'.slot = run.slot
         /\ run'.result = result /\ run'.code = run.code
         /\ run'.haveHelloAcked <=> run.haveHelloAcked
         /\ run.slot \in Slots /\ Calmer(link') /\ link'[run.slot].proc = "dead"
<1>1. run \in Runs /\ run.slot \in Slots /\ link \in [Slots -> Links]
  BY DEF BaseInv
<1>2. run' = [run EXCEPT !.phase = "joining", !.result = result] /\ link' = Dead(run.slot)
  BY DEF Stops
<1>3. /\ run' \in Runs /\ run'.phase = "joining" /\ run'.slot = run.slot
      /\ run'.result = result /\ run'.code = run.code
      /\ run'.haveHelloAcked <=> run.haveHelloAcked
  BY <1>1, <1>2 DEF Runs
<1>4. Calmer(link') /\ link'[run.slot].proc = "dead"
  BY <1>1, <1>2, CalmerFacts
<1> QED BY <1>1, <1>3, <1>4

\* A new attempt: its link is empty, the others hold what they held or nothing,
\* and no probe is about it.
LEMMA StartFacts ==
  ASSUME BaseInv, Start
  PROVE  /\ UNCHANGED <<cancelled, session, probe, pongCh, stdin, exitRead>>
         /\ run.phase = "start" /\ run' \in Runs
         /\ run'.haveHelloAcked <=> run.haveHelloAcked
         /\ \/ /\ run'.phase = "done" /\ run'.slot = run.slot /\ run'.code = Aborted
               /\ UNCHANGED <<link, far>>
            \/ /\ run'.phase = "dial" /\ run'.slot \in Slots /\ run'.code = run.code
               /\ SameKeys(far') /\ link' \in [Slots -> Links]
               /\ link'[run'.slot].up = <<>> /\ link'[run'.slot].down = <<>>
               /\ probe.phase = "idle" \/ probe.pc # run'.slot
               /\ \A m \in Slots \ {run'.slot} :
                    /\ link'[m].proc = "up" => link[m].proc = "up"
                    /\ link'[m].up \in {link[m].up, <<>>}
                    /\ link'[m].down \in {link[m].down, <<>>}
<1>a. /\ run \in Runs /\ link \in [Slots -> Links] /\ far \in Fars /\ run.phase = "start"
      /\ UNCHANGED <<cancelled, session, probe, pongCh, stdin, exitRead>>
  BY DEF BaseInv, Start
<1>1. CASE run' = [run EXCEPT !.phase = "done", !.code = Aborted] /\ UNCHANGED <<link, far>>
  <2>1. Aborted \in Codes
    BY DEF Codes, Aborted
  <2> QED BY <1>a, <1>1, <2>1 DEF Runs
<1>2. CASE \E n \in Slots :
             /\ Free(n)
             /\ run' = [run EXCEPT !.phase = "dial", !.slot = n]
             /\ link' = [m \in Slots |->
                           IF m = n THEN [NoLink EXCEPT !.proc = "up", !.open = TRUE]
                           ELSE IF Free(m) THEN NoLink ELSE Retired(m)]
             /\ far' = [far EXCEPT !.conn = [m \in Slots |->
                           IF m = n THEN "hello"
                           ELSE IF Free(m) THEN "none" ELSE @[m]]]
  <2>1. PICK n \in Slots :
             /\ Free(n)
             /\ run' = [run EXCEPT !.phase = "dial", !.slot = n]
             /\ link' = [m \in Slots |->
                           IF m = n THEN [NoLink EXCEPT !.proc = "up", !.open = TRUE]
                           ELSE IF Free(m) THEN NoLink ELSE Retired(m)]
             /\ far' = [far EXCEPT !.conn = [m \in Slots |->
                           IF m = n THEN "hello"
                           ELSE IF Free(m) THEN "none" ELSE far.conn[m]]]
    BY <1>2, Zenon
  <2>2. /\ run' \in Runs /\ run'.phase = "dial" /\ run'.slot = n /\ run'.code = run.code
        /\ run'.haveHelloAcked <=> run.haveHelloAcked
    BY <1>a, <2>1 DEF Runs
  <2>3. probe.phase = "idle" \/ probe.pc # n
    BY <2>1 DEF Free
  <2>4. SameKeys(far')
    <3> DEFINE cs == [m \in Slots |-> IF m = n THEN "hello"
                                      ELSE IF Free(m) THEN "none" ELSE far.conn[m]]
    <3>1. far' = [far EXCEPT !.conn = cs]
      BY <2>1, Zenon
    <3>2. far.conn \in [Slots -> Conns]
      BY <1>a DEF Fars
    <3>3. \A m \in Slots : cs[m] \in Conns
      BY <3>2 DEF Conns
    <3>4. cs \in [Slots -> Conns]
      BY <3>3
    <3> HIDE DEF cs
    <3>5. "none" \in Conns /\ "none" \in States /\ 0 \in Nat
      BY DEF Conns, States
    <3> QED BY <1>a, <3>1, <3>4, <3>5, FarFacts
  <2> DEFINE fresh == [NoLink EXCEPT !.proc = "up", !.open = TRUE]
  <2>5. /\ fresh \in Links /\ fresh.up = <<>> /\ fresh.down = <<>>
        /\ NoLink \in Links /\ NoLink.up = <<>> /\ NoLink.down = <<>> /\ NoLink.proc = "none"
    <3>1. <<>> \in Seq(UpFrames) /\ <<>> \in Seq(DownFrames)
      OBVIOUS
    <3>2. /\ NoLink \in Links /\ NoLink.up = <<>> /\ NoLink.down = <<>>
          /\ NoLink.proc = "none"
      BY <3>1 DEF NoLink, Links
    <3>3. fresh \in Links /\ fresh.up = <<>> /\ fresh.down = <<>>
      BY <3>2 DEF Links
    <3> QED BY <3>2, <3>3
  <2> HIDE DEF fresh
  <2>6. \A m \in Slots : /\ Retired(m) \in Links /\ Retired(m).proc = link[m].proc
                         /\ Retired(m).up = link[m].up
                         /\ Retired(m).down \in {link[m].down, <<>>}
    <3> TAKE m \in Slots
    <3>1. link[m] \in Links /\ <<>> \in Seq(DownFrames)
      BY <1>a
    <3>2. CASE m = run.slot
      <4> DEFINE w == [link[m] EXCEPT !.down = <<>>, !.stderr = ""]
      <4>1. Retired(m) = w
        BY <3>2 DEF Retired
      <4>2. w \in Links /\ w.proc = link[m].proc /\ w.up = link[m].up /\ w.down = <<>>
        BY <3>1 DEF Links
      <4> QED BY <4>1, <4>2
    <3>3. CASE m # run.slot
      BY <3>1, <3>3 DEF Retired
    <3> QED BY <3>2, <3>3
  <2>7. \A m \in Slots : link'[m] = IF m = n THEN fresh
                                    ELSE IF Free(m) THEN NoLink ELSE Retired(m)
    BY <2>1 DEF fresh
  <2>8. link' \in [Slots -> Links]
    <3>1. link' = [m \in Slots |-> IF m = n THEN fresh
                                   ELSE IF Free(m) THEN NoLink ELSE Retired(m)]
      BY <2>1, Zenon DEF fresh
    <3>2. \A m \in Slots : (IF m = n THEN fresh
                            ELSE IF Free(m) THEN NoLink ELSE Retired(m)) \in Links
      BY <2>5, <2>6
    <3> QED BY <3>1, <3>2, Zenon
  <2>9. link'[n].up = <<>> /\ link'[n].down = <<>>
    BY <2>5, <2>7
  <2>10. \A m \in Slots \ {n} : /\ link'[m].proc = "up" => link[m].proc = "up"
                                /\ link'[m].up \in {link[m].up, <<>>}
                                /\ link'[m].down \in {link[m].down, <<>>}
    BY <2>5, <2>6, <2>7
  <2> QED BY <1>a, <2>2, <2>3, <2>4, <2>8, <2>9, <2>10
<1> QED BY <1>1, <1>2, Zenon DEF Start

\* The attempt ends before a session.
LEMMA DialFacts ==
  ASSUME BaseInv, DialEnds
  PROVE  /\ UNCHANGED <<cancelled, session, probe, pongCh, stdin, far>>
         /\ run.phase = "dial" /\ Calmer(link') /\ link'[run.slot].proc = "dead"
         /\ exitRead' \in BOOLEAN
         /\ \E result \in {0, 132, 133, 135, 136, NoCode} :
              Returns(FALSE, result) /\ (exitRead' => exitRead \/ result # NoCode)
<1> DEFINE n == run.slot
           f == Head(link[n].down)
<1>a. /\ run.phase = "dial" /\ n \in Slots /\ link \in [Slots -> Links] /\ exitRead \in BOOLEAN
      /\ UNCHANGED <<cancelled, session, probe, pongCh, stdin, far>>
  BY DEF BaseInv, DialEnds
<1>b. Calmer(link') /\ link'[n].proc = "dead"
  <2>1. link' = [Dead(n) EXCEPT ![n].open = FALSE]
    BY Zenon DEF DialEnds
  <2> QED BY <1>a, <2>1, CalmerFacts
<1>1. CASE link[n].down # <<>> /\ Returns(FALSE, f.arg) /\ exitRead' = TRUE
  <2>1. f \in DownFrames
    BY <1>1, <1>a, QueueTypes
  <2>2. f.arg \in {0, 133, 135, 136} /\ f.arg # NoCode
    BY <2>1 DEF DownFrames, NoCode
  <2> QED BY <1>1, <1>a, <1>b, <2>2
<1>2. CASE \E result \in {OtherMajor, NoCode} : Returns(FALSE, result) /\ UNCHANGED exitRead
  <2>1. PICK result \in {OtherMajor, NoCode} : Returns(FALSE, result) /\ UNCHANGED exitRead
    BY <1>2
  <2>2. result \in {0, 132, 133, 135, 136, NoCode}
    BY DEF OtherMajor
  <2>3. exitRead' \in BOOLEAN /\ (exitRead' => exitRead \/ result # NoCode)
    BY <1>a, <2>1
  <2> QED BY <1>a, <1>b, <2>1, <2>2, <2>3
<1> QED BY <1>1, <1>2, Zenon DEF DialEnds

\* HELLO_ACK has come, and the session begins.
LEMMA HelloFacts ==
  ASSUME BaseInv, RecvHelloAck
  PROVE  /\ UNCHANGED <<cancelled, probe, pongCh, far, exitRead>>
         /\ run.phase = "dial" /\ run.slot \in Slots
         /\ run' \in Runs /\ run'.phase = "live" /\ run'.slot = run.slot
         /\ run'.code = run.code /\ (run'.haveHelloAcked <=> run.haveHelloAcked)
         /\ session' \in Sessions /\ session'.exitCh = NoCode
         /\ stdin' \in Stdins /\ stdin'.active /\ stdin'.typed = stdin.typed
         /\ stdin'.tty = stdin.tty /\ stdin'.ch = stdin.ch
         /\ link[run.slot].down # <<>>
         /\ Rewired(link', run.slot, link[run.slot].up, Tail(link[run.slot].down))
<1>1. /\ UNCHANGED <<cancelled, probe, pongCh, far, exitRead>>
      /\ run.phase = "dial" /\ run.slot \in Slots /\ link \in [Slots -> Links]
      /\ link[run.slot].down # <<>> /\ run \in Runs /\ stdin \in Stdins
  BY DEF BaseInv, RecvHelloAck
<1>2. /\ run' \in Runs /\ run'.phase = "live" /\ run'.slot = run.slot
      /\ run'.code = run.code /\ (run'.haveHelloAcked <=> run.haveHelloAcked)
  BY <1>1 DEF RecvHelloAck, Runs
<1>3. session' \in Sessions /\ session'.exitCh = NoCode
  BY DEF RecvHelloAck, NoSession, Sessions
<1>4. /\ stdin' \in Stdins /\ stdin'.active /\ stdin'.typed = stdin.typed
      /\ stdin'.tty = stdin.tty /\ stdin'.ch = stdin.ch
  BY <1>1 DEF RecvHelloAck, Stdins
<1>5. link' = [link EXCEPT ![run.slot].down = Tail(link[run.slot].down)]
  BY Zenon DEF RecvHelloAck
<1>6. Tail(link[run.slot].down) \in Seq(DownFrames) /\ link[run.slot].up \in Seq(UpFrames)
  BY <1>1, QueueTypes
<1> QED BY <1>1, <1>2, <1>3, <1>4, <1>5, <1>6, RewiredFacts

\* The select has fired on exitCh or sshDone, or the 2 s after SHUTDOWN are over.
LEMMA SelectFacts ==
  ASSUME BaseInv, SelectExit \/ SelectDone \/ ShutdownEnds
  PROVE  /\ UNCHANGED <<cancelled, probe, pongCh, stdin, far, exitRead>>
         /\ run.phase \in {"live", "shutdown"}
         /\ run' \in Runs /\ run'.phase = "joining" /\ run'.slot = run.slot
         /\ run'.code = run.code /\ (run'.haveHelloAcked <=> run.haveHelloAcked)
         /\ run.slot \in Slots /\ Calmer(link') /\ link'[run.slot].proc = "dead"
         /\ session' \in Sessions
         /\ \/ session'.exitCh = session.exitCh
            \/ run'.result # NoCode
<1>1. CASE SelectExit
  <2>1. /\ UNCHANGED <<cancelled, probe, pongCh, stdin, far, exitRead>>
        /\ run.phase = "live" /\ session.exitCh # NoCode /\ Stops(session.exitCh)
        /\ session' = [session EXCEPT !.exitCh = NoCode] /\ session \in Sessions
    BY <1>1 DEF SelectExit, BaseInv
  <2>2. session' \in Sessions /\ session.exitCh \in {0, 132, 133, 135, 136, NoCode}
    BY <2>1 DEF Sessions
  <2> QED BY <2>1, <2>2, StopsFacts DEF InSession
<1>2. CASE SelectDone \/ ShutdownEnds
  <2>1. /\ UNCHANGED <<cancelled, session, probe, pongCh, stdin, far, exitRead>>
        /\ run.phase \in {"live", "shutdown"} /\ Stops(NoCode) /\ session \in Sessions
    BY <1>2 DEF SelectDone, ShutdownEnds, BaseInv
  <2>2. NoCode \in {0, 132, 133, 135, 136, NoCode} /\ InSession
    BY <2>1 DEF InSession
  <2> QED BY <2>1, <2>2, StopsFacts
<1> QED BY <1>1, <1>2

\* After ~. SHUTDOWN is written, or not.
LEMMA AbortFacts ==
  ASSUME BaseInv, SelectAbort
  PROVE  /\ UNCHANGED <<cancelled, session, probe, pongCh, stdin, far, exitRead>>
         /\ run.phase = "live" /\ run.slot \in Slots
         /\ run' \in Runs /\ run'.phase = "shutdown" /\ run'.slot = run.slot
         /\ run'.code = run.code /\ (run'.haveHelloAcked <=> run.haveHelloAcked)
         /\ \E q \in {link[run.slot].up, Append(link[run.slot].up, Shutdown)} :
              Rewired(link', run.slot, q, link[run.slot].down)
<1>1. /\ UNCHANGED <<cancelled, session, probe, pongCh, stdin, far, exitRead>>
      /\ run.phase = "live" /\ run.slot \in Slots /\ run \in Runs
      /\ link \in [Slots -> Links] /\ run' = [run EXCEPT !.phase = "shutdown"]
      /\ link' = link \/ link' = Written(run.slot, Shutdown)
  BY DEF SelectAbort, BaseInv, InSession
<1>2. /\ run' \in Runs /\ run'.phase = "shutdown" /\ run'.slot = run.slot
      /\ run'.code = run.code /\ (run'.haveHelloAcked <=> run.haveHelloAcked)
  BY <1>1 DEF Runs
<1>3. Rewired(link, run.slot, link[run.slot].up, link[run.slot].down)
  BY <1>1 DEF Rewired
<1>4. \E q \in {link[run.slot].up, Append(link[run.slot].up, Shutdown)} :
        Rewired(link', run.slot, q, link[run.slot].down)
  BY <1>1, <1>3, FrameTypes, WrittenFacts
<1> QED BY <1>1, <1>2, <1>4

\* The goroutines have ended, and runOnce returns.
LEMMA JoinFacts ==
  ASSUME BaseInv, Join
  PROVE  /\ UNCHANGED <<cancelled, link, probe, pongCh, stdin, far, exitRead>>
         /\ run.phase = "joining" /\ session' \in Sessions
         /\ session'.reader = "off" /\ session'.forwarder = "off" /\ session'.waiter = "off"
         /\ LateExit \in {0, 132, 133, 135, 136, NoCode} /\ Returns(TRUE, LateExit)
<1>1. run \in Runs /\ session \in Sessions
  BY DEF BaseInv
<1>2. LateExit \in {0, 132, 133, 135, 136, NoCode}
  BY <1>1 DEF LateExit, Runs, Sessions
<1>3. /\ session' \in Sessions
      /\ session'.reader = "off" /\ session'.forwarder = "off" /\ session'.waiter = "off"
  BY DEF Join, NoSession, Sessions
<1> QED BY <1>2, <1>3 DEF Join

-----------------------------------------------------------------------------
(* Steps of the session's goroutines, of the terminal and of the probe *)

\* readFrames has read a Pong or EXIT.
LEMMA ReadsFacts ==
  ASSUME BaseInv, ReaderReads
  PROVE  /\ UNCHANGED <<run, cancelled, stdin, far>>
         /\ InSession /\ run.slot \in Slots /\ link[run.slot].down # <<>>
         /\ Rewired(link', run.slot, link[run.slot].up, Tail(link[run.slot].down))
         /\ probe' \in Probes /\ probe'.phase = probe.phase /\ probe'.pc = probe.pc
         /\ session' \in Sessions
         /\ \/ /\ Head(link[run.slot].down).type = "pong"
               /\ pongCh' = TRUE /\ UNCHANGED <<session, exitRead>>
               /\ probe'.answered
                    <=> probe.answered \/ (probe.phase = "waiting" /\ probe.pc = run.slot)
            \/ /\ session'.exitCh # NoCode /\ exitRead' = TRUE /\ UNCHANGED <<pongCh, probe>>
<1> DEFINE n == run.slot
           f == Head(link[n].down)
<1>1. /\ session.reader = "on" /\ InSession /\ n \in Slots /\ link \in [Slots -> Links]
      /\ link[n].down # <<>> /\ probe \in Probes /\ session \in Sessions
      /\ UNCHANGED <<run, cancelled, stdin, far>>
  BY DEF BaseInv, ReaderReads
<1>2. /\ f \in DownFrames /\ Tail(link[n].down) \in Seq(DownFrames)
      /\ link[n].up \in Seq(UpFrames)
  BY <1>1, QueueTypes
<1>3. link' = [link EXCEPT ![n].down = Tail(link[n].down)]
  BY Zenon DEF ReaderReads
<1>4. Rewired(link', n, link[n].up, Tail(link[n].down))
  BY <1>1, <1>2, <1>3, RewiredFacts
<1>5. CASE /\ f.type = "pong" /\ pongCh' = TRUE /\ UNCHANGED <<session, exitRead>>
           /\ probe' = [probe EXCEPT !.answered =
                          @ \/ (probe.phase = "waiting" /\ probe.pc = n)]
  <2>1. PICK b \in BOOLEAN : b = (probe.answered \/ (probe.phase = "waiting" /\ probe.pc = n))
    OBVIOUS
  <2>2. probe' = [probe EXCEPT !.answered = b]
    BY <1>5, <2>1, Zenon
  <2>3. /\ probe' \in Probes /\ probe'.phase = probe.phase /\ probe'.pc = probe.pc
        /\ probe'.answered <=> b
    BY <1>1, <2>2 DEF Probes
  <2> QED BY <1>1, <1>4, <1>5, <2>1, <2>3
<1>6. CASE /\ session' = [session EXCEPT !.exitCh = f.arg, !.reader = "off"]
           /\ exitRead' = TRUE /\ UNCHANGED <<pongCh, probe>>
  <2>1. f.arg \in {0, 133, 135, 136} /\ f.arg # NoCode
    BY <1>2 DEF DownFrames, NoCode
  <2>2. session' \in Sessions /\ session'.exitCh = f.arg
    BY <1>1, <1>6, <2>1 DEF Sessions
  <2> QED BY <1>1, <1>4, <1>6, <2>1, <2>2
<1> QED BY <1>5, <1>6, Zenon DEF ReaderReads

\* A goroutine ends; sshCmd.Wait closes the pipe.
LEMMA EndsFacts ==
  ASSUME BaseInv, ReaderEnds \/ ForwardEnds \/ WaitReturns
  PROVE  /\ UNCHANGED <<run, cancelled, probe, pongCh, stdin, far, exitRead>>
         /\ InSession /\ session' \in Sessions /\ session'.exitCh = session.exitCh
         /\ Calmer(link')
<1>1. /\ UNCHANGED <<run, cancelled, probe, pongCh, stdin, far, exitRead>>
      /\ InSession /\ session \in Sessions /\ run.slot \in Slots
      /\ link \in [Slots -> Links]
  BY DEF BaseInv, ReaderEnds, ForwardEnds, WaitReturns
<1>2. session' \in Sessions /\ session'.exitCh = session.exitCh
  BY <1>1 DEF ReaderEnds, ForwardEnds, WaitReturns, Sessions
<1>3. Calmer(link')
  BY <1>1, CalmerFacts DEF ReaderEnds, ForwardEnds, WaitReturns
<1> QED BY <1>1, <1>2, <1>3

\* forwardStdin takes a keystroke: it is written, or lost.
LEMMA ForwardsFacts ==
  ASSUME BaseInv, Forwards
  PROVE  /\ UNCHANGED <<run, cancelled, probe, pongCh, far, exitRead>>
         /\ InSession /\ run.slot \in Slots /\ stdin.ch # <<>>
         /\ session' \in Sessions /\ session'.exitCh = session.exitCh
         /\ stdin' \in Stdins /\ stdin'.ch = Tail(stdin.ch) /\ Len(stdin'.ch) <= StdinCap
         /\ stdin'.tty = stdin.tty /\ stdin'.typed = stdin.typed
         /\ stdin'.active <=> stdin.active
         /\ \E q \in {link[run.slot].up, Append(link[run.slot].up, Key(Head(stdin.ch)))} :
              Rewired(link', run.slot, q, link[run.slot].down)
<1>1. /\ UNCHANGED <<run, cancelled, probe, pongCh, far, exitRead>>
      /\ InSession /\ run.slot \in Slots /\ stdin.ch # <<>> /\ stdin \in Stdins
      /\ session \in Sessions /\ link \in [Slots -> Links] /\ Len(stdin.ch) <= StdinCap
      /\ stdin' = [stdin EXCEPT !.ch = Tail(stdin.ch)]
  BY DEF BaseInv, Forwards
<1>2. stdin.ch \in Seq(Nat)
  BY <1>1 DEF Stdins
<1>3. Head(stdin.ch) \in Nat /\ Tail(stdin.ch) \in Seq(Nat) /\ Len(Tail(stdin.ch)) <= StdinCap
  BY <1>1, <1>2, Numbers
<1>4. /\ stdin' \in Stdins /\ stdin'.ch = Tail(stdin.ch)
      /\ stdin'.tty = stdin.tty /\ stdin'.typed = stdin.typed
      /\ stdin'.active <=> stdin.active
  BY <1>1, <1>3 DEF Stdins
<1>5. \/ link' = Written(run.slot, Key(Head(stdin.ch))) /\ UNCHANGED session
      \/ session' = [session EXCEPT !.forwarder = "off"] /\ UNCHANGED link
  BY DEF Forwards
<1>6. session' \in Sessions /\ session'.exitCh = session.exitCh
  BY <1>1, <1>5 DEF Sessions
<1>7. \E q \in {link[run.slot].up, Append(link[run.slot].up, Key(Head(stdin.ch)))} :
        Rewired(link', run.slot, q, link[run.slot].down)
  <2>1. Rewired(link, run.slot, link[run.slot].up, link[run.slot].down)
    BY <1>1 DEF Rewired
  <2>2. Key(Head(stdin.ch)) \in UpFrames
    BY <1>3, FrameTypes
  <2> QED BY <1>1, <1>5, <2>1, <2>2, WrittenFacts
<1> QED BY <1>1, <1>3, <1>4, <1>6, <1>7

\* Something is typed, and read.
LEMMA TerminalFacts ==
  ASSUME BaseInv, TypeKey \/ TypeEscape \/ StdinReads
  PROVE  /\ UNCHANGED <<run, link, session, probe, pongCh, far, exitRead>>
         /\ cancelled' \in BOOLEAN /\ stdin' \in Stdins /\ Len(stdin'.ch) <= StdinCap
         /\ stdin'.active <=> stdin.active
         /\ \/ /\ stdin'.typed = stdin.typed + 1 /\ stdin'.ch = stdin.ch
               /\ stdin'.tty = Append(stdin.tty, stdin.typed + 1)
            \/ /\ stdin'.typed = stdin.typed /\ stdin'.ch = stdin.ch
               /\ stdin'.tty = Append(stdin.tty, Escape)
            \/ /\ stdin'.typed = stdin.typed /\ stdin.tty # <<>> /\ Head(stdin.tty) \in Keys
               /\ stdin'.tty = Tail(stdin.tty)
               /\ stdin'.ch = Append(stdin.ch, Head(stdin.tty))
            \/ /\ stdin'.typed = stdin.typed /\ stdin.tty # <<>>
               /\ stdin'.tty = Tail(stdin.tty) /\ stdin'.ch = stdin.ch
<1>a. /\ stdin \in Stdins /\ stdin.tty \in Seq(Nat) /\ stdin.ch \in Seq(Nat)
      /\ stdin.typed \in 0..MaxEvents /\ MaxEvents \in Nat /\ Escape \in Nat
      /\ Len(stdin.ch) <= StdinCap /\ probe.wakes \in Nat /\ far.cuts \in Nat
      /\ cancelled \in BOOLEAN /\ StdinCap \in Nat
  BY Numbers DEF BaseInv, Stdins, Probes, Fars, Escape
<1>b. UNCHANGED <<run, link, session, probe, pongCh, far, exitRead>>
  BY DEF TypeKey, TypeEscape, StdinReads
<1>1. CASE TypeKey
  <2>1. stdin.typed + 1 \in 0..MaxEvents /\ stdin.typed + 1 \in Nat
    BY <1>1, <1>a DEF TypeKey, MayHappen
  <2>2. Append(stdin.tty, stdin.typed + 1) \in Seq(Nat)
    BY <1>a, <2>1
  <2>3. stdin' = [stdin EXCEPT !.typed = stdin.typed + 1,
                               !.tty = Append(stdin.tty, stdin.typed + 1)]
    BY <1>1, Zenon DEF TypeKey
  <2>4. /\ stdin' \in Stdins /\ stdin'.typed = stdin.typed + 1 /\ stdin'.ch = stdin.ch
        /\ stdin'.tty = Append(stdin.tty, stdin.typed + 1)
        /\ stdin'.active <=> stdin.active
    BY <1>a, <2>1, <2>2, <2>3 DEF Stdins
  <2>5. cancelled' = cancelled
    BY <1>1 DEF TypeKey
  <2> QED BY <1>a, <1>b, <2>4, <2>5
<1>2. CASE TypeEscape
  <2>1. Append(stdin.tty, Escape) \in Seq(Nat)
    BY <1>a
  <2>2. stdin' = [stdin EXCEPT !.abort = "typed", !.tty = Append(stdin.tty, Escape)]
    BY <1>2, Zenon DEF TypeEscape
  <2>3. /\ stdin' \in Stdins /\ stdin'.typed = stdin.typed /\ stdin'.ch = stdin.ch
        /\ stdin'.tty = Append(stdin.tty, Escape)
        /\ stdin'.active <=> stdin.active
    BY <1>a, <2>1, <2>2 DEF Stdins
  <2>4. cancelled' = cancelled
    BY <1>2 DEF TypeEscape
  <2> QED BY <1>a, <1>b, <2>3, <2>4
<1>3. CASE StdinReads
  <2>1. stdin.tty # <<>>
    BY <1>3 DEF StdinReads
  <2>2. Tail(stdin.tty) \in Seq(Nat) /\ Head(stdin.tty) \in Nat
    BY <1>a, <2>1
  <2>3. CASE /\ Head(stdin.tty) \in Keys /\ Len(stdin.ch) < StdinCap
             /\ stdin' = [stdin EXCEPT !.tty = Tail(stdin.tty),
                                       !.ch = Append(stdin.ch, Head(stdin.tty))]
             /\ UNCHANGED cancelled
    <3>1. /\ Append(stdin.ch, Head(stdin.tty)) \in Seq(Nat)
          /\ Len(Append(stdin.ch, Head(stdin.tty))) <= StdinCap
      BY <1>a, <2>2, <2>3
    <3>2. /\ stdin' \in Stdins /\ stdin'.typed = stdin.typed
          /\ stdin'.tty = Tail(stdin.tty)
          /\ stdin'.ch = Append(stdin.ch, Head(stdin.tty))
          /\ stdin'.active <=> stdin.active
      BY <1>a, <2>2, <2>3, <3>1 DEF Stdins
    <3> QED BY <1>a, <1>b, <2>1, <2>3, <3>1, <3>2
  <2>4. CASE /\ stdin' = [stdin EXCEPT !.tty = Tail(stdin.tty), !.abort = "heard"]
             /\ cancelled' = TRUE
    <3>1. /\ stdin' \in Stdins /\ stdin'.typed = stdin.typed
          /\ stdin'.tty = Tail(stdin.tty) /\ stdin'.ch = stdin.ch
          /\ stdin'.active <=> stdin.active
      BY <1>a, <2>2, <2>4 DEF Stdins
    <3> QED BY <1>a, <1>b, <2>1, <2>4, <3>1
  <2> QED BY <1>3, <2>3, <2>4, Zenon DEF StdinReads
<1> QED BY <1>1, <1>2, <1>3

\* The probe gives up, and kills the process that is current.
LEMMA ForceFacts ==
  ASSUME BaseInv, ForceReconnect
  PROVE  /\ probe' \in Probes /\ probe'.phase = "idle"
         /\ Calmer(link')
         /\ \A m \in Slots : m = run.slot /\ link'[m].proc = "up"
              => ~InSession /\ run.phase # "dial"
<1>1. /\ link \in [Slots -> Links] /\ probe \in Probes
      /\ InSession \/ run.phase = "dial" => run.slot \in Slots
  BY DEF BaseInv
<1>2. probe' \in Probes /\ probe'.phase = "idle"
  BY <1>1 DEF ForceReconnect, Probes
<1>3. CASE CurrentSSH # NoSlot /\ link[CurrentSSH].proc = "up"
  <2>1. link' = Dead(CurrentSSH)
    BY <1>3 DEF ForceReconnect
  <2>2. CurrentSSH = run.slot /\ run.slot \in Slots
    BY <1>1, <1>3 DEF CurrentSSH, InSession
  <2> QED BY <1>1, <1>2, <2>1, <2>2, CalmerFacts
<1>4. CASE ~(CurrentSSH # NoSlot /\ link[CurrentSSH].proc = "up")
  <2>1. link' = link
    BY <1>4 DEF ForceReconnect
  <2>2. InSession \/ run.phase = "dial" => CurrentSSH = run.slot
    BY DEF CurrentSSH, InSession
  <2>3. Calmer(link')
    BY <1>1, <2>1 DEF Calmer
  <2>4. InSession \/ run.phase = "dial" => run.slot # NoSlot
    BY <1>1, ClientAssumption DEF ClientAssumption
  <2> QED BY <1>2, <1>4, <2>1, <2>2, <2>3, <2>4
<1> QED BY <1>3, <1>4

\* The probe pings the connection it took, or gives up.
LEMMA PingsFacts ==
  ASSUME BaseInv, ProbePings
  PROVE  /\ UNCHANGED <<run, cancelled, session, pongCh, stdin, far, exitRead>>
         /\ probe.phase = "pinging" /\ probe.pc \in Slots
         /\ \/ /\ probe' \in Probes /\ probe'.phase = "waiting" /\ probe'.pc = probe.pc
               /\ probe'.answered <=> probe.answered
               /\ link[probe.pc].proc = "up"
               /\ \E q \in {link[probe.pc].up, Append(link[probe.pc].up, Ping)} :
                    Rewired(link', probe.pc, q, link[probe.pc].down)
            \/ ForceReconnect
<1>1. /\ UNCHANGED <<run, cancelled, session, pongCh, stdin, far, exitRead>>
      /\ probe.phase = "pinging" /\ probe.pc \in Slots /\ probe \in Probes
      /\ link \in [Slots -> Links]
  BY DEF BaseInv, ProbePings
<1>2. CASE link[probe.pc].proc = "up" /\ link' = Written(probe.pc, Ping)
           /\ probe' = [probe EXCEPT !.phase = "waiting"]
  <2>1. /\ probe' \in Probes /\ probe'.phase = "waiting" /\ probe'.pc = probe.pc
        /\ probe'.answered <=> probe.answered
    BY <1>1, <1>2 DEF Probes
  <2> QED BY <1>1, <1>2, <2>1, FrameTypes, WrittenFacts
<1>3. CASE ForceReconnect
  BY <1>1, <1>3
<1> QED BY <1>2, <1>3, Zenon DEF ProbePings

\* The probe takes the current connection, or has its Pong.
LEMMA TurnsFacts ==
  ASSUME BaseInv, ProbeStarts \/ ProbePong
  PROVE  /\ UNCHANGED <<run, cancelled, link, session, stdin, far, exitRead>>
         /\ probe' \in Probes /\ pongCh' = FALSE
         /\ \/ /\ probe.phase = "idle" /\ probe'.phase = "pinging"
               /\ probe'.pc = run.slot /\ InSession
            \/ /\ probe.phase = "waiting" /\ pongCh /\ probe'.phase = "idle"
<1>1. /\ UNCHANGED <<run, cancelled, link, session, stdin, far, exitRead>>
      /\ probe \in Probes
      /\ InSession => run.slot \in Slots
  BY DEF BaseInv, ProbeStarts, ProbePong
<1>2. CASE ProbeStarts
  <2>1. CurrentPC = run.slot /\ InSession
    BY <1>2 DEF ProbeStarts, CurrentPC, InSession
  <2>2. /\ probe' = [phase |-> "pinging", pc |-> run.slot, wakes |-> probe.wakes + 1,
                     answered |-> FALSE]
        /\ probe.phase = "idle" /\ pongCh' = FALSE
    BY <1>2, <2>1 DEF ProbeStarts, Drained
  <2>3. probe.wakes + 1 \in Nat
    BY <1>1 DEF Probes
  <2>4. probe' \in Probes /\ probe'.phase = "pinging" /\ probe'.pc = run.slot
    BY <1>1, <2>1, <2>2, <2>3 DEF Probes
  <2> QED BY <1>1, <2>1, <2>2, <2>4
<1>3. CASE ProbePong
  <2>1. probe' \in Probes /\ probe'.phase = "idle"
    BY <1>1, <1>3 DEF ProbePong, Probes
  <2> QED BY <1>1, <1>3, <2>1 DEF ProbePong
<1> QED BY <1>2, <1>3

-----------------------------------------------------------------------------
(* Types *)

\* What does not concern the far end keeps types when it is left alone.
LEMMA BaseFar ==
  ASSUME BaseInv, \/ Distant
                  \/ PtyWrite
                  \/ \E n \in Slots : FarReads(n)
  PROVE  BaseInv'
<1>0. BaseInv
  OBVIOUS
<1>1. /\ UNCHANGED <<run, cancelled, session, probe, pongCh, stdin, exitRead>>
      /\ link' \in [Slots -> Links] /\ far' \in Fars /\ Len(far'.input) <= InputCap
  <2>1. CASE Distant
    BY <2>1 DEF Distant, BaseInv
  <2>2. CASE PtyWrite
    BY <2>2, PtyFacts DEF BaseInv
  <2>3. CASE \E n \in Slots : FarReads(n)
    <3>1. PICK n \in Slots : FarReads(n)
      BY <2>3
    <3>2. UNCHANGED <<run, cancelled, session, probe, pongCh, stdin, exitRead>>
      BY <3>1, FarReadsFacts
    <3>3. far' \in Fars /\ Len(far'.input) <= InputCap
      <4>1. Len(far.input) <= InputCap
        BY DEF BaseInv
      <4> QED BY <3>1, <4>1, FarReadsFacts
    <3>4. link' \in [Slots -> Links]
      BY <3>1, FarReadsFacts DEF Rewired
    <3> QED BY <3>2, <3>3, <3>4
  <2> QED BY <2>1, <2>2, <2>3
<1> QED BY <1>0, <1>1 DEF BaseInv, InSession

\* Steps of run and runOnce keep the types.
LEMMA BaseRun ==
  ASSUME BaseInv, Run
  PROVE  BaseInv'
<1>0. BaseInv
  OBVIOUS
<1>1. CASE Start
  <2>1. run.phase = "start" /\ ~InSession
    BY <1>1, StartFacts DEF InSession
  <2>2. /\ UNCHANGED <<cancelled, session, probe, pongCh, stdin, exitRead>>
        /\ run' \in Runs
        /\ run'.phase = "done" \/ (run'.phase = "dial" /\ run'.slot \in Slots)
    BY <1>1, StartFacts
  <2>3. link' \in [Slots -> Links] /\ far' \in Fars /\ Len(far'.input) <= InputCap
    BY <1>1, StartFacts DEF BaseInv, SameKeys
  <2> QED BY <1>0, <2>1, <2>2, <2>3 DEF BaseInv, InSession
<1>2. CASE DialEnds
  <2>1. /\ UNCHANGED <<cancelled, session, probe, pongCh, stdin, far>>
        /\ run.phase = "dial" /\ Calmer(link') /\ exitRead' \in BOOLEAN
    BY <1>2, DialFacts
  <2>2. PICK result \in {0, 132, 133, 135, 136, NoCode} : Returns(FALSE, result)
    BY <1>2, DialFacts
  <2>3. run' \in Runs /\ run'.phase \in {"start", "done"}
    BY <2>2, ReturnsFacts DEF BaseInv
  <2> QED BY <1>0, <2>1, <2>3 DEF BaseInv, InSession, Calmer
<1>3. CASE RecvHelloAck
  <2>1. /\ UNCHANGED <<cancelled, probe, pongCh, far, exitRead>>
        /\ run' \in Runs /\ run'.phase = "live" /\ run'.slot \in Slots
        /\ session' \in Sessions /\ stdin' \in Stdins /\ stdin'.ch = stdin.ch
        /\ link' \in [Slots -> Links]
    BY <1>3, HelloFacts DEF Rewired
  <2> QED BY <1>0, <2>1 DEF BaseInv, InSession
<1>4. CASE SelectExit \/ SelectDone \/ ShutdownEnds
  <2>1. /\ UNCHANGED <<cancelled, probe, pongCh, stdin, far, exitRead>>
        /\ run' \in Runs /\ run'.phase = "joining" /\ run'.slot \in Slots
        /\ session' \in Sessions /\ link' \in [Slots -> Links]
    BY <1>4, SelectFacts DEF Calmer
  <2> QED BY <1>0, <2>1 DEF BaseInv, InSession
<1>5. CASE SelectAbort
  <2>1. /\ UNCHANGED <<cancelled, session, probe, pongCh, stdin, far, exitRead>>
        /\ run' \in Runs /\ run'.phase = "shutdown" /\ run'.slot \in Slots
        /\ link' \in [Slots -> Links]
    BY <1>5, AbortFacts DEF Rewired
  <2> QED BY <1>0, <2>1 DEF BaseInv, InSession
<1>6. CASE Join
  <2>1. /\ UNCHANGED <<cancelled, link, probe, pongCh, stdin, far, exitRead>>
        /\ session' \in Sessions /\ session'.reader = "off"
        /\ session'.forwarder = "off" /\ session'.waiter = "off"
    BY <1>6, JoinFacts
  <2>2. run' \in Runs /\ run'.phase \in {"start", "done"}
    BY <1>6, JoinFacts, ReturnsFacts DEF BaseInv
  <2> QED BY <1>0, <2>1, <2>2 DEF BaseInv, InSession
<1> QED BY <1>1, <1>2, <1>3, <1>4, <1>5, <1>6 DEF Run

\* Goroutines, terminal and probe keep the types.
LEMMA BaseRest ==
  ASSUME BaseInv, \/ Reader \/ WaitReturns \/ Forwarder
                  \/ StdinReads \/ TypeKey \/ TypeEscape
                  \/ ProbeStarts \/ ProbePings \/ ProbePong \/ ProbeTimesOut
  PROVE  BaseInv'
<1>0. BaseInv
  OBVIOUS
<1>1. CASE ReaderReads
  <2>1. /\ UNCHANGED <<run, cancelled, stdin, far>> /\ InSession
        /\ probe' \in Probes /\ probe'.phase = probe.phase /\ probe'.pc = probe.pc
        /\ session' \in Sessions /\ link' \in [Slots -> Links]
    BY <1>1, ReadsFacts DEF Rewired
  <2>2. pongCh' \in BOOLEAN /\ exitRead' \in BOOLEAN
    BY <1>1, ReadsFacts DEF BaseInv
  <2> QED BY <1>0, <2>1, <2>2 DEF BaseInv, InSession
<1>2. CASE ReaderEnds \/ ForwardEnds \/ WaitReturns
  <2>1. /\ UNCHANGED <<run, cancelled, probe, pongCh, stdin, far, exitRead>> /\ InSession
        /\ session' \in Sessions /\ link' \in [Slots -> Links]
    BY <1>2, EndsFacts DEF Calmer
  <2> QED BY <1>0, <2>1 DEF BaseInv, InSession
<1>3. CASE Forwards
  <2>1. /\ UNCHANGED <<run, cancelled, probe, pongCh, far, exitRead>> /\ InSession
        /\ session' \in Sessions /\ link' \in [Slots -> Links]
        /\ stdin' \in Stdins /\ Len(stdin'.ch) <= StdinCap
    BY <1>3, ForwardsFacts DEF Rewired
  <2> QED BY <1>0, <2>1 DEF BaseInv, InSession
<1>4. CASE StdinReads \/ TypeKey \/ TypeEscape
  <2>1. /\ UNCHANGED <<run, link, session, probe, pongCh, far, exitRead>>
        /\ cancelled' \in BOOLEAN /\ stdin' \in Stdins /\ Len(stdin'.ch) <= StdinCap
    BY <1>4, TerminalFacts
  <2> QED BY <1>0, <2>1 DEF BaseInv, InSession
<1>5. CASE ProbeStarts \/ ProbePong
  <2>1. /\ UNCHANGED <<run, cancelled, link, session, stdin, far, exitRead>>
        /\ probe' \in Probes /\ pongCh' = FALSE
        /\ probe'.phase = "idle" \/ (probe'.pc = run.slot /\ InSession)
    BY <1>5, TurnsFacts
  <2> QED BY <1>0, <2>1 DEF BaseInv, InSession
<1>6. CASE ProbePings \/ ProbeTimesOut
  <2>1. /\ UNCHANGED <<run, cancelled, session, pongCh, stdin, far, exitRead>>
        /\ \/ ForceReconnect
           \/ /\ probe' \in Probes /\ probe'.pc \in Slots
              /\ link' \in [Slots -> Links]
    BY <1>6, PingsFacts DEF ProbeTimesOut, Rewired
  <2>2. probe' \in Probes /\ link' \in [Slots -> Links]
        /\ (probe'.phase = "idle" \/ probe'.pc \in Slots)
    BY <2>1, ForceFacts DEF Calmer
  <2> QED BY <1>0, <2>1, <2>2 DEF BaseInv, InSession
<1> QED BY <1>1, <1>2, <1>3, <1>4, <1>5, <1>6 DEF Reader, Forwarder

\* Every step is one of these.
LEMMA Steps ==
  ASSUME BaseInv, Next
  PROVE  \/ Distant \/ PtyWrite \/ (\E n \in Slots : FarReads(n))
         \/ Run \/ Reader \/ WaitReturns \/ Forwarder
         \/ StdinReads \/ TypeKey \/ TypeEscape
         \/ ProbeStarts \/ ProbePings \/ ProbePong \/ ProbeTimesOut
BY WireFacts, ShellFacts DEF Next, Served

\* Nothing has been done.
LEMMA BaseInit == Init => BaseInv
<1> SUFFICES ASSUME Init PROVE BaseInv
  OBVIOUS
<1>1. run \in Runs /\ run.phase = "start"
  BY DEF Init, Runs
<1>2. link \in [Slots -> Links]
  <2>1. <<>> \in Seq(UpFrames) /\ <<>> \in Seq(DownFrames)
    OBVIOUS
  <2>2. NoLink \in Links
    BY <2>1 DEF NoLink, Links
  <2> QED BY <2>2 DEF Init
<1>3. /\ session \in Sessions /\ session.reader = "off" /\ session.forwarder = "off"
      /\ session.waiter = "off"
  BY DEF Init, NoSession, Sessions
<1>4. probe \in Probes /\ probe.phase = "idle"
  BY DEF Init, Probes
<1>5. stdin \in Stdins /\ Len(stdin.ch) = 0
  <2>1. <<>> \in Seq(Nat) /\ 0 \in 0..MaxEvents /\ Len(<<>>) = 0
    BY Numbers
  <2> QED BY <2>1 DEF Init, Stdins
<1>6. far \in Fars /\ Len(far.input) = 0
  <2>1. <<>> \in Seq(Items) /\ Len(<<>>) = 0
    OBVIOUS
  <2> QED BY <2>1 DEF Init, Fars, Conns, States
<1>7. cancelled \in BOOLEAN /\ pongCh \in BOOLEAN /\ exitRead \in BOOLEAN
  BY DEF Init
<1> QED BY <1>1, <1>2, <1>3, <1>4, <1>5, <1>6, <1>7, Numbers DEF BaseInv, InSession

\* Types hold in every behaviour.
LEMMA BaseAlways == Spec => []BaseInv
<1>1. ASSUME BaseInv, Next PROVE BaseInv'
  BY <1>1, Steps, BaseFar, BaseRun, BaseRest
<1>2. BaseInv /\ UNCHANGED vars => BaseInv'
  BY DEF vars, BaseInv, InSession
<1> QED BY <1>1, <1>2, BaseInit, PTL DEF Spec

\* TypeOK: records and queues hold what they should, and the two channels of
\* keystrokes no more than their capacity.
THEOREM TypeCorrect == Spec => []TypeOK
<1>1. BaseInv => TypeOK
  <2> SUFFICES ASSUME BaseInv PROVE TypeOK
    OBVIOUS
  <2>1. /\ run \in [phase : {"start", "dial", "live", "shutdown", "joining", "done"},
                    slot : Slots \cup {NoSlot}, haveHelloAcked : BOOLEAN,
                    result : Codes \cup {NoCode}, code : Codes \cup {NoCode}]
        /\ session \in [reader : {"off", "on"}, forwarder : {"off", "on"},
                        waiter : {"off", "on", "done"}, exitCh : Codes \cup {NoCode}]
    BY DEF BaseInv, Runs, Sessions, Codes, ShellCode, OtherMajor
  <2>2. {cancelled, pongCh, exitRead} \subseteq BOOLEAN
    BY Zenon DEF BaseInv
  <2>3. ASSUME NEW n \in Slots
        PROVE  /\ link[n].proc \in {"none", "up", "dead"}
               /\ \A i \in DOMAIN link[n].down :
                    link[n].down[i].type \in {"ack", "pong", "exit"}
               /\ \A i \in DOMAIN link[n].up :
                    link[n].up[i].type \in {"stdin", "ping", "shutdown"}
               /\ far.conn[n] \in {"none", "hello", "acked", "active", "closed"}
    <3>1. link[n] \in Links /\ far.conn \in [Slots -> Conns]
      BY DEF BaseInv, Fars
    <3>2. link[n].up \in Seq(UpFrames) /\ link[n].down \in Seq(DownFrames)
      BY <3>1 DEF Links
    <3>3. /\ \A i \in DOMAIN link[n].up : link[n].up[i] \in UpFrames
          /\ \A i \in DOMAIN link[n].down : link[n].down[i] \in DownFrames
      BY <3>2
    <3> QED BY <3>1, <3>3 DEF Links, Conns, UpFrames, DownFrames
  <2>4. /\ probe.phase \in {"idle", "pinging", "waiting"}
        /\ Len(stdin.ch) <= StdinCap /\ Len(far.input) <= InputCap
        /\ far.state \in {"none", "alive", "exiting", "kept", "gone"}
    BY DEF BaseInv, Probes, Fars, States
  <2> QED BY <2>1, <2>2, <2>3, <2>4 DEF TypeOK
<1> QED BY <1>1, BaseAlways, PTL

-----------------------------------------------------------------------------
(* What run decides *)

\* An EXIT that was read is in exitCh or in runOnce's result until run ends; and
\* the terminal is active in a session, and from the first one on.
DecideInv ==
  /\ exitRead => \/ run.phase = "done"
                 \/ InSession /\ session.exitCh # NoCode
                 \/ run.phase = "joining" /\ run.result # NoCode
  /\ run.code # NoCode => run.phase = "done"
  /\ run.code = 1 => ~stdin.active
  /\ run.code = 137 => stdin.active
  /\ stdin.active => run.haveHelloAcked \/ InSession
  /\ run.haveHelloAcked \/ InSession => stdin.active

\* Steps of run and runOnce keep this.
LEMMA DecideRun ==
  ASSUME BaseInv, DecideInv, Run
  PROVE  DecideInv'
<1>0. BaseInv /\ DecideInv
  OBVIOUS
<1>1. CASE Start
  <2>1. /\ UNCHANGED <<session, stdin, exitRead>> /\ run.phase = "start"
        /\ run'.haveHelloAcked <=> run.haveHelloAcked
        /\ \/ run'.phase = "done" /\ run'.code = Aborted
           \/ run'.phase = "dial" /\ run'.code = run.code
    BY <1>1, StartFacts
  <2> QED BY <1>0, <2>1 DEF DecideInv, InSession, Aborted
<1>2. CASE DialEnds
  <2>1. UNCHANGED <<session, stdin>> /\ run.phase = "dial" /\ run \in Runs
    BY <1>2, DialFacts DEF BaseInv
  <2>2. PICK result \in {0, 132, 133, 135, 136, NoCode} :
          Returns(FALSE, result) /\ (exitRead' => exitRead \/ result # NoCode)
    BY <1>2, DialFacts
  <2>3. /\ run'.phase \in {"start", "done"}
        /\ run'.haveHelloAcked <=> run.haveHelloAcked
        /\ result # NoCode => run'.phase = "done"
        /\ run'.code # NoCode => run'.phase = "done"
        /\ run'.code = 1 => ~run'.haveHelloAcked
        /\ run'.code = 137 => run'.haveHelloAcked
    BY <2>1, <2>2, ReturnsFacts
  <2> QED BY <1>0, <2>1, <2>2, <2>3 DEF DecideInv, InSession
<1>3. CASE RecvHelloAck
  <2>1. /\ UNCHANGED exitRead /\ run.phase = "dial" /\ run'.phase = "live"
        /\ run'.code = run.code /\ stdin'.active
    BY <1>3, HelloFacts
  <2> QED BY <1>0, <2>1 DEF DecideInv, InSession, NoCode
<1>4. CASE SelectExit \/ SelectDone \/ ShutdownEnds
  <2>1. /\ UNCHANGED <<stdin, exitRead>> /\ run.phase \in {"live", "shutdown"}
        /\ run'.phase = "joining" /\ run'.code = run.code
        /\ session'.exitCh = session.exitCh \/ run'.result # NoCode
    BY <1>4, SelectFacts
  <2> QED BY <1>0, <2>1 DEF DecideInv, InSession
<1>5. CASE SelectAbort
  <2>1. /\ UNCHANGED <<session, stdin, exitRead>> /\ run.phase = "live"
        /\ run'.phase = "shutdown" /\ run'.code = run.code
    BY <1>5, AbortFacts
  <2> QED BY <1>0, <2>1 DEF DecideInv, InSession
<1>6. CASE Join
  <2>1. /\ UNCHANGED <<stdin, exitRead>> /\ run.phase = "joining" /\ run \in Runs
        /\ LateExit \in {0, 132, 133, 135, 136, NoCode} /\ Returns(TRUE, LateExit)
    BY <1>6, JoinFacts DEF BaseInv
  <2>2. /\ run'.phase \in {"start", "done"}
        /\ run'.haveHelloAcked
        /\ LateExit # NoCode => run'.phase = "done"
        /\ run'.code # NoCode => run'.phase = "done"
        /\ run'.code = 1 => ~run'.haveHelloAcked
    BY <2>1, ReturnsFacts
  <2>3. exitRead => LateExit # NoCode
    BY <1>0, <2>1 DEF DecideInv, LateExit, InSession
  <2>4. stdin.active
    BY <1>0, <2>1 DEF DecideInv, InSession
  <2> QED BY <1>0, <2>1, <2>2, <2>3, <2>4 DEF DecideInv, InSession
<1> QED BY <1>1, <1>2, <1>3, <1>4, <1>5, <1>6 DEF Run

\* So does every step.
LEMMA DecideStep ==
  ASSUME BaseInv, DecideInv, Next
  PROVE  DecideInv'
<1>0. BaseInv /\ DecideInv
  OBVIOUS
<1>1. ASSUME UNCHANGED <<run, exitRead>>, session'.exitCh = session.exitCh,
             stdin'.active <=> stdin.active
      PROVE  DecideInv'
  BY <1>0, <1>1 DEF DecideInv, InSession
<1>2. CASE Distant
  BY <1>1, <1>2 DEF Distant
<1>3. CASE PtyWrite
  BY <1>1, <1>3, PtyFacts
<1>4. CASE \E n \in Slots : FarReads(n)
  BY <1>1, <1>4, FarReadsFacts
<1>5. CASE ReaderReads
  <2>1. /\ UNCHANGED <<run, stdin>> /\ InSession
        /\ UNCHANGED <<session, exitRead>> \/ session'.exitCh # NoCode
    BY <1>5, ReadsFacts
  <2> QED BY <1>0, <1>1, <2>1 DEF DecideInv, InSession
<1>6. CASE ReaderEnds \/ ForwardEnds \/ WaitReturns
  BY <1>1, <1>6, EndsFacts
<1>7. CASE Forwards
  BY <1>1, <1>7, ForwardsFacts
<1>8. CASE StdinReads \/ TypeKey \/ TypeEscape
  BY <1>1, <1>8, TerminalFacts
<1>9. CASE ProbeStarts \/ ProbePong
  BY <1>1, <1>9, TurnsFacts
<1>10. CASE ProbePings \/ ProbeTimesOut
  <2>1. UNCHANGED <<run, session, stdin, exitRead>>
    BY <1>10 DEF ProbePings, ProbeTimesOut
  <2> QED BY <1>1, <2>1
<1> QED BY <1>2, <1>3, <1>4, <1>5, <1>6, <1>7, <1>8, <1>9, <1>10, Steps, DecideRun
        DEF Reader, Forwarder

\* RunDecidesRightly: run never goes round again with an EXIT that was read, and
\* says of the session it had, or did not have, what is true.
THEOREM RunDecides == Spec => []RunDecidesRightly
<1>1. Init => DecideInv
  BY DEF Init, DecideInv, InSession, NoCode
<1>2. DecideInv /\ UNCHANGED vars => DecideInv'
  BY DEF vars, DecideInv, InSession
<1>3. DecideInv => RunDecidesRightly
  BY DEF DecideInv, RunDecidesRightly, ExitNotRetried, GivesUpHonestly, InSession
<1> QED BY <1>1, <1>2, <1>3, DecideStep, BaseAlways, PTL DEF Spec

-----------------------------------------------------------------------------
(* Ping and Pong *)

\* Nothing of a probe is under way on a connection; at most one Ping or Pong is.
Quiet(n) == ~Has(link[n].up, "ping") /\ ~Has(link[n].down, "pong")
OneAtMost(n) ==
  /\ ~Twice(link[n].up, "ping") /\ ~Twice(link[n].down, "pong")
  /\ ~Has(link[n].up, "ping") \/ ~Has(link[n].down, "pong")

\* Only the current process may be up, and nothing of a probe is under way on it
\* but what the present probe has sent there and has not been answered.
ProbeInv ==
  /\ \A n \in Slots : link[n].proc = "up" =>
       n = run.slot /\ run.phase \in {"dial", "live", "shutdown"}
  /\ \A n \in Slots : n = run.slot /\ probe.phase # "idle" /\ probe.pc # n => Quiet(n)
  /\ \A n \in Slots : link[n].proc = "up" /\ probe.phase = "idle" => Quiet(n)
  /\ \A n \in Slots : link[n].proc = "up" /\ probe.phase = "pinging" /\ probe.pc = n
       => Quiet(n) /\ ~pongCh
  /\ \A n \in Slots : link[n].proc = "up" /\ probe.phase = "waiting" /\ probe.pc = n
       => OneAtMost(n) /\ (pongCh => Quiet(n))
  /\ PongIsFresh

\* It does not matter to it that links become calmer, or frames of other kinds
\* come and go.
LEMMA ProbeKept ==
  ASSUME ProbeInv, UNCHANGED <<pongCh, probe>>, run'.slot = run.slot,
         \A n \in Slots :
           /\ link'[n].proc = "up" =>
                link[n].proc = "up" /\ run'.phase \in {"dial", "live", "shutdown"}
           /\ Has(link'[n].up, "ping") => Has(link[n].up, "ping")
           /\ Twice(link'[n].up, "ping") => Twice(link[n].up, "ping")
           /\ Has(link'[n].down, "pong") => Has(link[n].down, "pong")
           /\ Twice(link'[n].down, "pong") => Twice(link[n].down, "pong")
  PROVE  ProbeInv'
<1>1. \A n \in Slots : /\ Quiet(n) => Quiet(n)'
                       /\ OneAtMost(n) => OneAtMost(n)'
  BY DEF Quiet, OneAtMost
<1> QED BY <1>1, Zenon DEF ProbeInv, PongIsFresh

\* Frames of other kinds do not count.
LEMMA OthersQuiet ==
  ASSUME link \in [Slots -> Links], NEW n \in Slots, NEW up, NEW down,
         Rewired(link', n, up, down),
         \/ up = link[n].up
         \/ link[n].up # <<>> /\ up = Tail(link[n].up)
         \/ \E f \in UpFrames : f.type # "ping" /\ up = Append(link[n].up, f),
         \/ down = link[n].down
         \/ link[n].down # <<>> /\ down = Tail(link[n].down)
  PROVE  \A m \in Slots :
           /\ link'[m].proc = "up" => link[m].proc = "up"
           /\ Has(link'[m].up, "ping") => Has(link[m].up, "ping")
           /\ Twice(link'[m].up, "ping") => Twice(link[m].up, "ping")
           /\ Has(link'[m].down, "pong") => Has(link[m].down, "pong")
           /\ Twice(link'[m].down, "pong") => Twice(link[m].down, "pong")
<1>1. link[n].up \in Seq(UpFrames) /\ link[n].down \in Seq(DownFrames)
  BY QueueTypes
<1>2. /\ Has(up, "ping") => Has(link[n].up, "ping")
      /\ Twice(up, "ping") => Twice(link[n].up, "ping")
  <2> DEFINE u == link[n].up
  <2>1. u \in Seq(UpFrames)
    BY <1>1
  <2> HIDE DEF u
  <2>2. CASE up = u
    BY <2>2 DEF u
  <2>3. CASE u # <<>> /\ up = Tail(u)
    <3>1. /\ Has(Tail(u), "ping") => Has(u, "ping")
          /\ Twice(Tail(u), "ping") => Twice(u, "ping")
      BY <2>1, <2>3, TailHolds
    <3> QED BY <2>3, <3>1 DEF u
  <2>4. ASSUME NEW f \in UpFrames, f.type # "ping", up = Append(u, f)
        PROVE  (Has(up, "ping") => Has(u, "ping")) /\ (Twice(up, "ping") => Twice(u, "ping"))
    <3>1. /\ Has(Append(u, f), "ping") => Has(u, "ping") \/ f.type = "ping"
          /\ Twice(Append(u, f), "ping") => Twice(u, "ping") \/ (Has(u, "ping") /\ f.type = "ping")
      BY <2>1, AppendHolds
    <3> QED BY <2>4, <3>1
  <2> QED BY <2>2, <2>3, <2>4 DEF u
<1>3. /\ Has(down, "pong") => Has(link[n].down, "pong")
      /\ Twice(down, "pong") => Twice(link[n].down, "pong")
  BY <1>1, TailHolds
<1> QED BY <1>2, <1>3 DEF Rewired

\* A new attempt begins with empty queues, and no other process is up.
LEMMA ProbeStart ==
  ASSUME BaseInv, ProbeInv, Start
  PROVE  ProbeInv'
<1>0. ProbeInv /\ run.phase = "start" /\ UNCHANGED <<pongCh, probe>>
  BY StartFacts
<1>1. \A n \in Slots : link[n].proc # "up"
  BY <1>0 DEF ProbeInv
<1>2. CASE UNCHANGED link /\ run'.slot = run.slot
  BY <1>0, <1>1, <1>2, ProbeKept
<1>3. CASE /\ run'.phase = "dial" /\ run'.slot \in Slots
           /\ link'[run'.slot].up = <<>> /\ link'[run'.slot].down = <<>>
           /\ \A m \in Slots \ {run'.slot} : link'[m].proc = "up" => link[m].proc = "up"
  <2>1. ~Has(link'[run'.slot].up, "ping") /\ ~Has(link'[run'.slot].down, "pong")
    BY <1>3, EmptyHolds
  <2>2. \A n \in Slots : link'[n].proc = "up" => n = run'.slot
    BY <1>1, <1>3
  <2>3. PongIsFresh'
    BY <1>0 DEF ProbeInv, PongIsFresh
  <2>4. \A n \in Slots : n = run'.slot => Quiet(n)'
    BY <2>1 DEF Quiet
  <2>5. ASSUME NEW n \in Slots, link'[n].proc = "up", probe.phase # "idle", probe.pc = n
        PROVE  FALSE
    BY <1>0, <1>3, <2>2, <2>5, StartFacts
  <2> QED BY <1>0, <1>3, <2>2, <2>3, <2>4, <2>5 DEF ProbeInv
<1> QED BY <1>2, <1>3, StartFacts

\* The daemon reads a frame: a Ping becomes a Pong, or is lost.
LEMMA ProbeFarReads ==
  ASSUME BaseInv, ProbeInv, NEW n \in Slots, FarReads(n)
  PROVE  ProbeInv'
<1> DEFINE up == link[n].up
           down == link[n].down
<1>0. /\ ProbeInv /\ UNCHANGED <<run, pongCh, probe>> /\ up # <<>>
      /\ link \in [Slots -> Links] /\ up \in Seq(UpFrames) /\ down \in Seq(DownFrames)
  BY FarReadsFacts, QueueTypes DEF BaseInv
<1>1. CASE Rewired(link', n, Tail(up), down)
  <2>1. \A m \in Slots :
          /\ link'[m].proc = "up" => link[m].proc = "up"
          /\ Has(link'[m].up, "ping") => Has(link[m].up, "ping")
          /\ Twice(link'[m].up, "ping") => Twice(link[m].up, "ping")
          /\ Has(link'[m].down, "pong") => Has(link[m].down, "pong")
          /\ Twice(link'[m].down, "pong") => Twice(link[m].down, "pong")
    BY <1>0, <1>1, OthersQuiet
  <2>2. \A m \in Slots : link'[m].proc = "up" => run'.phase \in {"dial", "live", "shutdown"}
    BY <1>0, <2>1 DEF ProbeInv
  <2> QED BY <1>0, <2>1, <2>2, ProbeKept
<1>2. CASE /\ Head(up).type = "ping"
           /\ \E q \in {down, Append(down, Pong)} : Rewired(link', n, Tail(up), q)
  <2>1. PICK q \in {down, Append(down, Pong)} : Rewired(link', n, Tail(up), q)
    BY <1>2
  <2>2. /\ Has(up, "ping") /\ (Has(Tail(up), "ping") => Twice(up, "ping"))
        /\ Twice(Tail(up), "ping") => Twice(up, "ping")
    BY <1>0, <1>2, TailHolds
  <2>3. Has(down, "pong") \/ ~Twice(q, "pong") \/ Twice(down, "pong")
    <3>1. CASE q = down
      BY <3>1
    <3>2. CASE q = Append(down, Pong)
      <4>1. Twice(Append(down, Pong), "pong")
              => Twice(down, "pong") \/ (Has(down, "pong") /\ Pong.type = "pong")
        BY <1>0, FrameTypes, AppendHolds
      <4> QED BY <3>2, <4>1
    <3> QED BY <2>1, <3>1, <3>2
  <2>4. ~Quiet(n)
    BY <2>2 DEF Quiet
  <2>5. OneAtMost(n) => OneAtMost(n)'
    <3>1. SUFFICES ASSUME OneAtMost(n) PROVE OneAtMost(n)'
      OBVIOUS
    <3>2. link'[n].up = Tail(up) /\ link'[n].down = q
      BY <2>1 DEF Rewired
    <3>3. ~Twice(up, "ping") /\ ~Has(down, "pong") /\ ~Twice(down, "pong")
      BY <2>2, <3>1 DEF OneAtMost
    <3>4. ~Has(Tail(up), "ping") /\ ~Twice(Tail(up), "ping") /\ ~Twice(q, "pong")
      BY <2>2, <2>3, <3>3
    <3> QED BY <3>2, <3>4 DEF OneAtMost
  <2>6. \A m \in Slots \ {n} : /\ link'[m] = link[m]
                               /\ Quiet(m) => Quiet(m)'
                               /\ OneAtMost(m) => OneAtMost(m)'
    BY <2>1 DEF Rewired, Quiet, OneAtMost
  <2>7. \A m \in Slots : link'[m].proc = link[m].proc
    BY <2>1 DEF Rewired
  <2> QED BY <1>0, <2>4, <2>5, <2>6, <2>7 DEF ProbeInv, PongIsFresh
<1> QED BY <1>1, <1>2, FarReadsFacts

\* readFrames takes a Pong.
LEMMA ProbeReads ==
  ASSUME BaseInv, ProbeInv, ReaderReads
  PROVE  ProbeInv'
<1> DEFINE n == run.slot
           up == link[n].up
           down == link[n].down
<1>0. /\ ProbeInv /\ UNCHANGED run /\ down # <<>> /\ n \in Slots
      /\ link \in [Slots -> Links] /\ up \in Seq(UpFrames) /\ down \in Seq(DownFrames)
      /\ probe'.phase = probe.phase /\ probe'.pc = probe.pc
      /\ Rewired(link', n, up, Tail(down))
  BY ReadsFacts, QueueTypes DEF BaseInv
<1>1. \A m \in Slots :
        /\ link'[m].proc = "up" => link[m].proc = "up"
        /\ Has(link'[m].up, "ping") => Has(link[m].up, "ping")
        /\ Twice(link'[m].up, "ping") => Twice(link[m].up, "ping")
        /\ Has(link'[m].down, "pong") => Has(link[m].down, "pong")
        /\ Twice(link'[m].down, "pong") => Twice(link[m].down, "pong")
  BY <1>0, OthersQuiet
<1>2. CASE UNCHANGED <<pongCh, probe>>
  <2>1. \A m \in Slots : link'[m].proc = "up" => run'.phase \in {"dial", "live", "shutdown"}
    BY <1>0, <1>1 DEF ProbeInv
  <2> QED BY <1>0, <1>1, <1>2, <2>1, ProbeKept
<1>3. CASE /\ Head(down).type = "pong" /\ pongCh' = TRUE
           /\ probe'.answered
                <=> probe.answered \/ (probe.phase = "waiting" /\ probe.pc = n)
  <2>1. Has(down, "pong") /\ (Has(Tail(down), "pong") => Twice(down, "pong"))
    BY <1>0, <1>3, TailHolds
  <2>2. ~Quiet(n)
    BY <2>1 DEF Quiet
  <2>3. probe.phase = "idle" \/ probe.pc = n
    BY <1>0, <2>2 DEF ProbeInv
  <2>4. OneAtMost(n) => OneAtMost(n)' /\ Quiet(n)'
    <3>1. SUFFICES ASSUME OneAtMost(n) PROVE OneAtMost(n)' /\ Quiet(n)'
      OBVIOUS
    <3>2. link'[n].up = up /\ link'[n].down = Tail(down)
      BY <1>0 DEF Rewired
    <3>3. ~Has(up, "ping") /\ ~Twice(up, "ping") /\ ~Twice(down, "pong")
      BY <2>1, <3>1 DEF OneAtMost
    <3>4. ~Has(Tail(down), "pong") /\ ~Twice(Tail(down), "pong")
      BY <1>0, <1>1, <2>1, <3>2, <3>3
    <3>5. n' = n
      BY <1>0
    <3> QED BY <3>2, <3>3, <3>4, <3>5 DEF OneAtMost, Quiet
  <2>5. PongIsFresh'
    BY <1>0, <1>3, <2>3 DEF PongIsFresh
  <2>6. \A m \in Slots : link'[m].proc = "up" => m = n /\ run.phase \in {"dial", "live", "shutdown"}
    BY <1>0, <1>1 DEF ProbeInv
  <2>7. ASSUME NEW m \in Slots, link'[m].proc = "up"
        PROVE  m = n /\ probe.phase = "waiting" /\ probe.pc = n /\ OneAtMost(n)' /\ Quiet(n)'
    BY <1>0, <1>1, <2>2, <2>3, <2>4, <2>6, <2>7 DEF ProbeInv, BaseInv, Probes
  <2>8. ASSUME NEW m \in Slots, m = run'.slot, probe'.phase # "idle", probe'.pc # m
        PROVE  Quiet(m)'
    BY <1>0, <2>3, <2>8
  <2> QED BY <1>0, <2>5, <2>6, <2>7, <2>8 DEF ProbeInv
<1> QED BY <1>2, <1>3, ReadsFacts

\* The probe takes a connection, pings it, has its Pong, or kills the process.
LEMMA ProbeTurns ==
  ASSUME BaseInv, ProbeInv, ProbeStarts \/ ProbePings \/ ProbePong \/ ProbeTimesOut
  PROVE  ProbeInv'
<1>0. ProbeInv /\ link \in [Slots -> Links]
  BY DEF BaseInv
<1>1. CASE ProbeStarts \/ ProbePong
  <2>1. /\ UNCHANGED <<run, link>> /\ pongCh' = FALSE
        /\ \/ /\ probe.phase = "idle" /\ probe'.phase = "pinging" /\ probe'.pc = run.slot
           \/ /\ probe.phase = "waiting" /\ pongCh /\ probe'.phase = "idle"
    BY <1>1, TurnsFacts
  <2>2. \A m \in Slots : Quiet(m) => Quiet(m)'
    BY <2>1 DEF Quiet
  <2>3. CASE probe.phase = "idle" /\ probe'.phase = "pinging" /\ probe'.pc = run.slot
    BY <1>0, <2>1, <2>2, <2>3 DEF ProbeInv, PongIsFresh
  <2>4. CASE probe.phase = "waiting" /\ pongCh /\ probe'.phase = "idle"
    BY <1>0, <2>1, <2>2, <2>4 DEF ProbeInv, PongIsFresh
  <2> QED BY <2>1, <2>3, <2>4
<1>2. ASSUME ForceReconnect, UNCHANGED <<run, pongCh>> PROVE ProbeInv'
  <2>1. /\ probe'.phase = "idle" /\ Calmer(link')
        /\ \A m \in Slots : m = run.slot /\ link'[m].proc = "up"
             => ~InSession /\ run.phase # "dial"
    BY <1>2, ForceFacts
  <2>2. ASSUME NEW m \in Slots PROVE link'[m].proc # "up"
    BY <1>0, <2>1 DEF ProbeInv, Calmer, InSession
  <2> QED BY <2>1, <2>2 DEF ProbeInv, PongIsFresh
<1>3. CASE ProbeTimesOut
  BY <1>2, <1>3 DEF ProbeTimesOut
<1>4. CASE ProbePings
  <2>1. UNCHANGED <<run, pongCh>> /\ probe.phase = "pinging" /\ probe.pc \in Slots
    BY <1>4, PingsFacts
  <2>2. CASE ForceReconnect
    BY <1>2, <2>1, <2>2
  <2>3. CASE /\ probe'.phase = "waiting" /\ probe'.pc = probe.pc /\ link[probe.pc].proc = "up"
             /\ \E q \in {link[probe.pc].up, Append(link[probe.pc].up, Ping)} :
                  Rewired(link', probe.pc, q, link[probe.pc].down)
    <3> DEFINE n == probe.pc
    <3>1. PICK q \in {link[n].up, Append(link[n].up, Ping)} :
            Rewired(link', n, q, link[n].down)
      BY <2>3
    <3>2. n = run.slot /\ Quiet(n) /\ ~pongCh
      BY <1>0, <2>1, <2>3 DEF ProbeInv
    <3>3. ~Has(link[n].up, "ping") /\ ~Has(link[n].down, "pong")
      BY <3>2 DEF Quiet
    <3>4. ~Twice(link[n].up, "ping") /\ ~Twice(link[n].down, "pong")
      BY <3>3 DEF Has, Twice
    <3>5. ~Twice(q, "ping")
      <4>1. Twice(Append(link[n].up, Ping), "ping")
              => Twice(link[n].up, "ping") \/ (Has(link[n].up, "ping") /\ Ping.type = "ping")
        BY <1>0, <2>1, QueueTypes, FrameTypes, AppendHolds
      <4> QED BY <3>1, <3>3, <3>4, <4>1
    <3>6. link'[n].up = q /\ link'[n].down = link[n].down
          /\ \A m \in Slots : link'[m].proc = link[m].proc
      BY <3>1 DEF Rewired
    <3>7. \A m \in Slots : m = n => OneAtMost(m)'
      BY <3>3, <3>4, <3>5, <3>6 DEF OneAtMost
    <3>8. \A m \in Slots : link'[m].proc = "up" => m = n /\ run.phase \in {"dial", "live", "shutdown"}
      BY <1>0, <3>2, <3>6 DEF ProbeInv
    <3> HIDE DEF n
    <3>9. probe'.pc = n /\ probe'.phase = "waiting" /\ run' = run /\ ~pongCh'
      BY <2>1, <2>3, <3>2 DEF n
    <3> QED BY <3>2, <3>7, <3>8, <3>9 DEF ProbeInv, PongIsFresh
  <2> QED BY <1>4, <2>2, <2>3, PingsFacts
<1> QED BY <1>1, <1>3, <1>4

\* Every step keeps it.
LEMMA ProbeStep ==
  ASSUME BaseInv, ProbeInv, Next
  PROVE  ProbeInv'
<1>0. /\ ProbeInv /\ link \in [Slots -> Links] /\ run \in Runs
      /\ InSession \/ run.phase = "dial" => run.slot \in Slots
  BY DEF BaseInv
<1>1. ASSUME Calmer(link'), UNCHANGED <<pongCh, probe>>, run'.slot = run.slot,
             \/ run' = run
             \/ run'.phase \in {"dial", "live", "shutdown"}
             \/ \A n \in Slots : n = run.slot => link'[n].proc # "up"
      PROVE  ProbeInv'
  <2>1. \A n \in Slots :
          /\ link'[n].proc = "up" =>
               link[n].proc = "up" /\ run'.phase \in {"dial", "live", "shutdown"}
          /\ link'[n].up = link[n].up /\ link'[n].down = link[n].down
    BY <1>0, <1>1 DEF Calmer, ProbeInv
  <2> QED BY <1>0, <1>1, <2>1, ProbeKept
<1>2. ASSUME UNCHANGED <<pongCh, probe>>, run'.slot = run.slot,
             run' = run \/ run'.phase \in {"dial", "live", "shutdown"},
             NEW n \in Slots, NEW up, NEW down, Rewired(link', n, up, down),
             \/ up = link[n].up
             \/ \E f \in UpFrames : f.type # "ping" /\ up = Append(link[n].up, f),
             \/ down = link[n].down
             \/ link[n].down # <<>> /\ down = Tail(link[n].down)
      PROVE  ProbeInv'
  <2>1. \A m \in Slots :
          /\ link'[m].proc = "up" => link[m].proc = "up"
          /\ Has(link'[m].up, "ping") => Has(link[m].up, "ping")
          /\ Twice(link'[m].up, "ping") => Twice(link[m].up, "ping")
          /\ Has(link'[m].down, "pong") => Has(link[m].down, "pong")
          /\ Twice(link'[m].down, "pong") => Twice(link[m].down, "pong")
    BY <1>0, <1>2, OthersQuiet
  <2>2. \A m \in Slots : link'[m].proc = "up" => run'.phase \in {"dial", "live", "shutdown"}
    BY <1>0, <1>2, <2>1 DEF ProbeInv
  <2> QED BY <1>0, <1>2, <2>1, <2>2, ProbeKept
<1>3. Calmer(link)
  BY <1>0 DEF Calmer
<1>4. CASE Distant
  <2>1. \A n \in Slots : link'[n].proc = "up" => run'.phase \in {"dial", "live", "shutdown"}
    BY <1>0, <1>4 DEF Distant, ProbeInv
  <2> QED BY <1>0, <1>4, <2>1, ProbeKept DEF Distant
<1>5. CASE PtyWrite \/ StdinReads \/ TypeKey \/ TypeEscape
  <2>1. UNCHANGED <<run, link, pongCh, probe>>
    BY <1>5, PtyFacts, TerminalFacts
  <2> QED BY <1>1, <1>3, <2>1
<1>6. CASE \E n \in Slots : FarReads(n)
  BY <1>6, ProbeFarReads
<1>7. CASE Start
  BY <1>7, ProbeStart
<1>8. CASE DialEnds
  <2>1. UNCHANGED <<pongCh, probe>> /\ Calmer(link') /\ link'[run.slot].proc = "dead"
    BY <1>8, DialFacts
  <2>2. run'.slot = run.slot
    BY <1>0, <1>8, DialFacts, ReturnsFacts
  <2> QED BY <1>1, <2>1, <2>2
<1>9. CASE RecvHelloAck
  <2>1. /\ UNCHANGED <<pongCh, probe>> /\ run'.slot = run.slot /\ run.slot \in Slots
        /\ run'.phase = "live" /\ link[run.slot].down # <<>>
        /\ Rewired(link', run.slot, link[run.slot].up, Tail(link[run.slot].down))
    BY <1>9, HelloFacts
  <2> QED BY <1>2, <2>1
<1>10. CASE SelectExit \/ SelectDone \/ ShutdownEnds
  <2>1. /\ UNCHANGED <<pongCh, probe>> /\ run'.slot = run.slot
        /\ Calmer(link') /\ link'[run.slot].proc = "dead"
    BY <1>10, SelectFacts
  <2> QED BY <1>1, <2>1
<1>11. CASE SelectAbort
  <2>1. /\ UNCHANGED <<pongCh, probe>> /\ run'.slot = run.slot /\ run.slot \in Slots
        /\ run'.phase = "shutdown"
    BY <1>11, AbortFacts
  <2>2. PICK q \in {link[run.slot].up, Append(link[run.slot].up, Shutdown)} :
          Rewired(link', run.slot, q, link[run.slot].down)
    BY <1>11, AbortFacts
  <2>3. Shutdown \in UpFrames /\ Shutdown.type # "ping"
    BY FrameTypes
  <2> QED BY <1>2, <2>1, <2>2, <2>3
<1>12. CASE Join
  <2>1. /\ UNCHANGED <<link, pongCh, probe>> /\ run.phase = "joining"
        /\ run'.slot = run.slot
    BY <1>0, <1>12, JoinFacts, ReturnsFacts
  <2>2. \A n \in Slots : n = run.slot => link'[n].proc # "up"
    BY <1>0, <2>1 DEF ProbeInv
  <2> QED BY <1>1, <1>3, <2>1, <2>2
<1>13. CASE ReaderReads
  BY <1>13, ProbeReads
<1>14. CASE ReaderEnds \/ ForwardEnds \/ WaitReturns
  BY <1>1, <1>14, EndsFacts
<1>15. CASE Forwards
  <2>1. UNCHANGED <<run, pongCh, probe>> /\ run.slot \in Slots
        /\ stdin.ch # <<>> /\ stdin.ch \in Seq(Nat)
    BY <1>15, ForwardsFacts DEF BaseInv, Stdins
  <2>2. PICK q \in {link[run.slot].up, Append(link[run.slot].up, Key(Head(stdin.ch)))} :
          Rewired(link', run.slot, q, link[run.slot].down)
    BY <1>15, ForwardsFacts
  <2>3. Key(Head(stdin.ch)) \in UpFrames /\ Key(Head(stdin.ch)).type # "ping"
    BY <2>1, FrameTypes
  <2> QED BY <1>2, <2>1, <2>2, <2>3
<1>16. CASE ProbeStarts \/ ProbePings \/ ProbePong \/ ProbeTimesOut
  BY <1>16, ProbeTurns
<1> QED BY <1>4, <1>5, <1>6, <1>7, <1>8, <1>9, <1>10, <1>11, <1>12, <1>13, <1>14, <1>15,
           <1>16, Steps DEF Run, Reader, Forwarder

\* PongIsFresh: a Pong the waiting probe would take is the answer to its own Ping,
\* however many probes were given up, and over whatever connections, before it.
THEOREM PongsAreFresh == Spec => []PongIsFresh
<1>1. Init => ProbeInv
  <2> SUFFICES ASSUME Init PROVE ProbeInv
    OBVIOUS
  <2>1. probe.phase = "idle" /\ \A n \in Slots : link[n].proc = "none"
    BY DEF Init, NoLink
  <2> QED BY <2>1 DEF ProbeInv, PongIsFresh
<1>2. ProbeInv /\ UNCHANGED vars => ProbeInv'
  BY DEF vars, ProbeInv, Quiet, OneAtMost, PongIsFresh
<1>3. ProbeInv => PongIsFresh
  BY DEF ProbeInv
<1> QED BY <1>1, <1>2, <1>3, ProbeStep, BaseAlways, PTL DEF Spec

-----------------------------------------------------------------------------
(* Keystrokes *)

\* A key waits in front of the client; a queue carries a keystroke; the daemon
\* has a keystroke, from one connection or another.
In(q, k) == \E i \in 1..Len(q) : q[i] = k
Carries(q, k) == \E i \in 1..Len(q) : q[i].type = "stdin" /\ q[i].arg = k
Passed(t, k) == \E i \in 1..Len(t) : t[i].key = k
PassedBy(t, n, k) == \E i \in 1..Len(t) : t[i].key = k /\ t[i].slot = n

\* What the terminal holds is in order but for the escape, and so is the rest.
Typed(q) == \A i, j \in 1..Len(q) : i < j /\ q[j] \in Keys => q[i] = Escape \/ q[i] < q[j]
Sorted(q) == \A i, j \in 1..Len(q) : i < j => q[i] < q[j]
Rising(q) ==
  \A i, j \in 1..Len(q) :
    i < j /\ q[i].type = "stdin" /\ q[j].type = "stdin" => q[i].arg < q[j].arg
OnceInOrder(t) ==
  \A i, j \in 1..Len(t) : i < j => /\ t[i].key # t[j].key
                                   /\ t[i].slot = t[j].slot => t[i].key < t[j].key

\* A key behind others.
LEMMA AppendKeys ==
  ASSUME NEW q \in Seq(Nat), NEW x \in Nat
  PROVE  /\ \A k \in Nat : In(Append(q, x), k) => In(q, k) \/ k = x
         /\ Typed(q) /\ (\A k \in Nat : In(q, k) /\ x \in Keys => k = Escape \/ k < x)
              => Typed(Append(q, x))
         /\ Sorted(q) /\ (\A k \in Nat : In(q, k) => k < x) => Sorted(Append(q, x))
<1> DEFINE p == Append(q, x)
<1>1. /\ Len(p) = Len(q) + 1 /\ Len(q) \in Nat /\ p[Len(q) + 1] = x
      /\ \A i \in 1..Len(q) : p[i] = q[i] /\ q[i] \in Nat /\ In(q, q[i])
  BY DEF In
<1> HIDE DEF p
<1>2. ASSUME NEW k \in Nat, In(p, k)
      PROVE  In(q, k) \/ k = x
  <2>1. PICK i \in 1..Len(p) : p[i] = k
    BY <1>2 DEF In
  <2>2. i \in 1..Len(q) \/ i = Len(q) + 1
    BY <1>1
  <2> QED BY <1>1, <2>1, <2>2
<1>3. ASSUME NEW i \in 1..Len(p), NEW j \in 1..Len(p), i < j
      PROVE  /\ i \in 1..Len(q) /\ p[i] = q[i] /\ q[i] \in Nat /\ In(q, q[i])
             /\ \/ j \in 1..Len(q) /\ p[j] = q[j]
                \/ p[j] = x
  BY <1>1, <1>3
<1>4. ASSUME Typed(q), \A k \in Nat : In(q, k) /\ x \in Keys => k = Escape \/ k < x
      PROVE  Typed(p)
  BY <1>3, <1>4 DEF Typed
<1>5. ASSUME Sorted(q), \A k \in Nat : In(q, k) => k < x
      PROVE  Sorted(p)
  BY <1>3, <1>5 DEF Sorted
<1> QED BY <1>2, <1>4, <1>5 DEF p

\* The first key, and those behind it.
LEMMA TailKeys ==
  ASSUME NEW q \in Seq(Nat), q # <<>>
  PROVE  /\ Head(q) \in Nat /\ In(q, Head(q))
         /\ \A k \in Nat : In(Tail(q), k) => In(q, k)
         /\ Typed(q) => /\ Typed(Tail(q))
                        /\ \A k \in Nat : In(Tail(q), k) /\ k \in Keys
                             => Head(q) = Escape \/ Head(q) < k
         /\ Sorted(q) => /\ Sorted(Tail(q))
                         /\ \A k \in Nat : In(Tail(q), k) => Head(q) < k
<1> DEFINE p == Tail(q)
<1>1. /\ Head(q) = q[1] /\ 1 \in 1..Len(q) /\ q[1] \in Nat /\ Len(q) \in Nat
      /\ Len(p) = Len(q) - 1 /\ \A i \in 1..Len(p) : p[i] = q[i + 1]
  OBVIOUS
<1> HIDE DEF p
<1>2. \A i \in 1..Len(p) : i + 1 \in 1..Len(q) /\ 1 < i + 1 /\ p[i] = q[i + 1]
  BY <1>1
<1>3. \A k \in Nat : In(p, k) => In(q, k)
  BY <1>2 DEF In
<1>4. ASSUME Typed(q)
      PROVE  /\ Typed(p)
             /\ \A k \in Nat : In(p, k) /\ k \in Keys => Head(q) = Escape \/ Head(q) < k
  <2>1. \A i, j \in 1..Len(p) : i < j => i + 1 < j + 1
    BY <1>1
  <2>2. Typed(p)
    BY <1>2, <1>4, <2>1 DEF Typed
  <2>3. \A i \in 1..Len(p) : p[i] \in Keys => q[1] = Escape \/ q[1] < p[i]
    BY <1>1, <1>2, <1>4 DEF Typed
  <2> QED BY <1>1, <2>2, <2>3 DEF In
<1>5. ASSUME Sorted(q)
      PROVE  Sorted(p) /\ \A k \in Nat : In(p, k) => Head(q) < k
  <2>1. \A i, j \in 1..Len(p) : i < j => i + 1 < j + 1
    BY <1>1
  <2>2. Sorted(p)
    BY <1>2, <1>5, <2>1 DEF Sorted
  <2>3. \A i \in 1..Len(p) : q[1] < p[i]
    BY <1>1, <1>2, <1>5 DEF Sorted
  <2> QED BY <1>1, <2>2, <2>3 DEF In
<1> QED BY <1>1, <1>3, <1>4, <1>5 DEF In, p

\* A frame behind others on its way up.
LEMMA AppendCarries ==
  ASSUME NEW q \in Seq(UpFrames), NEW f \in UpFrames
  PROVE  /\ \A k \in Nat : Carries(Append(q, f), k)
                             => Carries(q, k) \/ (f.type = "stdin" /\ f.arg = k)
         /\ Rising(q) /\ (\A k \in Nat : Carries(q, k) /\ f.type = "stdin" => k < f.arg)
              => Rising(Append(q, f))
<1> DEFINE p == Append(q, f)
<1>1. /\ Len(p) = Len(q) + 1 /\ Len(q) \in Nat /\ p[Len(q) + 1] = f
      /\ \A i \in 1..Len(q) : p[i] = q[i] /\ q[i] \in UpFrames
  OBVIOUS
<1> HIDE DEF p
<1>2. \A k \in Nat : Carries(p, k) => Carries(q, k) \/ (f.type = "stdin" /\ f.arg = k)
  BY <1>1 DEF Carries
<1>3. ASSUME Rising(q), \A k \in Nat : Carries(q, k) /\ f.type = "stdin" => k < f.arg
      PROVE  Rising(p)
  <2>1. SUFFICES ASSUME NEW i \in 1..Len(p), NEW j \in 1..Len(p), i < j,
                        p[i].type = "stdin", p[j].type = "stdin"
                 PROVE  p[i].arg < p[j].arg
    BY DEF Rising
  <2>2. i \in 1..Len(q) /\ p[i] = q[i] /\ q[i].arg \in Nat
    BY <1>1, <2>1 DEF UpFrames
  <2>3. CASE j \in 1..Len(q)
    BY <1>1, <1>3, <2>1, <2>2, <2>3 DEF Rising
  <2>4. CASE j = Len(q) + 1
    <3>1. Carries(q, q[i].arg)
      BY <2>1, <2>2 DEF Carries
    <3> QED BY <1>1, <1>3, <2>1, <2>2, <2>4, <3>1
  <2> QED BY <1>1, <2>1, <2>3, <2>4
<1> QED BY <1>2, <1>3 DEF p

\* The first frame on its way up, and those behind it.
LEMMA TailCarries ==
  ASSUME NEW q \in Seq(UpFrames), q # <<>>
  PROVE  /\ Head(q) \in UpFrames
         /\ Head(q).type = "stdin" => Carries(q, Head(q).arg)
         /\ \A k \in Nat : Carries(Tail(q), k) => Carries(q, k)
         /\ Rising(q) => Rising(Tail(q))
         /\ Rising(q) /\ Head(q).type = "stdin"
              => \A k \in Nat : Carries(Tail(q), k) => Head(q).arg < k
<1> DEFINE p == Tail(q)
<1>1. /\ Head(q) = q[1] /\ 1 \in 1..Len(q) /\ q[1] \in UpFrames /\ Len(q) \in Nat
      /\ Len(p) = Len(q) - 1 /\ \A i \in 1..Len(p) : p[i] = q[i + 1]
  OBVIOUS
<1> HIDE DEF p
<1>2. \A i \in 1..Len(p) : i + 1 \in 1..Len(q) /\ 1 < i + 1 /\ p[i] = q[i + 1]
  BY <1>1
<1>3. \A k \in Nat : Carries(p, k) => Carries(q, k)
  BY <1>2 DEF Carries
<1>4. Rising(q) => Rising(p)
  <2>1. \A i, j \in 1..Len(p) : i < j => i + 1 < j + 1
    BY <1>1
  <2> QED BY <1>2, <2>1 DEF Rising
<1>5. ASSUME Rising(q), Head(q).type = "stdin", NEW k \in Nat, Carries(p, k)
      PROVE  Head(q).arg < k
  <2>1. PICK i \in 1..Len(p) : p[i].type = "stdin" /\ p[i].arg = k
    BY <1>5 DEF Carries
  <2> QED BY <1>1, <1>2, <1>5, <2>1 DEF Rising
<1>6. Head(q).type = "stdin" => Carries(q, Head(q).arg)
  BY <1>1 DEF Carries
<1> QED BY <1>1, <1>3, <1>4, <1>5, <1>6 DEF p

\* A keystroke behind those the daemon has.
LEMMA AppendPassed ==
  ASSUME NEW t \in Seq(Items), NEW x \in Items
  PROVE  /\ \A k \in Nat : Passed(Append(t, x), k) => Passed(t, k) \/ k = x.key
         /\ \A n \in Slots, k \in Nat :
              PassedBy(Append(t, x), n, k) => PassedBy(t, n, k) \/ (n = x.slot /\ k = x.key)
         /\ OnceInOrder(t) /\ ~Passed(t, x.key)
            /\ (\A k \in Nat : PassedBy(t, x.slot, k) => k < x.key)
              => OnceInOrder(Append(t, x))
<1> DEFINE p == Append(t, x)
<1>1. /\ Len(p) = Len(t) + 1 /\ Len(t) \in Nat /\ p[Len(t) + 1] = x
      /\ \A i \in 1..Len(t) : p[i] = t[i] /\ t[i] \in Items
  OBVIOUS
<1> HIDE DEF p
<1>2. \A k \in Nat : Passed(p, k) => Passed(t, k) \/ k = x.key
  BY <1>1 DEF Passed
<1>3. \A n \in Slots, k \in Nat :
        PassedBy(p, n, k) => PassedBy(t, n, k) \/ (n = x.slot /\ k = x.key)
  BY <1>1 DEF PassedBy
<1>4. ASSUME OnceInOrder(t), ~Passed(t, x.key),
             \A k \in Nat : PassedBy(t, x.slot, k) => k < x.key
      PROVE  OnceInOrder(p)
  <2>1. SUFFICES ASSUME NEW i \in 1..Len(p), NEW j \in 1..Len(p), i < j
                 PROVE  /\ p[i].key # p[j].key
                        /\ p[i].slot = p[j].slot => p[i].key < p[j].key
    BY DEF OnceInOrder
  <2>2. i \in 1..Len(t) /\ p[i] = t[i] /\ t[i].key \in Nat
    BY <1>1, <2>1 DEF Items
  <2>3. CASE j \in 1..Len(t)
    BY <1>1, <1>4, <2>1, <2>2, <2>3 DEF OnceInOrder
  <2>4. CASE j = Len(t) + 1
    <3>1. t[i].key # x.key
      BY <1>4, <2>2 DEF Passed
    <3>2. t[i].slot = x.slot => PassedBy(t, x.slot, t[i].key)
      BY <2>2 DEF PassedBy
    <3> QED BY <1>1, <1>4, <2>2, <2>4, <3>1, <3>2
  <2> QED BY <1>1, <2>1, <2>3, <2>4
<1> QED BY <1>2, <1>3, <1>4 DEF p

\* What the daemon has of the keystrokes, in the order it hands them to the pty.
Trail == far.pty \o far.input

\* It grows at its end, and handing on does not change it.
LEMMA TrailMoves ==
  ASSUME NEW p \in Seq(Items), NEW q \in Seq(Items)
  PROVE  /\ p \o q \in Seq(Items)
         /\ \A x \in Items : p \o Append(q, x) = Append(p \o q, x)
         /\ q # <<>> => Append(p, Head(q)) \o Tail(q) = p \o q
<1>1. p \o q \in Seq(Items)
  OBVIOUS
<1>2. \A x \in Items : p \o Append(q, x) = Append(p \o q, x)
  OBVIOUS
<1>3. q # <<>> => Append(p, Head(q)) \o Tail(q) = p \o q
  OBVIOUS
<1> QED BY <1>1, <1>2, <1>3

\* A keystroke is under way to the daemon; it has left the client.
Sent(k) == \E n \in Slots : Carries(link[n].up, k)
Gone(k) == Sent(k) \/ Passed(Trail, k)

\* Keystrokes leave the terminal, the channel and the client in the order they
\* were typed.
StdinOrder ==
  /\ \A k \in Nat : In(stdin.tty, k) => 0 < k /\ (k = Escape \/ k <= stdin.typed)
  /\ \A k \in Nat : In(stdin.ch, k) \/ Gone(k) => k <= stdin.typed
  /\ \A k, l \in Nat : (In(stdin.ch, k) \/ Gone(k)) /\ In(stdin.tty, l) => k < l
  /\ \A k, l \in Nat : Gone(k) /\ In(stdin.ch, l) => k < l
  /\ Typed(stdin.tty) /\ Sorted(stdin.ch)

\* What is under way on a link rises, is nowhere else, and lies above all that
\* came over that link before.
LinkOrder ==
  /\ \A n \in Slots :
       /\ Rising(link[n].up)
       /\ \A k \in Nat : Carries(link[n].up, k) =>
            /\ ~Passed(Trail, k)
            /\ \A l \in Nat : PassedBy(Trail, n, l) => l < k
            /\ \A m \in Slots : Carries(link[m].up, k) => m = n
  /\ OnceInOrder(Trail)

OrderInv == StdinOrder /\ LinkOrder

\* A step that types and reads nothing, and sends nothing new.
LEMMA StdinKept ==
  ASSUME StdinOrder, stdin'.typed = stdin.typed, stdin'.tty = stdin.tty, stdin'.ch = stdin.ch,
         \A k \in Nat : Gone(k)' => Gone(k)
  PROVE  StdinOrder'
BY DEF StdinOrder, Escape

\* A step after which no link carries more, and the daemon has no more.
LEMMA OrderKept ==
  ASSUME OrderInv, stdin'.typed = stdin.typed, stdin'.tty = stdin.tty, stdin'.ch = stdin.ch,
         Trail' = Trail,
         \A n \in Slots : /\ Rising(link'[n].up)
                          /\ \A k \in Nat : Carries(link'[n].up, k) => Carries(link[n].up, k)
  PROVE  OrderInv'
<1> DEFINE t == Trail
<1>1. /\ StdinOrder /\ LinkOrder /\ t' = t /\ Trail' = t
  BY DEF OrderInv
<1>2. \A k \in Nat : Gone(k)' => Gone(k)
  BY DEF Gone, Sent
<1>3. StdinOrder'
  BY <1>1, <1>2, StdinKept
<1>4. LinkOrder'
  BY <1>1 DEF LinkOrder
<1> QED BY <1>3, <1>4 DEF OrderInv

\* The daemon reads a keystroke, and its channel has room.
LEMMA OrderTaken ==
  ASSUME BaseInv, OrderInv, NEW n \in Slots, UNCHANGED stdin,
         link[n].up # <<>>, Head(link[n].up).type = "stdin",
         Trail' = Append(Trail, [key |-> Head(link[n].up).arg, slot |-> n]),
         Rewired(link', n, Tail(link[n].up), link[n].down)
  PROVE  OrderInv'
<1> DEFINE up == link[n].up
           x == [key |-> Head(up).arg, slot |-> n]
           t == Trail
<1>1. StdinOrder /\ LinkOrder /\ link \in [Slots -> Links] /\ far \in Fars
  BY DEF OrderInv, BaseInv
<1>2. up \in Seq(UpFrames) /\ t \in Seq(Items)
  <2>1. far.pty \in Seq(Items) /\ far.input \in Seq(Items)
    BY <1>1 DEF Fars
  <2> QED BY <1>1, <2>1, QueueTypes, TrailMoves DEF Trail
<1>3. /\ Head(up) \in UpFrames /\ Head(up).arg \in Nat /\ Carries(up, Head(up).arg)
      /\ Rising(up) /\ Rising(Tail(up))
      /\ \A k \in Nat : Carries(Tail(up), k) => Carries(up, k) /\ Head(up).arg < k
  BY <1>1, <1>2, TailCarries DEF LinkOrder, UpFrames
<1>4. x \in Items /\ x.key = Head(up).arg /\ x.slot = n
  BY <1>3 DEF Items
<1>5. /\ link'[n].up = Tail(up) /\ \A m \in Slots \ {n} : link'[m].up = link[m].up
      /\ Trail' = Append(t, x)
  BY DEF Rewired
<1> HIDE DEF x
<1>6. /\ \A k \in Nat : Passed(Append(t, x), k) => Passed(t, k) \/ k = Head(up).arg
      /\ \A m \in Slots, k \in Nat :
           PassedBy(Append(t, x), m, k) => PassedBy(t, m, k) \/ (m = n /\ k = Head(up).arg)
  BY <1>2, <1>4, AppendPassed
<1>7. OnceInOrder(Append(t, x))
  <2>1. /\ ~Passed(t, x.key) /\ OnceInOrder(t)
        /\ \A k \in Nat : PassedBy(t, x.slot, k) => k < x.key
    BY <1>1, <1>3, <1>4 DEF LinkOrder
  <2> QED BY <1>2, <1>4, <2>1, AppendPassed
<1>8. \A m \in Slots : /\ Rising(link'[m].up)
                       /\ \A k \in Nat : Carries(link'[m].up, k) => Carries(link[m].up, k)
  BY <1>1, <1>3, <1>5 DEF LinkOrder
<1>9. ASSUME NEW k \in Nat, Gone(k)' PROVE Gone(k)
  <2>1. CASE \E m \in Slots : Carries(link'[m].up, k)
    BY <1>8, <2>1 DEF Gone, Sent
  <2>2. CASE Passed(Append(t, x), k)
    BY <1>3, <1>6, <2>2 DEF Gone, Sent
  <2> QED BY <1>5, <1>9, <2>1, <2>2 DEF Gone, Sent
<1>10. StdinOrder'
  BY <1>1, <1>9, StdinKept
<1>11. ASSUME NEW m \in Slots, NEW k \in Nat, Carries(link'[m].up, k)
       PROVE  /\ ~Passed(Append(t, x), k)
              /\ \A l \in Nat : PassedBy(Append(t, x), m, l) => l < k
              /\ \A o \in Slots : Carries(link'[o].up, k) => o = m
  <2>1. Carries(link[m].up, k)
    BY <1>8, <1>11
  <2>2. /\ ~Passed(t, k) /\ \A l \in Nat : PassedBy(t, m, l) => l < k
        /\ \A o \in Slots : Carries(link[o].up, k) => o = m
    BY <1>1, <2>1 DEF LinkOrder
  <2>3. m = n => Head(up).arg < k
    BY <1>3, <1>5, <1>11
  <2>4. k # Head(up).arg
    BY <1>3, <2>2, <2>3
  <2> QED BY <1>6, <1>8, <2>2, <2>3, <2>4
<1>12. LinkOrder'
  BY <1>5, <1>7, <1>8, <1>11 DEF LinkOrder
<1> QED BY <1>10, <1>12 DEF OrderInv

\* A keystroke leaves the channel, and goes up the current connection or is lost.
LEMMA OrderForwards ==
  ASSUME BaseInv, OrderInv, Forwards
  PROVE  OrderInv'
<1> DEFINE n == run.slot
           c == Head(stdin.ch)
           f == Key(c)
           t == Trail
<1>1. /\ StdinOrder /\ LinkOrder /\ link \in [Slots -> Links]
      /\ stdin.ch \in Seq(Nat) /\ stdin.ch # <<>> /\ n \in Slots /\ UNCHANGED far
      /\ stdin'.ch = Tail(stdin.ch) /\ stdin'.tty = stdin.tty /\ stdin'.typed = stdin.typed
  BY ForwardsFacts DEF OrderInv, BaseInv, Stdins
<1>2. PICK q \in {link[n].up, Append(link[n].up, f)} : Rewired(link', n, q, link[n].down)
  BY ForwardsFacts
<1>3. /\ c \in Nat /\ In(stdin.ch, c) /\ Sorted(Tail(stdin.ch))
      /\ \A k \in Nat : In(Tail(stdin.ch), k) => In(stdin.ch, k) /\ c < k
  BY <1>1, TailKeys DEF StdinOrder
<1>4. \A k \in Nat : Gone(k) => k < c
  BY <1>1, <1>3 DEF StdinOrder
<1>5. /\ f \in UpFrames /\ f.type = "stdin" /\ f.arg = c /\ Trail' = t
      /\ link'[n].up = q /\ \A m \in Slots \ {n} : link'[m].up = link[m].up
  BY <1>1, <1>2, <1>3, FrameTypes DEF Rewired, Trail
<1>6. link[n].up \in Seq(UpFrames) /\ \A m \in Slots : Rising(link[m].up)
  BY <1>1, QueueTypes DEF LinkOrder
<1> HIDE DEF c, f
<1>7. Rising(q) /\ \A k \in Nat : Carries(q, k) => Carries(link[n].up, k) \/ k = c
  <2>1. \A k \in Nat : Carries(link[n].up, k) => k < c
    BY <1>1, <1>4 DEF Gone, Sent
  <2>2. CASE q = link[n].up
    BY <1>1, <1>6, <2>2
  <2>3. CASE q = Append(link[n].up, f)
    <3> DEFINE u == link[n].up
    <3>1. u \in Seq(UpFrames) /\ Rising(u) /\ \A k \in Nat : Carries(u, k) => k < c
      BY <1>1, <1>6, <2>1
    <3> HIDE DEF u
    <3>2. /\ Rising(Append(u, f))
          /\ \A k \in Nat : Carries(Append(u, f), k) => Carries(u, k) \/ k = c
      BY <1>5, <3>1, AppendCarries
    <3> QED BY <2>3, <3>2 DEF u
  <2> QED BY <1>2, <2>2, <2>3
<1>8. \A m \in Slots :
        /\ Rising(link'[m].up)
        /\ \A k \in Nat : Carries(link'[m].up, k)
             => Carries(link[m].up, k) \/ (m = n /\ k = c)
  BY <1>5, <1>6, <1>7
<1>9. \A k \in Nat : Gone(k)' => Gone(k) \/ k = c
  BY <1>5, <1>8 DEF Gone, Sent
<1>10. StdinOrder'
  BY <1>1, <1>3, <1>9 DEF StdinOrder, Escape
<1>11. ASSUME NEW m \in Slots, NEW k \in Nat, Carries(link'[m].up, k)
       PROVE  /\ ~Passed(t, k)
              /\ \A l \in Nat : PassedBy(t, m, l) => l < k
              /\ \A o \in Slots : Carries(link'[o].up, k) => o = m
  <2>1. CASE k = c
    <3>1. /\ ~Passed(t, k) /\ \A o \in Slots : ~Carries(link[o].up, k)
      BY <1>3, <1>4, <2>1 DEF Gone, Sent
    <3>2. \A l \in Nat : PassedBy(t, m, l) => Passed(t, l)
      BY DEF PassedBy, Passed
    <3>3. \A l \in Nat : PassedBy(t, m, l) => l < k
      BY <1>4, <2>1, <3>2 DEF Gone
    <3> QED BY <1>8, <1>11, <3>1, <3>3
  <2>2. CASE k # c
    <3>1. \A o \in Slots : Carries(link'[o].up, k) => Carries(link[o].up, k)
      BY <1>8, <2>2
    <3> QED BY <1>1, <1>11, <3>1 DEF LinkOrder
  <2> QED BY <2>1, <2>2
<1>12. LinkOrder'
  BY <1>1, <1>5, <1>8, <1>11 DEF LinkOrder
<1> QED BY <1>10, <1>12 DEF OrderInv

\* Something is typed, or read from the terminal.
LEMMA OrderTerminal ==
  ASSUME BaseInv, OrderInv, TypeKey \/ TypeEscape \/ StdinReads
  PROVE  OrderInv'
<1> DEFINE tty == stdin.tty
           ch == stdin.ch
           new == stdin.typed + 1
<1>1. /\ StdinOrder /\ LinkOrder /\ UNCHANGED <<link, far>>
      /\ stdin \in Stdins /\ stdin' \in Stdins /\ tty \in Seq(Nat) /\ ch \in Seq(Nat)
      /\ stdin.typed \in 0..MaxEvents /\ stdin'.typed \in 0..MaxEvents /\ MaxEvents \in Nat
  BY TerminalFacts, Numbers DEF OrderInv, BaseInv, Stdins
<1>2. LinkOrder' /\ \A k \in Nat : Gone(k)' <=> Gone(k)
  BY <1>1 DEF LinkOrder, Gone, Sent, Trail
<1>3. CASE stdin'.typed = new /\ stdin'.ch = ch /\ stdin'.tty = Append(tty, new)
  <2>1. new \in Nat /\ new < Escape /\ new \in Keys
    BY <1>1, <1>3 DEF Escape, Keys
  <2>2. \A k \in Nat : In(tty, k) => k = Escape \/ k < new
    BY <1>1 DEF StdinOrder
  <2>3. /\ Typed(Append(tty, new))
        /\ \A k \in Nat : In(Append(tty, new), k) => In(tty, k) \/ k = new
    BY <1>1, <2>1, <2>2, AppendKeys DEF StdinOrder
  <2>4. \A k \in Nat : In(ch, k) \/ Gone(k) => k < new
    BY <1>1 DEF StdinOrder
  <2>5. \A k \in Nat : In(Append(tty, new), k) => 0 < k /\ (k = Escape \/ k <= new)
    BY <1>1, <2>1, <2>2, <2>3 DEF StdinOrder
  <2>6. \A k, l \in Nat : (In(ch, k) \/ Gone(k)) /\ In(Append(tty, new), l) => k < l
    BY <1>1, <2>3, <2>4 DEF StdinOrder
  <2>7. \A k \in Nat : In(ch, k) \/ Gone(k) => k <= new
    BY <1>1, <2>4
  <2> HIDE DEF new
  <2>8. StdinOrder'
    BY <1>1, <1>2, <1>3, <2>3, <2>5, <2>6, <2>7 DEF StdinOrder, Escape
  <2> QED BY <1>2, <2>8 DEF OrderInv
<1>4. CASE stdin'.typed = stdin.typed /\ stdin'.ch = ch /\ stdin'.tty = Append(tty, Escape)
  <2>1. Escape \in Nat /\ Escape \notin Keys
    BY <1>1 DEF Escape, Keys
  <2>2. /\ Typed(Append(tty, Escape))
        /\ \A k \in Nat : In(Append(tty, Escape), k) => In(tty, k) \/ k = Escape
    BY <1>1, <2>1, AppendKeys DEF StdinOrder
  <2>3. \A k \in Nat : In(ch, k) \/ Gone(k) => k < Escape
    BY <1>1 DEF StdinOrder, Escape
  <2> QED BY <1>1, <1>2, <1>4, <2>1, <2>2, <2>3 DEF StdinOrder, OrderInv, Escape
<1>5. CASE stdin'.typed = stdin.typed /\ tty # <<>> /\ stdin'.tty = Tail(tty)
  <2>1. /\ Head(tty) \in Nat /\ In(tty, Head(tty)) /\ Typed(Tail(tty))
        /\ \A k \in Nat : In(Tail(tty), k) => In(tty, k)
        /\ \A k \in Nat : In(Tail(tty), k) /\ k \in Keys => Head(tty) = Escape \/ Head(tty) < k
    BY <1>1, <1>5, TailKeys DEF StdinOrder
  <2>2. CASE stdin'.ch = ch
    BY <1>1, <1>2, <1>5, <2>1, <2>2 DEF StdinOrder, OrderInv, Escape
  <2>3. CASE Head(tty) \in Keys /\ stdin'.ch = Append(ch, Head(tty))
    <3> DEFINE h == Head(tty)
    <3>1. h \in Nat /\ h \in Keys /\ h # Escape /\ h <= stdin.typed
      BY <1>1, <2>1, <2>3 DEF StdinOrder, Escape, Keys
    <3>2. \A k \in Nat : In(ch, k) \/ Gone(k) => k < h
      BY <1>1, <2>1 DEF StdinOrder
    <3>3. \A k \in Nat : In(Tail(tty), k) => h < k
      <4>1. \A k \in Nat : In(Tail(tty), k) => k = Escape \/ k <= stdin.typed
        BY <1>1, <2>1 DEF StdinOrder
      <4>2. \A k \in Nat : k <= stdin.typed /\ k # 0 => k \in Keys
        BY <1>1 DEF Keys
      <4>3. \A k \in Nat : In(Tail(tty), k) => k # 0
        BY <1>1, <2>1, <3>1 DEF StdinOrder
      <4> QED BY <1>1, <2>1, <3>1, <4>1, <4>2, <4>3 DEF Escape
    <3> HIDE DEF h
    <3>4. /\ Sorted(Append(ch, h))
          /\ \A k \in Nat : In(Append(ch, h), k) => In(ch, k) \/ k = h
      BY <1>1, <3>1, <3>2, AppendKeys DEF StdinOrder
    <3>5. stdin'.ch = Append(ch, h)
      BY <2>3 DEF h
    <3> QED BY <1>1, <1>2, <1>5, <2>1, <3>1, <3>2, <3>3, <3>4, <3>5
            DEF StdinOrder, OrderInv, Escape
  <2> QED BY <1>5, <2>2, <2>3, TerminalFacts
<1> QED BY <1>3, <1>4, <1>5, TerminalFacts

\* What the far end's steps make of the keystrokes.
LEMMA OrderFar ==
  ASSUME BaseInv, OrderInv, PtyWrite \/ \E n \in Slots : FarReads(n)
  PROVE  OrderInv'
<1>1. /\ StdinOrder /\ LinkOrder /\ link \in [Slots -> Links]
      /\ far.pty \in Seq(Items) /\ far.input \in Seq(Items)
  BY DEF OrderInv, BaseInv, Fars
<1>2. CASE PtyWrite
  <2>1. /\ UNCHANGED <<link, stdin>> /\ far.input # <<>>
        /\ far'.input = Tail(far.input) /\ far'.pty = Append(far.pty, Head(far.input))
    BY <1>2, PtyFacts
  <2>2. Trail' = Trail
    BY <1>1, <2>1, TrailMoves DEF Trail
  <2>3. \A n \in Slots : Rising(link'[n].up)
    BY <1>1, <2>1 DEF LinkOrder
  <2> QED BY <2>1, <2>2, <2>3, OrderKept
<1>3. ASSUME NEW n \in Slots, FarReads(n) PROVE OrderInv'
  <2> DEFINE x == [key |-> Head(link[n].up).arg, slot |-> n]
  <2>1. /\ UNCHANGED stdin /\ link[n].up # <<>> /\ far'.pty = far.pty
        /\ link[n].up \in Seq(UpFrames)
    BY <1>1, <1>3, FarReadsFacts, QueueTypes
  <2>2. PICK d : Rewired(link', n, Tail(link[n].up), d)
    BY <1>3, FarReadsFacts
  <2>3. /\ Rising(Tail(link[n].up))
        /\ \A k \in Nat : Carries(Tail(link[n].up), k) => Carries(link[n].up, k)
    BY <1>1, <2>1, TailCarries DEF LinkOrder
  <2>4. \A m \in Slots :
          /\ Rising(link'[m].up)
          /\ \A k \in Nat : Carries(link'[m].up, k) => Carries(link[m].up, k)
    BY <1>1, <2>2, <2>3 DEF Rewired, LinkOrder
  <2>5. CASE far'.input = far.input
    <3>1. Trail' = Trail
      BY <2>1, <2>5 DEF Trail
    <3> QED BY <2>1, <2>4, <3>1, OrderKept
  <2>6. CASE far'.input # far.input
    <3>1. /\ Head(link[n].up).type = "stdin" /\ far'.input = Append(far.input, x)
          /\ Rewired(link', n, Tail(link[n].up), link[n].down)
      BY <1>3, <2>6, FarReadsFacts
    <3>2. x \in Items
      <4>1. Head(link[n].up).arg \in Nat
        BY <2>1, TailCarries DEF UpFrames
      <4> QED BY <4>1 DEF Items
    <3> HIDE DEF x
    <3>3. Trail' = Append(Trail, x)
      <4>1. far.pty \o Append(far.input, x) = Append(far.pty \o far.input, x)
        BY <1>1, <3>2, TrailMoves
      <4>2. Trail' = far.pty \o Append(far.input, x)
        BY <2>1, <3>1, Zenon DEF Trail
      <4> QED BY <4>1, <4>2, Zenon DEF Trail
    <3>4. Trail' = Append(Trail, [key |-> Head(link[n].up).arg, slot |-> n])
      BY <3>3 DEF x
    <3>5. /\ UNCHANGED stdin /\ link[n].up # <<>> /\ Head(link[n].up).type = "stdin"
          /\ Rewired(link', n, Tail(link[n].up), link[n].down)
      BY <2>1, <3>1
    <3> QED BY <3>4, <3>5, OrderTaken, Zenon
  <2> QED BY <2>5, <2>6
<1> QED BY <1>2, <1>3

\* A frame that is no keystroke goes up a link, or nowhere.
LEMMA OrderWritten ==
  ASSUME BaseInv, OrderInv, NEW n \in Slots, NEW f \in UpFrames, f.type # "stdin",
         NEW q \in {link[n].up, Append(link[n].up, f)}, NEW d, Rewired(link', n, q, d),
         UNCHANGED far,
         stdin'.typed = stdin.typed, stdin'.tty = stdin.tty, stdin'.ch = stdin.ch
  PROVE  OrderInv'
<1> DEFINE u == link[n].up
<1>1. u \in Seq(UpFrames) /\ \A m \in Slots : Rising(link[m].up)
  BY QueueTypes DEF BaseInv, OrderInv, LinkOrder
<1>2. Rising(q) /\ \A k \in Nat : Carries(q, k) => Carries(u, k)
  <2>1. CASE q = u
    BY <1>1, <2>1
  <2>2. CASE q = Append(u, f)
    <3>1. u \in Seq(UpFrames) /\ Rising(u)
      BY <1>1
    <3> HIDE DEF u
    <3>2. /\ Rising(Append(u, f))
          /\ \A k \in Nat : Carries(Append(u, f), k) => Carries(u, k)
      BY <3>1, AppendCarries
    <3> QED BY <2>2, <3>2
  <2> QED BY <2>1, <2>2
<1>3. \A m \in Slots : /\ Rising(link'[m].up)
                       /\ \A k \in Nat : Carries(link'[m].up, k) => Carries(link[m].up, k)
  BY <1>1, <1>2 DEF Rewired
<1>4. Trail' = Trail
  BY DEF Trail
<1> QED BY <1>3, <1>4, OrderKept

\* Links stay as they are, or their keystrokes are forgotten.
LEMMA OrderRest ==
  ASSUME BaseInv, OrderInv, \A n \in Slots : link'[n].up \in {link[n].up, <<>>},
         Trail' = Trail,
         stdin'.typed = stdin.typed, stdin'.tty = stdin.tty, stdin'.ch = stdin.ch
  PROVE  OrderInv'
<1>1. Rising(<<>>) /\ \A k \in Nat : ~Carries(<<>>, k)
  BY DEF Rising, Carries
<1>2. \A n \in Slots : Rising(link[n].up)
  BY DEF OrderInv, LinkOrder
<1>3. \A n \in Slots : /\ Rising(link'[n].up)
                       /\ \A k \in Nat : Carries(link'[n].up, k) => Carries(link[n].up, k)
  BY <1>1, <1>2
<1> QED BY <1>3, OrderKept

\* Every step keeps it.
LEMMA OrderStep ==
  ASSUME BaseInv, OrderInv, Next
  PROVE  OrderInv'
<1>1. ASSUME \/ UNCHANGED stdin
             \/ stdin'.typed = stdin.typed /\ stdin'.tty = stdin.tty /\ stdin'.ch = stdin.ch,
             Trail' = Trail, \A n \in Slots : link'[n].up = link[n].up
      PROVE  OrderInv'
  BY <1>1, OrderRest
<1>2. UNCHANGED far => Trail' = Trail
  BY DEF Trail
<1>3. Calmer(link') => \A n \in Slots : link'[n].up = link[n].up
  BY DEF Calmer
<1>4. CASE Distant
  <2>1. UNCHANGED stdin /\ Trail' = Trail /\ \A n \in Slots : link'[n].up = link[n].up
    BY <1>4 DEF Distant, Trail
  <2> QED BY <1>1, <2>1
<1>5. CASE PtyWrite \/ \E n \in Slots : FarReads(n)
  BY <1>5, OrderFar
<1>6. CASE StdinReads \/ TypeKey \/ TypeEscape
  BY <1>6, OrderTerminal
<1>7. CASE Start
  <2>1. UNCHANGED stdin
    BY <1>7, StartFacts
  <2>2. CASE UNCHANGED <<link, far>>
    BY <1>1, <1>2, <2>1, <2>2
  <2>3. CASE ~UNCHANGED <<link, far>>
    <3>1. SameKeys(far') /\ \A n \in Slots : link'[n].up \in {link[n].up, <<>>}
      BY <1>7, <2>3, StartFacts
    <3>2. Trail' = Trail
      BY <3>1 DEF SameKeys, Trail
    <3> QED BY <2>1, <3>1, <3>2, OrderRest
  <2> QED BY <2>2, <2>3
<1>8. CASE DialEnds
  BY <1>1, <1>2, <1>3, <1>8, DialFacts
<1>9. CASE RecvHelloAck
  <2>1. /\ UNCHANGED far
        /\ stdin'.typed = stdin.typed /\ stdin'.tty = stdin.tty /\ stdin'.ch = stdin.ch
        /\ \A n \in Slots : link'[n].up = link[n].up
    BY <1>9, HelloFacts DEF Rewired
  <2> QED BY <1>1, <1>2, <2>1
<1>10. CASE SelectExit \/ SelectDone \/ ShutdownEnds
  BY <1>1, <1>2, <1>3, <1>10, SelectFacts
<1>11. CASE SelectAbort
  <2>1. UNCHANGED <<stdin, far>> /\ run.slot \in Slots
    BY <1>11, AbortFacts
  <2>2. PICK q \in {link[run.slot].up, Append(link[run.slot].up, Shutdown)} :
          Rewired(link', run.slot, q, link[run.slot].down)
    BY <1>11, AbortFacts
  <2>3. Shutdown \in UpFrames /\ Shutdown.type # "stdin"
    BY FrameTypes
  <2> QED BY <2>1, <2>2, <2>3, OrderWritten
<1>12. CASE Join
  BY <1>1, <1>2, <1>12, JoinFacts
<1>13. CASE ReaderReads
  <2>1. UNCHANGED <<stdin, far>> /\ \A n \in Slots : link'[n].up = link[n].up
    BY <1>13, ReadsFacts DEF Rewired
  <2> QED BY <1>1, <1>2, <2>1
<1>14. CASE ReaderEnds \/ ForwardEnds \/ WaitReturns
  BY <1>1, <1>2, <1>3, <1>14, EndsFacts
<1>15. CASE Forwards
  BY <1>15, OrderForwards
<1>16. CASE ProbeStarts \/ ProbePong
  BY <1>1, <1>2, <1>16, TurnsFacts
<1>17. ASSUME ForceReconnect, UNCHANGED <<stdin, far>> PROVE OrderInv'
  BY <1>1, <1>2, <1>3, <1>17, ForceFacts
<1>18. CASE ProbeTimesOut
  BY <1>17, <1>18 DEF ProbeTimesOut
<1>19. CASE ProbePings
  <2>1. UNCHANGED <<stdin, far>> /\ probe.pc \in Slots
    BY <1>19, PingsFacts
  <2>2. CASE ForceReconnect
    BY <1>17, <2>1, <2>2
  <2>3. CASE ~ForceReconnect
    <3>1. PICK q \in {link[probe.pc].up, Append(link[probe.pc].up, Ping)} :
            Rewired(link', probe.pc, q, link[probe.pc].down)
      BY <1>19, <2>3, PingsFacts
    <3>2. Ping \in UpFrames /\ Ping.type # "stdin"
      BY FrameTypes
    <3> QED BY <2>1, <3>1, <3>2, OrderWritten
  <2> QED BY <2>2, <2>3
<1> QED BY <1>4, <1>5, <1>6, <1>7, <1>8, <1>9, <1>10, <1>11, <1>12, <1>13, <1>14, <1>15,
           <1>16, <1>18, <1>19, Steps DEF Run, Reader, Forwarder

\* KeysOnceInOrder: the shell reads a keystroke once, and what went over one
\* connection in the order it was typed, through any number of reconnects and
\* whatever the channels lose.
THEOREM KeysInOrder == Spec => []KeysOnceInOrder
<1>1. Init => OrderInv
  <2> SUFFICES ASSUME Init PROVE OrderInv
    OBVIOUS
  <2>0. /\ stdin.tty = <<>> /\ stdin.ch = <<>> /\ far.pty = <<>> /\ far.input = <<>>
        /\ \A n \in Slots : link[n].up = <<>>
    BY DEF Init, NoLink
  <2>a. <<>> \o <<>> = <<>>
    OBVIOUS
  <2>b. Trail = <<>>
    BY <2>0, <2>a, Zenon DEF Trail
  <2>1. /\ stdin.tty = <<>> /\ stdin.ch = <<>> /\ Trail = <<>>
        /\ \A n \in Slots : link[n].up = <<>>
    BY <2>0, <2>b
  <2>2. \A k : ~In(<<>>, k) /\ ~Carries(<<>>, k) /\ ~Passed(<<>>, k)
    BY DEF In, Carries, Passed
  <2>3. Typed(<<>>) /\ Sorted(<<>>) /\ Rising(<<>>) /\ OnceInOrder(<<>>)
    BY DEF Typed, Sorted, Rising, OnceInOrder
  <2> QED BY <2>1, <2>2, <2>3 DEF OrderInv, StdinOrder, LinkOrder, Gone, Sent
<1>2. OrderInv /\ UNCHANGED vars => OrderInv'
  BY DEF vars, OrderInv, StdinOrder, LinkOrder, Gone, Sent, Trail
<1>3. BaseInv /\ OrderInv => KeysOnceInOrder
  <2> SUFFICES ASSUME BaseInv, OrderInv PROVE KeysOnceInOrder
    OBVIOUS
  <2>1. far.pty \in Seq(Items) /\ far.input \in Seq(Items)
    BY DEF BaseInv, Fars
  <2>a. ASSUME NEW p \in Seq(Items), NEW q \in Seq(Items)
        PROVE  /\ DOMAIN p = 1..Len(p) /\ Len(p) \in Nat /\ Len(q) \in Nat
               /\ Len(p \o q) = Len(p) + Len(q)
               /\ \A i \in 1..Len(p) : (p \o q)[i] = p[i]
    OBVIOUS
  <2>2. /\ DOMAIN far.pty = 1..Len(far.pty) /\ Len(far.pty) \in Nat /\ Len(far.input) \in Nat
        /\ Len(Trail) = Len(far.pty) + Len(far.input)
        /\ \A i \in 1..Len(far.pty) : Trail[i] = far.pty[i]
    BY <2>1, <2>a, Zenon DEF Trail
  <2>3. \A i \in 1..Len(far.pty) : i \in 1..Len(Trail)
    <3> DEFINE a == Len(far.pty)
               b == Len(far.input)
    <3>1. a \in Nat /\ b \in Nat /\ Len(Trail) = a + b
      BY <2>2, Zenon
    <3> HIDE DEF a, b
    <3>2. \A i \in 1..a : i \in 1..(a + b)
      BY <3>1
    <3> QED BY <3>1, <3>2, Zenon DEF a
  <2>4. OnceInOrder(Trail)
    BY DEF OrderInv, LinkOrder
  <2> QED BY <2>2, <2>3, <2>4 DEF OnceInOrder, KeysOnceInOrder
<1> QED BY <1>1, <1>2, <1>3, OrderStep, BaseAlways, PTL DEF Spec

=============================================================================
