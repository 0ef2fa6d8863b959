---------------------------- MODULE StreamProofs ----------------------------
(***************************************************************************)
(* The output stream for any number of connections, cuts, bytes and frames *)
(* in flight.                                                              *)
(***************************************************************************)
EXTENDS Stream, ChunkProofs

Attaches == [stage : Stages, first : Nat, peer : Seq(Nat), from : Nat, epoch : Nat,
             streamer : {"off", "run", "wait", "done"}, reader : {"off", "on", "done"}]

Links == [clientEnd : BOOLEAN, daemonEnd : BOOLEAN, reset : BOOLEAN,
          down : Seq(Frame), up : Seq(Frame)]

Clients == [phase : {"idle", "hello", "live", "exited", "refused", "failed"},
            conn : Conns \cup {None}, shown : Seq(Nat), ackedThrough : Nat,
            ticker : [conn : Conns \cup {None}, off : Nat], reruns : 0..MaxReruns]

\* The variables other than attach, link and client.
PlainOK ==
  /\ total \in 0..MaxTotal /\ trim \in 0..MaxTotal /\ sealed \in BOOLEAN
  /\ {exited, exitDelivered, listening, starved, gapped} \subseteq BOOLEAN
  /\ activeConn \in Conns \cup {None} /\ epoch \in Nat /\ cuts \in 0..MaxCuts

-----------------------------------------------------------------------------
(* Types *)

\* TypeOK in four parts.
LEMMA TypeParts ==
  TypeOK <=> /\ PlainOK
             /\ attach \in [Conns -> Attaches]
             /\ link \in [Conns -> Links]
             /\ client \in Clients
BY DEF TypeOK, PlainOK, Attaches, Links, Clients

\* The same of the next state.
LEMMA TypePartsNext ==
  TypeOK' <=> /\ PlainOK'
              /\ attach' \in [Conns -> Attaches]
              /\ link' \in [Conns -> Links]
              /\ client' \in Clients
BY DEF TypeOK, PlainOK, Attaches, Links, Clients

\* The bytes of a slice.
LEMMA SliceIs ==
  ASSUME NEW lo \in Nat, NEW hi \in Nat, lo <= hi
  PROVE  /\ Slice(lo, hi) \in Seq(Nat) /\ Len(Slice(lo, hi)) = hi - lo
         /\ \A i \in 1..(hi - lo) : Slice(lo, hi)[i] = lo + i - 1
BY DEF Slice

\* The frames the actions write.
LEMMA FrameType ==
  /\ HelloAck \in Frame /\ Exit \in Frame
  /\ \A off \in Nat : Ack(off) \in Frame
  /\ \A bytes \in Seq(Nat) : Hello(bytes) \in Frame
  /\ \A off \in Nat, bytes \in Seq(Nat) : Output(off, bytes) \in Frame
BY DEF HelloAck, Exit, Ack, Hello, Output, Frame

\* Taking the first frame of a queue, and adding one.
LEMMA QueueType ==
  ASSUME NEW q \in Seq(Frame)
  PROVE  /\ q # <<>> => /\ Head(q) \in Frame /\ Head(q) = q[1] /\ 1 \in 1..Len(q)
                        /\ Head(q).off \in Nat /\ Head(q).bytes \in Seq(Nat)
                        /\ Tail(q) \in Seq(Frame) /\ Len(Tail(q)) = Len(q) - 1
                        /\ \A i \in 1..Len(Tail(q)) : Tail(q)[i] = q[i + 1]
         /\ \A f \in Frame : /\ Append(q, f) \in Seq(Frame)
                             /\ Len(Append(q, f)) = Len(q) + 1
                             /\ Append(q, f)[Len(q) + 1] = f
                             /\ \A i \in 1..Len(q) : Append(q, f)[i] = q[i]
<1>1. q # <<>> => Head(q) \in Frame /\ Head(q) = q[1] /\ 1 \in 1..Len(q)
  OBVIOUS
<1>2. q # <<>> => /\ Tail(q) \in Seq(Frame) /\ Len(Tail(q)) = Len(q) - 1
                  /\ \A i \in 1..Len(Tail(q)) : Tail(q)[i] = q[i + 1]
  OBVIOUS
<1>3. \A f \in Frame : /\ Append(q, f) \in Seq(Frame)
                       /\ Len(Append(q, f)) = Len(q) + 1
                       /\ Append(q, f)[Len(q) + 1] = f
                       /\ \A i \in 1..Len(q) : Append(q, f)[i] = q[i]
  OBVIOUS
<1>4. q # <<>> => Head(q).off \in Nat /\ Head(q).bytes \in Seq(Nat)
  BY <1>1 DEF Frame
<1> QED BY <1>1, <1>2, <1>3, <1>4

\* An attach that holds no state is one.
LEMMA NotServedType ==
  ASSUME NEW s \in Stages
  PROVE  NotServed(s) \in Attaches
BY DEF NotServed, Attaches

\* An attach that has just become the active one is one.
LEMMA ActiveType ==
  ASSUME NEW a \in Attaches, NEW e \in Nat
  PROVE  [a EXCEPT !.stage = "live", !.epoch = e, !.streamer = "run", !.reader = "on"]
           \in Attaches
<1> DEFINE b == [a EXCEPT !.stage = "live", !.epoch = e, !.streamer = "run"]
<1>1. b \in Attaches
  BY DEF Attaches, Stages
<1> HIDE DEF b
<1>2. [b EXCEPT !.reader = "on"] \in Attaches
  BY <1>1 DEF Attaches
<1> QED BY <1>2, Zenon DEF b

\* The links after the daemon wrote to one, or closed one, and after the client
\* lost one.
LEMMA LinksType ==
  ASSUME NEW ls \in [Conns -> Links], NEW c \in Conns
  PROVE  /\ Closed(ls, c) \in [Conns -> Links]
         /\ \A d \in Conns : /\ Closed(ls, c)[d].clientEnd = ls[d].clientEnd
                             /\ Closed(ls, c)[d].down = ls[d].down
         /\ ~Closed(ls, c)[c].daemonEnd /\ Closed(ls, c)[c].up = <<>>
         /\ \A d \in Conns \ {c} : Closed(ls, c)[d] = ls[d]
<1> DEFINE w == [ls[c] EXCEPT !.daemonEnd = FALSE, !.up = <<>>, !.reset = FALSE]
<1>1. Closed(ls, c) = [ls EXCEPT ![c] = w]
  BY Zenon DEF Closed
<1>2. <<>> \in Seq(Frame)
  OBVIOUS
<1>3. /\ w \in Links
      /\ w.clientEnd = ls[c].clientEnd /\ w.down = ls[c].down
      /\ ~w.daemonEnd /\ w.up = <<>>
  BY <1>2 DEF Links
<1> HIDE DEF w
<1>4. Closed(ls, c)[c] = w /\ \A d \in Conns \ {c} : Closed(ls, c)[d] = ls[d]
  BY <1>1
<1>5. Closed(ls, c) \in [Conns -> Links]
  BY <1>1, <1>3
<1> QED BY <1>3, <1>4, <1>5

\* The links after the daemon wrote a frame to one.
LEMMA SentType ==
  ASSUME link \in [Conns -> Links], NEW c \in Conns, NEW f \in Frame
  PROVE  /\ Sent(c, f) \in [Conns -> Links]
         /\ Sent(c, f)[c] = IF link[c].clientEnd
                            THEN [link[c] EXCEPT !.down = Append(@, f)] ELSE link[c]
         /\ \A d \in Conns \ {c} : Sent(c, f)[d] = link[d]
<1>1. CASE link[c].clientEnd
  <2> DEFINE w == [link[c] EXCEPT !.down = Append(@, f)]
  <2>1. Sent(c, f) = [link EXCEPT ![c] = w]
    BY <1>1 DEF Sent
  <2>2. link[c].down \in Seq(Frame)
    BY DEF Links
  <2>3. Append(link[c].down, f) \in Seq(Frame)
    BY <2>2
  <2>4. w \in Links
    BY <2>3 DEF Links
  <2> QED BY <1>1, <2>1, <2>4
<1>2. CASE ~link[c].clientEnd
  BY <1>2 DEF Sent
<1> QED BY <1>1, <1>2

\* The links after the client lost one.
LEMMA BrokenType ==
  ASSUME link \in [Conns -> Links], NEW c \in Conns
  PROVE  /\ Broken(c) \in [Conns -> Links]
         /\ Broken(c)[c] = [link[c] EXCEPT !.clientEnd = FALSE, !.down = <<>>]
         /\ \A d \in Conns \ {c} : Broken(c)[d] = link[d]
<1> DEFINE w == [link[c] EXCEPT !.clientEnd = FALSE, !.down = <<>>]
<1>1. Broken(c) = [link EXCEPT ![c] = w]
  BY Zenon DEF Broken
<1>2. <<>> \in Seq(Frame)
  OBVIOUS
<1>3. w \in Links
  BY <1>2 DEF Links
<1> QED BY <1>1, <1>3

\* The links after the client acknowledged something on one.
LEMMA AckedType ==
  ASSUME NEW ls \in [Conns -> Links], NEW c \in Conns, NEW off \in Nat
  PROVE  /\ Acked(ls, c, off) \in [Conns -> Links]
         /\ Acked(ls, c, off)[c].up \in {ls[c].up, Append(ls[c].up, Ack(off))}
         /\ \A d \in Conns : /\ Acked(ls, c, off)[d].clientEnd = ls[d].clientEnd
                             /\ Acked(ls, c, off)[d].daemonEnd = ls[d].daemonEnd
                             /\ Acked(ls, c, off)[d].reset = ls[d].reset
                             /\ Acked(ls, c, off)[d].down = ls[d].down
         /\ \A d \in Conns \ {c} : Acked(ls, c, off)[d] = ls[d]
<1>1. Ack(off) \in Frame
  BY FrameType
<1>2. CASE ls[c].clientEnd /\ ls[c].daemonEnd
  <2> DEFINE up == Append(ls[c].up, Ack(off))
             w == [ls[c] EXCEPT !.up = up]
  <2>1. ls[c].up \in Seq(Frame)
    BY DEF Links
  <2>2. up \in Seq(Frame)
    BY <1>1, <2>1
  <2>3. Acked(ls, c, off) = [ls EXCEPT ![c] = w]
    BY <1>2 DEF Acked
  <2> HIDE DEF up
  <2>4. /\ w \in Links /\ w.up = up
        /\ w.clientEnd = ls[c].clientEnd /\ w.daemonEnd = ls[c].daemonEnd
        /\ w.reset = ls[c].reset /\ w.down = ls[c].down
    BY <2>2 DEF Links
  <2> HIDE DEF w
  <2>5. Acked(ls, c, off)[c] = w /\ \A d \in Conns \ {c} : Acked(ls, c, off)[d] = ls[d]
    BY <2>3
  <2>6. Acked(ls, c, off) \in [Conns -> Links]
    BY <2>3, <2>4
  <2> QED BY <2>4, <2>5, <2>6 DEF up
<1>3. CASE ~(ls[c].clientEnd /\ ls[c].daemonEnd)
  BY <1>3 DEF Acked
<1> QED BY <1>2, <1>3

\* A function on 1..k is a sequence.
LEMMA ListOf ==
  ASSUME NEW T, NEW k \in Int, NEW f, f = [i \in 1..k |-> f[i]],
         \A i \in 1..k : f[i] \in T
  PROVE  f \in Seq(T) /\ (k \in Nat => Len(f) = k)
<1>1. CASE k \in Nat
  <2>1. f \in [1..k -> T]
    OBVIOUS
  <2> QED BY <1>1, <2>1
<1>2. CASE k \notin Nat
  <2>1. 1..k = {}
    BY <1>2
  <2>2. f = <<>>
    BY <2>1
  <2> QED BY <1>2, <2>2
<1> QED BY <1>1, <1>2

\* Both manifests a daemon compares are manifests, whatever was trimmed between
\* the reading of FirstIndex and that of the hashes, so the resend starts no
\* later than what the client has shown.
LEMMA ResendBound ==
  ASSUME NEW first \in Nat, NEW from \in Nat, NEW len \in Nat, NEW bytes \in Seq(Nat)
  PROVE  LET r == ResendFrom([firstIndex |-> first, hashes |-> HashesOf(from, len)],
                             PeerManifest(bytes))
         IN r \in Nat /\ r <= Len(bytes)
<1> DEFINE own == [firstIndex |-> first, hashes |-> HashesOf(from, len)]
           peer == PeerManifest(bytes)
           n == (len \div ChunkSize) - from
           m == Len(bytes) \div ChunkSize
           Hash == {HashesOf(from, len)[i] : i \in 1..n}
                     \cup {peer.hashes[i] : i \in 1..m}
<1>1. ChunkSize \in Nat \ {0} /\ Len(bytes) \in Nat
  BY ChunkAssumption DEF ChunkAssumption
<1>2. n \in Int /\ m \in Nat /\ m * ChunkSize <= Len(bytes)
  BY <1>1
<1>3. HashesOf(from, len) \in Seq(Hash)
  <2>1. HashesOf(from, len) = [i \in 1..n |-> HashesOf(from, len)[i]]
    BY DEF HashesOf
  <2>2. \A i \in 1..n : HashesOf(from, len)[i] \in Hash
    OBVIOUS
  <2> HIDE DEF Hash, n
  <2> QED BY <1>2, <2>1, <2>2, ListOf
<1>4. peer \in Manifest(Hash) /\ End(peer) = m
  <2>1. peer = [firstIndex |-> 0, hashes |-> peer.hashes]
    BY DEF PeerManifest
  <2>2. peer.hashes = [i \in 1..m |-> peer.hashes[i]]
    BY DEF PeerManifest
  <2>3. \A i \in 1..m : peer.hashes[i] \in Hash
    OBVIOUS
  <2> HIDE DEF Hash, m, peer
  <2>4. ASSUME NEW h, h = [i \in 1..m |-> h[i]], \A i \in 1..m : h[i] \in Hash
        PROVE  h \in Seq(Hash) /\ Len(h) = m
    BY <1>2, <2>4, ListOf
  <2>5. peer.hashes \in Seq(Hash) /\ Len(peer.hashes) = m
    BY <2>2, <2>3, <2>4, Zenon
  <2>6. ASSUME NEW h \in Seq(Hash)
        PROVE  [firstIndex |-> 0, hashes |-> h] \in Manifest(Hash)
    BY DEF Manifest
  <2>7. peer \in Manifest(Hash)
    BY <2>1, <2>5, <2>6, Zenon
  <2>8. peer.firstIndex = 0
    BY <2>1
  <2> QED BY <1>2, <2>5, <2>7, <2>8 DEF End
<1>5. own \in Manifest(Hash)
  BY <1>3 DEF Manifest
<1> HIDE DEF own, peer, Hash, m, n
<1>6. ResendFrom(own, peer) \in Nat /\ ResendFrom(own, peer) <= End(peer) * ChunkSize
  BY <1>4, <1>5, ResendIsExact
<1>7. ResendFrom(own, peer) <= Len(bytes)
  BY <1>1, <1>2, <1>4, <1>6
<1> QED BY <1>6, <1>7 DEF own, peer

\* Frames read are frames.
LEMMA ReceivedType ==
  ASSUME link \in [Conns -> Links], NEW c \in Conns, link[c].up # <<>>
  PROVE  /\ Head(link[c].up) = link[c].up[1] /\ 1 \in 1..Len(link[c].up)
         /\ Head(link[c].up).off \in Nat /\ Head(link[c].up).bytes \in Seq(Nat)
         /\ [link EXCEPT ![c].up = Tail(@)] \in [Conns -> Links]
<1>1. link[c].up \in Seq(Frame)
  BY DEF Links
<1>2. [link[c] EXCEPT !.up = Tail(@)] \in Links
  <2>1. Tail(link[c].up) \in Seq(Frame)
    BY <1>1
  <2> QED BY <2>1 DEF Links
<1>3. [link EXCEPT ![c].up = Tail(@)] = [link EXCEPT ![c] = [link[c] EXCEPT !.up = Tail(@)]]
  BY Zenon
<1>4. [link EXCEPT ![c].up = Tail(@)] \in [Conns -> Links]
  BY <1>2, <1>3
<1>5. /\ Head(link[c].up) = link[c].up[1] /\ 1 \in 1..Len(link[c].up)
      /\ Head(link[c].up).off \in Nat /\ Head(link[c].up).bytes \in Seq(Nat)
  BY <1>1, QueueType
<1> QED BY <1>4, <1>5

\* The links after the client has read a frame, and the frame.
LEMMA TakenType ==
  ASSUME link \in [Conns -> Links], client.conn \in Conns, link[client.conn].down # <<>>
  PROVE  LET q == link[client.conn].down
         IN /\ Head(q) = q[1] /\ 1 \in 1..Len(q)
            /\ Head(q).off \in Nat /\ Head(q).bytes \in Seq(Nat)
            /\ Taken \in [Conns -> Links]
            /\ Taken[client.conn] = [link[client.conn] EXCEPT !.down = Tail(@)]
            /\ \A d \in Conns \ {client.conn} : Taken[d] = link[d]
<1> DEFINE c == client.conn
           w == [link[c] EXCEPT !.down = Tail(@)]
<1>1. link[c].down \in Seq(Frame)
  BY DEF Links
<1>2. w \in Links
  <2>1. Tail(link[c].down) \in Seq(Frame)
    BY <1>1
  <2> QED BY <2>1 DEF Links
<1>3. Taken = [link EXCEPT ![c] = w]
  BY Zenon DEF Taken
<1>4. Taken \in [Conns -> Links] /\ Taken[c] = w /\ \A d \in Conns \ {c} : Taken[d] = link[d]
  BY <1>2, <1>3
<1>5. LET q == link[c].down
      IN /\ Head(q) = q[1] /\ 1 \in 1..Len(q)
         /\ Head(q).off \in Nat /\ Head(q).bytes \in Seq(Nat)
  BY <1>1, QueueType
<1> QED BY <1>4, <1>5

\* Init gives every variable its type.
LEMMA TypeInit == Init => TypeOK
<1> SUFFICES ASSUME Init PROVE TypeOK
  OBVIOUS
<1>0. MaxTotal \in Nat /\ MaxCuts \in Nat /\ MaxReruns \in Nat
  BY StreamAssumption DEF StreamAssumption
<1>1. PlainOK
  <2>1. total \in 0..MaxTotal /\ trim \in 0..MaxTotal
    BY <1>0 DEF Init
  <2>2. sealed \in BOOLEAN /\ {exited, exitDelivered, listening, starved, gapped} \subseteq BOOLEAN
    BY Zenon DEF Init
  <2>3. activeConn \in Conns \cup {None} /\ epoch \in Nat /\ cuts \in 0..MaxCuts
    BY <1>0 DEF Init
  <2> QED BY <2>1, <2>2, <2>3 DEF PlainOK
<1>2. attach \in [Conns -> Attaches]
  BY NotServedType DEF Init, Stages
<1>3. link \in [Conns -> Links]
  BY DEF Init, Links
<1>4. client \in Clients
  <2>1. <<>> \in Seq(Nat)
    OBVIOUS
  <2> QED BY <1>0, <2>1 DEF Init, Clients, NoTick, None
<1> QED BY <1>1, <1>2, <1>3, <1>4, TypeParts

\* So does every step of the shell, of an attach, of its streamer and reader,
\* and of the client.
LEMMA ShellType == TypeOK /\ Shell => TypeOK'
<1> SUFFICES ASSUME TypeOK, Shell PROVE TypeOK'
  OBVIOUS
<1>1. PlainOK /\ total \in Nat /\ MaxTotal \in Nat
  BY TypeParts, StreamAssumption DEF PlainOK, StreamAssumption
<1>2. CASE PumpAppend
  BY <1>1, <1>2, TypeParts, TypePartsNext
     DEF PlainOK, PumpAppend, shell, active, history
<1>3. CASE PumpEOF
  BY <1>1, <1>3, TypeParts, TypePartsNext
     DEF PlainOK, PumpEOF, shell, active, history
<1>4. CASE WaitCmd
  BY <1>1, <1>4, TypeParts, TypePartsNext
     DEF PlainOK, WaitCmd, window, active, history
<1> QED BY <1>2, <1>3, <1>4 DEF Shell

\* Each step of serveAttach keeps the types.
LEMMA ServeType ==
  ASSUME TypeOK, NEW c \in Conns, Serve(c)
  PROVE  TypeOK'
<1> DEFINE Goal == PlainOK' /\ attach' \in [Conns -> Attaches] /\ link' \in [Conns -> Links]
                   /\ client' \in Clients
<1>a. /\ PlainOK /\ attach \in [Conns -> Attaches] /\ link \in [Conns -> Links]
      /\ client \in Clients
  BY TypeParts
<1>b. /\ attach[c] \in Attaches /\ NotServed("gone") \in Attaches /\ trim \in Nat /\ total \in Nat
      /\ epoch \in Nat
  BY <1>a, NotServedType, StreamAssumption DEF Stages, PlainOK, StreamAssumption
<1>c. \A a \in Attaches : [attach EXCEPT ![c] = a] \in [Conns -> Attaches]
  BY <1>a
<1>d. Closed(link, c) \in [Conns -> Links]
  BY <1>a, LinksType
<1>1. ASSUME ReadHello(c) PROVE Goal
  <2> DEFINE a == [attach[c] EXCEPT !.stage = "manifest", !.peer = Head(link[c].up).bytes,
                                    !.first = trim \div ChunkSize]
  <2>1. link[c].up # <<>>
    BY <1>1 DEF ReadHello, Receives
  <2>2. attach' = [attach EXCEPT ![c] = a]
    BY <1>1, Zenon DEF ReadHello
  <2>3. trim \div ChunkSize \in Nat
    BY <1>b, ChunkAssumption DEF ChunkAssumption
  <2>4. a \in Attaches
    BY <1>a, <1>b, <2>1, <2>3, ReceivedType DEF Attaches, Stages
  <2>5. attach' \in [Conns -> Attaches]
    BY <1>c, <2>2, <2>4
  <2>6. link' \in [Conns -> Links]
    BY <1>1, <1>a, <2>1, ReceivedType DEF ReadHello
  <2> QED
    BY <1>1, <1>a, <2>5, <2>6 DEF ReadHello, PlainOK, window, shell, active, history
<1>2. ASSUME CompareManifests(c) PROVE Goal
  <2> DEFINE r == ResendFrom([firstIndex |-> attach[c].first,
                              hashes |-> HashesOf(trim \div ChunkSize, total)],
                             PeerManifest(attach[c].peer))
             a == [attach[c] EXCEPT !.stage = "resend", !.from = r, !.peer = <<>>]
  <2>1. attach' = [attach EXCEPT ![c] = a]
    BY <1>2, Zenon DEF CompareManifests
  <2>2. trim \div ChunkSize \in Nat /\ attach[c].first \in Nat /\ attach[c].peer \in Seq(Nat)
    <3>1. trim \div ChunkSize \in Nat
      BY <1>b, ChunkAssumption DEF ChunkAssumption
    <3>2. attach[c] \in Attaches
      BY <1>b
    <3> QED BY <3>1, <3>2 DEF Attaches
  <2>3. r \in Nat
    BY <1>b, <2>2, ResendBound
  <2>4. a \in Attaches
    <3>1. <<>> \in Seq(Nat)
      OBVIOUS
    <3> HIDE DEF r
    <3> QED BY <1>b, <2>3, <3>1 DEF Attaches, Stages
  <2>5. attach' \in [Conns -> Attaches]
    BY <1>c, <2>1, <2>4
  <2> QED
    BY <1>2, <1>a, <2>5 DEF CompareManifests, PlainOK, window, shell, active, history
<1>3. ASSUME SendHelloAck(c) PROVE Goal
  <2> DEFINE a == [attach[c] EXCEPT !.stage = "acked", !.from = Resume(@), !.first = 0]
  <2>1. a \in Attaches
    BY <1>b DEF Attaches, Stages, Resume, Greater
  <2>2. [attach EXCEPT ![c].stage = "acked", ![c].from = Resume(@), ![c].first = 0]
          = [attach EXCEPT ![c] = a]
    BY Zenon
  <2>3. attach' \in [Conns -> Attaches]
    BY <1>3, <1>b, <1>c, <2>1, <2>2 DEF SendHelloAck
  <2>4. link' \in [Conns -> Links]
    <3>1. Sent(c, HelloAck) \in [Conns -> Links]
      BY <1>a, FrameType, SentType
    <3> QED BY <1>3, <1>d, <3>1 DEF SendHelloAck
  <2> QED
    BY <1>3, <1>a, <2>3, <2>4 DEF SendHelloAck, PlainOK, window, shell, active, history
<1>4. ASSUME HelloFails(c) PROVE Goal
  BY <1>4, <1>a, <1>b, <1>c, <1>d DEF HelloFails, PlainOK, window, shell, active, history
<1>5. ASSUME Activate(c) PROVE Goal
  <2> DEFINE a == [attach[c] EXCEPT !.stage = "live", !.epoch = epoch + 1,
                                    !.streamer = "run", !.reader = "on"]
  <2>1. attach' = [attach EXCEPT ![c] = a]
    BY <1>5, Zenon DEF Activate
  <2>2. a \in Attaches
    <3>1. epoch + 1 \in Nat
      BY <1>b
    <3> QED BY <1>b, <3>1, ActiveType
  <2>3. attach' \in [Conns -> Attaches]
    BY <1>c, <2>1, <2>2
  <2>4. link' \in [Conns -> Links]
    <3>1. activeConn # None => activeConn \in Conns
      BY <1>a DEF PlainOK
    <3> QED BY <1>5, <1>a, <3>1, LinksType DEF Activate, Kicked
  <2> QED
    BY <1>5, <1>a, <1>b, <2>3, <2>4 DEF Activate, PlainOK, window, shell, history
<1>6. ASSUME Superseded(c) PROVE Goal
  <2>1. [attach[c] EXCEPT !.stage = "closing"] \in Attaches
    BY <1>b DEF Attaches, Stages
  <2>2. attach' \in [Conns -> Attaches]
    BY <1>6, <1>c, <2>1 DEF Superseded
  <2> QED
    BY <1>6, <1>a, <1>d, <2>2 DEF Superseded, PlainOK, window, shell, active, history
<1>7. ASSUME Exiting(c) PROVE Goal
  <2>1. [attach[c] EXCEPT !.stage = "drain"] \in Attaches
    BY <1>b DEF Attaches, Stages
  <2>2. attach' \in [Conns -> Attaches]
    BY <1>7, <1>c, <2>1 DEF Exiting
  <2> QED
    BY <1>7, <1>a, <2>2 DEF Exiting, PlainOK, window, shell, active, history
<1>8. ASSUME SendExit(c) PROVE Goal
  <2>1. [attach[c] EXCEPT !.stage = "closing"] \in Attaches
    BY <1>b DEF Attaches, Stages
  <2>2. attach' \in [Conns -> Attaches]
    BY <1>8, <1>c, <2>1 DEF SendExit
  <2>3. link' \in [Conns -> Links]
    <3>1. Sent(c, Exit) \in [Conns -> Links]
      BY <1>a, FrameType, SentType
    <3>2. Closed(Sent(c, Exit), c) \in [Conns -> Links]
      BY <3>1, LinksType
    <3> QED BY <1>8, <1>d, <3>2 DEF SendExit
  <2> QED
    BY <1>8, <1>a, <2>2, <2>3 DEF SendExit, PlainOK, window, active, history
<1>9. ASSUME Cleanup(c) PROVE Goal
  <2>1. activeConn' \in Conns \cup {None}
    BY <1>9, <1>a DEF Cleanup, Released, PlainOK
  <2> QED
    BY <1>9, <1>a, <1>b, <1>c, <2>1 DEF Cleanup, PlainOK, window, shell, history
<1>10. Goal => TypeOK'
  BY TypePartsNext
<1> HIDE DEF Goal
<1> QED
  BY <1>1, <1>2, <1>3, <1>4, <1>5, <1>6, <1>7, <1>8, <1>9, <1>10 DEF Serve

\* Each step of a streamer does.
LEMMA StreamerType ==
  ASSUME TypeOK, NEW c \in Conns, Streamer(c)
  PROVE  TypeOK'
<1>a. /\ PlainOK /\ attach \in [Conns -> Attaches] /\ link \in [Conns -> Links]
      /\ client \in Clients
  BY TypeParts
<1>b. attach[c] \in Attaches /\ attach[c].from \in Nat /\ total \in Nat /\ MaxRead \in Nat
  BY <1>a, StreamAssumption DEF Attaches, PlainOK, StreamAssumption
<1>c. \A a \in Attaches : [attach EXCEPT ![c] = a] \in [Conns -> Attaches]
  BY <1>a
<1>d. \A st \in {"run", "wait", "done"} : [attach[c] EXCEPT !.streamer = st] \in Attaches
  BY <1>b DEF Attaches
<1>1. CASE StreamOutput(c)
  <2> DEFINE off == attach[c].from
             end == Lesser(off + MaxRead, total)
  <2>1. end \in Nat /\ off < total => off <= end
    BY <1>b DEF Lesser
  <2>2. off < total /\ attach' = [attach EXCEPT ![c].from = end]
        /\ link' = Sent(c, Output(off, Slice(off, end)))
    BY <1>1 DEF StreamOutput
  <2>3. end \in Nat
    BY <1>b DEF Lesser
  <2> HIDE DEF end
  <2>4. [attach[c] EXCEPT !.from = end] \in Attaches
    BY <1>b, <2>3 DEF Attaches
  <2>5. attach' \in [Conns -> Attaches]
    BY <1>c, <2>2, <2>4
  <2>6. Output(off, Slice(off, end)) \in Frame
    BY <1>b, <2>1, <2>2, <2>3, SliceIs, FrameType
  <2>7. link' \in [Conns -> Links]
    BY <1>a, <2>2, <2>6, SentType
  <2>8. UNCHANGED <<window, shell, active, client, history>>
    BY <1>1 DEF StreamOutput
  <2> QED
    BY <1>a, <2>5, <2>7, <2>8, TypePartsNext DEF PlainOK, window, shell, active, history
<1>2. ASSUME StreamDrained(c) \/ StreamWakes(c) \/ StreamEnds(c)
      PROVE  TypeOK'
  <2>1. \E st \in {"run", "wait", "done"} : attach' = [attach EXCEPT ![c].streamer = st]
    BY <1>2 DEF StreamDrained, StreamWakes, StreamEnds
  <2>2. attach' \in [Conns -> Attaches]
    BY <1>c, <1>d, <2>1
  <2>3. UNCHANGED <<window, shell, active, link, client, cuts, gapped>>
    BY <1>2 DEF StreamDrained, StreamWakes, StreamEnds, history
  <2>4. starved' \in BOOLEAN
    BY <1>2, <1>a, Zenon DEF StreamDrained, StreamWakes, StreamEnds, history, PlainOK
  <2> QED
    BY <1>a, <2>2, <2>3, <2>4, TypePartsNext DEF PlainOK, window, shell, active
<1> QED BY <1>1, <1>2 DEF Streamer

\* Each step of a reader does, and a break that is noticed.
LEMMA ReaderType ==
  ASSUME TypeOK, NEW c \in Conns, Reader(c) \/ Reset(c)
  PROVE  TypeOK'
<1>a. /\ PlainOK /\ attach \in [Conns -> Attaches] /\ link \in [Conns -> Links]
      /\ client \in Clients
  BY TypeParts
<1>b. attach[c] \in Attaches /\ link[c] \in Links /\ epoch \in Nat /\ MaxTotal \in Nat
  BY <1>a, StreamAssumption DEF PlainOK, StreamAssumption
<1>1. CASE ReadAck(c)
  <2>1. link[c].up # <<>>
    BY <1>1 DEF ReadAck, Receives
  <2>2. link' \in [Conns -> Links] /\ Head(link[c].up).off \in Nat
    BY <1>1, <1>a, <2>1, ReceivedType DEF ReadAck
  <2>3. trim' \in 0..MaxTotal
    BY <1>1, <1>a, <1>b, <2>2 DEF ReadAck, TrimmedTo, Greater, Lesser, PlainOK
  <2>4. UNCHANGED <<total, sealed, shell, active, attach, client, history>>
    BY <1>1 DEF ReadAck
  <2> QED
    BY <1>a, <2>2, <2>3, <2>4, TypePartsNext DEF PlainOK, shell, active, history
<1>2. CASE ReaderEnds(c)
  <2>1. [attach[c] EXCEPT !.reader = "done"] \in Attaches
    BY <1>b DEF Attaches
  <2>2. attach' \in [Conns -> Attaches] /\ epoch' \in Nat
    BY <1>2, <1>a, <1>b, <2>1 DEF ReaderEnds
  <2>3. UNCHANGED <<window, shell, activeConn, link, client, history>>
    BY <1>2 DEF ReaderEnds
  <2> QED
    BY <1>a, <2>2, <2>3, TypePartsNext DEF PlainOK, window, shell, history
<1>3. CASE Reset(c)
  <2>1. PICK up \in {link[c].up, <<>>} : link' = [link EXCEPT ![c].reset = TRUE, ![c].up = up]
    BY <1>3 DEF Reset
  <2>2. up \in Seq(Frame)
    <3>1. <<>> \in Seq(Frame) /\ link[c].up \in Seq(Frame)
      BY <1>b DEF Links
    <3> QED BY <3>1
  <2>3. [link[c] EXCEPT !.reset = TRUE, !.up = up] \in Links
    BY <1>b, <2>2 DEF Links
  <2>4. link' = [link EXCEPT ![c] = [link[c] EXCEPT !.reset = TRUE, !.up = up]]
    BY <2>1, Zenon
  <2>5. link' \in [Conns -> Links]
    BY <1>a, <2>3, <2>4
  <2>6. UNCHANGED <<window, shell, active, attach, client, history>>
    BY <1>3 DEF Reset
  <2> QED
    BY <1>a, <2>5, <2>6, TypePartsNext DEF PlainOK, window, shell, active, history
<1> QED BY <1>1, <1>2, <1>3 DEF Reader

\* The end of a sequence.
LEMMA SuffixType ==
  ASSUME NEW b \in Seq(Nat), NEW m \in Nat
  PROVE  SubSeq(b, m + 1, Len(b)) \in Seq(Nat)
OBVIOUS

\* An OUTPUT frame is dropped, or shown and perhaps acknowledged.
LEMMA OutputCases ==
  ASSUME RecvOutput
  PROVE  LET f     == Head(link[client.conn].down)
             held  == Len(client.shown)
             shown == client.shown \o Fresh(f)
         IN \/ /\ f.off + Len(f.bytes) <= held \/ f.off > held
               /\ client' = client /\ link' = Taken
               /\ gapped' = (gapped \/ f.off > held)
            \/ /\ ~(f.off + Len(f.bytes) <= held) /\ ~(f.off > held)
               /\ client' = [client EXCEPT !.shown = shown, !.ackedThrough = Len(shown)]
               /\ link' = Acked(Taken, client.conn, Len(shown))
               /\ gapped' = gapped
            \/ /\ ~(f.off + Len(f.bytes) <= held) /\ ~(f.off > held)
               /\ client' = [client EXCEPT !.shown = shown]
               /\ link' = Taken
               /\ gapped' = gapped
BY Zenon DEF RecvOutput

\* The client has a connection while it handshakes and while it is live.
Connected == client.phase \in {"hello", "live"}

ConnectedOK == Connected => client.conn \in Conns

\* Each step of the client, of its ticker, of the listener and of the network
\* does.
LEMMA ClientType ==
  ASSUME TypeOK, ConnectedOK,
         \/ CloseListener \/ Connect \/ ConnectRefused \/ Rerun \/ ClientReads
         \/ TickerLoads \/ TickerTakes \/ TickerWrites \/ Cut
  PROVE  TypeOK'
<1>a. /\ PlainOK /\ attach \in [Conns -> Attaches] /\ link \in [Conns -> Links]
      /\ client \in Clients
  BY TypeParts
<1>b. /\ client.shown \in Seq(Nat) /\ Len(client.shown) \in Nat /\ client.ackedThrough \in Nat
      /\ client.conn \in Conns \cup {None} /\ client.reruns \in 0..MaxReruns
      /\ client.ticker \in [conn : Conns \cup {None}, off : Nat]
      /\ client.ticker.off \in Nat /\ client.ticker.conn \in Conns \cup {None}
      /\ MaxReruns \in Nat /\ MaxCuts \in Nat
  BY <1>a, StreamAssumption DEF Clients, StreamAssumption
<1>c. NoTick \in [conn : Conns \cup {None}, off : Nat] /\ <<>> \in Seq(Nat)
  BY DEF NoTick
<1>d. Connected => Broken(client.conn) \in [Conns -> Links]
  BY <1>a, BrokenType DEF ConnectedOK
<1>e. Retried \in Clients
  BY <1>a DEF Retried, Clients
<1>f. \A ph \in {"hello", "live", "exited", "refused", "failed"} :
        [client EXCEPT !.phase = ph] \in Clients
  BY <1>a DEF Clients
<1>1. CASE CloseListener
  <2>1. UNCHANGED <<window, exited, exitDelivered, active, attach, link, client, history>>
        /\ listening' = FALSE
    BY <1>1 DEF CloseListener
  <2>2. listening' \in BOOLEAN
    BY <2>1, Zenon
  <2> QED
    BY <1>a, <2>1, <2>2, TypePartsNext DEF PlainOK, window, active, history
<1>2. CASE Connect
  <2> DEFINE c == client.conn + 1
             w == [link[c] EXCEPT !.clientEnd = TRUE, !.daemonEnd = TRUE,
                                  !.up = <<Hello(client.shown)>>]
  <2>1. c \in Conns /\ client' = [client EXCEPT !.phase = "hello", !.conn = c]
        /\ attach' = [attach EXCEPT ![c].stage = "hello"]
        /\ UNCHANGED <<window, shell, active, history>>
    BY <1>2 DEF Connect
  <2>2. link' = [link EXCEPT ![c] = w]
    BY <1>2, Zenon DEF Connect
  <2> HIDE DEF c
  <2>3. <<Hello(client.shown)>> \in Seq(Frame)
    BY <1>b, FrameType
  <2>4. w \in Links
    BY <1>a, <2>1, <2>3 DEF Links
  <2>5. link' \in [Conns -> Links]
    BY <1>a, <2>2, <2>4
  <2>6. [attach[c] EXCEPT !.stage = "hello"] \in Attaches
    BY <1>a, <2>1 DEF Attaches, Stages
  <2>7. attach' \in [Conns -> Attaches]
    BY <1>a, <2>1, <2>6
  <2>8. client' \in Clients
    BY <1>a, <2>1 DEF Clients
  <2> QED
    BY <1>a, <2>1, <2>5, <2>7, <2>8, TypePartsNext DEF PlainOK, window, shell, active, history
<1>3. CASE ConnectRefused
  BY <1>3, <1>a, <1>f, TypePartsNext
     DEF ConnectRefused, PlainOK, window, shell, active, history
<1>4. CASE Rerun
  <2> DEFINE w == [client EXCEPT !.phase = "idle", !.shown = <<>>, !.ackedThrough = 0,
                                 !.ticker = NoTick]
  <2>1. client' = [w EXCEPT !.reruns = client.reruns + 1] /\ client.reruns < MaxReruns
    BY <1>4, Zenon DEF Rerun
  <2>2. [client EXCEPT !.phase = "idle", !.shown = <<>>] \in Clients
    BY <1>a, <1>c DEF Clients
  <2>3. \A v \in Clients : [v EXCEPT !.ackedThrough = 0, !.ticker = NoTick] \in Clients
    BY <1>c DEF Clients
  <2>4. w \in Clients
    BY <2>2, <2>3, Zenon
  <2>5. client.reruns + 1 \in 0..MaxReruns
    BY <1>b, <2>1
  <2> HIDE DEF w
  <2>6. client' \in Clients
    BY <2>1, <2>4, <2>5 DEF Clients
  <2> QED
    BY <1>4, <1>a, <2>6, TypePartsNext DEF Rerun, PlainOK, window, shell, active, history
<1>5. CASE RecvHelloAck
  <2>1. client.conn \in Conns /\ link[client.conn].down # <<>>
    BY <1>5 DEF RecvHelloAck, Incoming, Connected, ConnectedOK
  <2>2. link' \in [Conns -> Links]
    BY <1>5, <1>a, <2>1, TakenType DEF RecvHelloAck
  <2>3. [client EXCEPT !.phase = "live", !.ackedThrough = Len(client.shown)] \in Clients
    BY <1>a, <1>b DEF Clients
  <2> QED
    BY <1>5, <1>a, <2>2, <2>3, TypePartsNext
       DEF RecvHelloAck, PlainOK, window, shell, active, history
<1>6. CASE RecvOutput
  <2> DEFINE f == Head(link[client.conn].down)
             shown == client.shown \o Fresh(f)
  <2>1. client.conn \in Conns /\ link[client.conn].down # <<>>
    BY <1>6 DEF RecvOutput, Incoming, Connected, ConnectedOK
  <2>2. f.off \in Nat /\ f.bytes \in Seq(Nat) /\ Taken \in [Conns -> Links]
    BY <1>a, <2>1, TakenType
  <2>3. f.off <= Len(client.shown) => shown \in Seq(Nat) /\ Len(shown) \in Nat
    <3> HIDE DEF f
    <3> SUFFICES ASSUME f.off <= Len(client.shown)
                 PROVE  shown \in Seq(Nat) /\ Len(shown) \in Nat
      OBVIOUS
    <3>1. Len(client.shown) - f.off \in Nat
      BY <1>b, <2>2
    <3>2. Fresh(f) \in Seq(Nat)
      BY <2>2, <3>1, SuffixType DEF Fresh
    <3> QED BY <1>b, <3>2
  <2>4. gapped' \in BOOLEAN
    <3>1. gapped \in BOOLEAN
      BY <1>a, Zenon DEF PlainOK
    <3>2. gapped' = gapped \/ gapped' = (gapped \/ f.off > Len(client.shown))
      BY <1>6 DEF RecvOutput
    <3> QED BY <3>1, <3>2, Zenon
  <2>5. UNCHANGED <<window, shell, active, attach, cuts, starved>>
    BY <1>6 DEF RecvOutput
  <2> HIDE DEF f, shown
  <2>6. \/ client' = client /\ link' = Taken
        \/ /\ f.off <= Len(client.shown)
           /\ client' = [client EXCEPT !.shown = shown, !.ackedThrough = Len(shown)]
           /\ link' = Acked(Taken, client.conn, Len(shown))
        \/ /\ f.off <= Len(client.shown)
           /\ client' = [client EXCEPT !.shown = shown]
           /\ link' = Taken
    <3>1. ~(f.off > Len(client.shown)) => f.off <= Len(client.shown)
      BY <1>b, <2>2
    <3> QED BY <1>6, <3>1, OutputCases, Zenon DEF f, shown
  <2>7. client' \in Clients /\ link' \in [Conns -> Links]
    <3>1. CASE client' = client /\ link' = Taken
      BY <1>a, <2>2, <3>1
    <3>2. CASE /\ f.off <= Len(client.shown)
               /\ client' = [client EXCEPT !.shown = shown, !.ackedThrough = Len(shown)]
               /\ link' = Acked(Taken, client.conn, Len(shown))
      <4>1. client' \in Clients
        BY <1>a, <2>3, <3>2 DEF Clients
      <4> QED BY <2>1, <2>2, <2>3, <3>2, <4>1, AckedType
    <3>3. CASE /\ f.off <= Len(client.shown)
               /\ client' = [client EXCEPT !.shown = shown]
               /\ link' = Taken
      BY <1>a, <2>2, <2>3, <3>3 DEF Clients
    <3> QED BY <2>6, <3>1, <3>2, <3>3
  <2> QED
    BY <1>a, <2>4, <2>5, <2>7, TypePartsNext DEF PlainOK, window, shell, active
<1>7. CASE RecvExit
  <2>1. Connected
    BY <1>7 DEF RecvExit, Connected
  <2> QED
    BY <1>7, <1>a, <1>d, <1>f, <2>1, TypePartsNext
       DEF RecvExit, PlainOK, window, shell, active, history
<1>8. CASE RecvEOF
  BY <1>8, <1>a, <1>d, <1>e, TypePartsNext
     DEF RecvEOF, Connected, PlainOK, window, shell, active, history
<1>9. ASSUME TickerLoads \/ TickerTakes
      PROVE  TypeOK'
  <2>1. \A n \in Nat : [client.ticker EXCEPT !.off = n] \in [conn : Conns \cup {None}, off : Nat]
    BY <1>b
  <2>2. [client.ticker EXCEPT !.conn = client.conn] \in [conn : Conns \cup {None}, off : Nat]
    BY <1>b
  <2>3. \A k \in [conn : Conns \cup {None}, off : Nat] : [client EXCEPT !.ticker = k] \in Clients
    BY <1>a DEF Clients
  <2>4. \A k \in [conn : Conns \cup {None}, off : Nat], n \in Nat :
          [client EXCEPT !.ticker = k, !.ackedThrough = n] \in Clients
    BY <1>a DEF Clients
  <2>5. CASE TickerLoads
    <3>1. client' = [client EXCEPT !.ticker = [client.ticker EXCEPT !.conn = client.conn]]
      BY <2>5, Zenon DEF TickerLoads
    <3>2. client' \in Clients
      BY <2>2, <2>3, <3>1
    <3> QED
      BY <1>a, <2>5, <3>2, TypePartsNext
         DEF TickerLoads, PlainOK, window, shell, active, history
  <2>6. CASE TickerTakes
    <3>1. ASSUME client' = [client EXCEPT !.ticker = NoTick]
          PROVE  client' \in Clients
      BY <1>c, <2>3, <3>1
    <3>2. ASSUME client' = [client EXCEPT !.ticker = [client.ticker EXCEPT !.off = Len(client.shown)],
                                          !.ackedThrough = Len(client.shown)]
          PROVE  client' \in Clients
      <4>1. [client.ticker EXCEPT !.off = Len(client.shown)] \in [conn : Conns \cup {None}, off : Nat]
        BY <1>b, <2>1
      <4> QED BY <1>b, <2>4, <3>2, <4>1
    <3>3. client' \in Clients
      <4>1. \/ client' = [client EXCEPT !.ticker = NoTick]
            \/ client' = [client EXCEPT !.ticker.off = Len(client.shown),
                                        !.ackedThrough = Len(client.shown)]
        BY <2>6, Zenon DEF TickerTakes
      <4>2. [client EXCEPT !.ticker.off = Len(client.shown), !.ackedThrough = Len(client.shown)]
              = [client EXCEPT !.ticker = [client.ticker EXCEPT !.off = Len(client.shown)],
                               !.ackedThrough = Len(client.shown)]
        BY Zenon
      <4> QED BY <3>1, <3>2, <4>1, <4>2, Zenon
    <3> QED
      BY <1>a, <2>6, <3>3, TypePartsNext
         DEF TickerTakes, PlainOK, window, shell, active, history
  <2> QED BY <1>9, <2>5, <2>6
<1>10. CASE TickerWrites
  <2>1. client' \in Clients
    BY <1>10, <1>a, <1>c DEF TickerWrites, Clients
  <2>2. link' \in [Conns -> Links]
    <3>1. CASE client.ticker.conn \in Conns
      BY <1>10, <1>a, <1>b, <3>1, AckedType DEF TickerWrites
    <3>2. CASE client.ticker.conn \notin Conns
      BY <1>10, <1>a, <3>2 DEF TickerWrites, Acked
    <3> QED BY <3>1, <3>2
  <2> QED
    BY <1>10, <1>a, <2>1, <2>2, TypePartsNext
       DEF TickerWrites, PlainOK, window, shell, active, history
<1>11. CASE Cut
  <2>1. cuts' \in 0..MaxCuts
    BY <1>11, <1>a, <1>b DEF Cut, PlainOK
  <2> QED
    BY <1>11, <1>a, <1>d, <1>e, <2>1, TypePartsNext
       DEF Cut, Connected, PlainOK, window, shell, active
<1> QED
  BY <1>1, <1>2, <1>3, <1>4, <1>5, <1>6, <1>7, <1>8, <1>9, <1>10, <1>11 DEF ClientReads

\* Every step keeps the types.
LEMMA TypeStep == TypeOK /\ ConnectedOK /\ [Next]_vars => TypeOK'
<1> SUFFICES ASSUME TypeOK, ConnectedOK, [Next]_vars PROVE TypeOK'
  OBVIOUS
<1>1. CASE UNCHANGED vars
  BY <1>1, TypeParts, TypePartsNext DEF vars, PlainOK
<1>2. CASE Next
  BY <1>2, ShellType, ServeType, StreamerType, ReaderType, ClientType DEF Next
<1> QED BY <1>1, <1>2

-----------------------------------------------------------------------------
(* Who touches what *)

\* A step of the daemon for connection c.
Serves(c) == Serve(c) \/ Streamer(c) \/ Reader(c) \/ Reset(c)

\* A step of the client or of its ticker, or the network's.
Client ==
  \/ Connect \/ ConnectRefused \/ Rerun \/ ClientReads
  \/ TickerLoads \/ TickerTakes \/ TickerWrites \/ Cut

\* Next, by who takes the step.
LEMMA NextParts ==
  Next <=> Shell \/ CloseListener \/ Client \/ \E c \in Conns : Serves(c)
BY Zenon DEF Next, Client, Serves

\* The daemon's steps for one connection leave the client, the other attaches
\* and what is not theirs alone, and need an attach that has begun.
LEMMA ServesTouches ==
  ASSUME TypeOK, NEW c \in Conns, Serves(c)
  PROVE  /\ UNCHANGED <<client, total, sealed, exited, gapped, cuts>>
         /\ \A d \in Conns \ {c} : attach'[d] = attach[d]
         /\ attach'[c] = attach[c] \/ attach[c] # NotServed("none")
         /\ \A d \in Conns : link'[d].clientEnd = link[d].clientEnd
<1>a. attach \in [Conns -> Attaches] /\ link \in [Conns -> Links] /\ activeConn \in Conns \cup {None}
  BY TypeParts DEF PlainOK
<1>b. \A d \in Conns : Closed(link, c)[d].clientEnd = link[d].clientEnd
  BY <1>a, LinksType
<1>c. ASSUME NEW f \in Frame
      PROVE  \A d \in Conns : /\ Sent(c, f)[d].clientEnd = link[d].clientEnd
                              /\ Closed(Sent(c, f), c)[d].clientEnd = link[d].clientEnd
  <2>1. Sent(c, f) \in [Conns -> Links]
    BY <1>a, SentType
  <2>2. \A d \in Conns : Sent(c, f)[d].clientEnd = link[d].clientEnd
    <3>1. /\ Sent(c, f)[c] = IF link[c].clientEnd
                             THEN [link[c] EXCEPT !.down = Append(@, f)] ELSE link[c]
          /\ \A d \in Conns \ {c} : Sent(c, f)[d] = link[d]
      BY <1>a, SentType
    <3>2. link[c] \in Links
      BY <1>a
    <3>3. Sent(c, f)[c].clientEnd = link[c].clientEnd
      BY <3>1, <3>2 DEF Links
    <3> QED BY <3>1, <3>3
  <2>3. \A d \in Conns : Closed(Sent(c, f), c)[d].clientEnd = Sent(c, f)[d].clientEnd
    BY <2>1, LinksType
  <2> QED BY <2>2, <2>3
<1>d. NotServed("none").stage = "none" /\ NotServed("none").streamer = "off"
      /\ NotServed("none").reader = "off"
  BY DEF NotServed
<1>e. HelloAck \in Frame /\ Exit \in Frame
  BY FrameType
<1>1. CASE Serve(c)
  <2>1. UNCHANGED <<client, total, sealed, exited, gapped, cuts>>
    BY <1>1 DEF Serve, ReadHello, CompareManifests, SendHelloAck, HelloFails, Activate,
                Superseded, Exiting, SendExit, Cleanup, window, shell, history
  <2>2. /\ attach[c].stage # "none"
        /\ \A d \in Conns \ {c} : attach'[d] = attach[d]
    BY <1>1, <1>a DEF Serve, ReadHello, CompareManifests, SendHelloAck, HelloFails, Activate,
                      Superseded, Exiting, SendExit, Cleanup
  <2>3. \A d \in Conns : link'[d].clientEnd = link[d].clientEnd
    <3>1. CASE ReadHello(c)
      BY <3>1, <1>a DEF ReadHello, Links
    <3>2. CASE Activate(c)
      <4>1. activeConn # None =>
              \A d \in Conns : Closed(link, activeConn)[d].clientEnd = link[d].clientEnd
        BY <1>a, LinksType
      <4> QED BY <3>2, <4>1 DEF Activate, Kicked
    <3>3. CASE UNCHANGED link
      BY <3>3
    <3>4. CASE link' \in {Closed(link, c), Sent(c, HelloAck), Closed(Sent(c, Exit), c)}
      BY <3>4, <1>b, <1>c, <1>e
    <3>5. \/ ReadHello(c) \/ Activate(c) \/ UNCHANGED link
          \/ link' \in {Closed(link, c), Sent(c, HelloAck), Closed(Sent(c, Exit), c)}
      BY <1>1 DEF Serve, CompareManifests, SendHelloAck, HelloFails, Superseded, Exiting,
                  SendExit, Cleanup
    <3> QED BY <3>1, <3>2, <3>3, <3>4, <3>5
  <2> QED BY <1>d, <2>1, <2>2, <2>3
<1>2. CASE Streamer(c)
  <2>1. UNCHANGED <<client, total, sealed, exited, gapped, cuts>>
    BY <1>2 DEF Streamer, StreamOutput, StreamDrained, StreamWakes, StreamEnds, window, shell,
                history
  <2>2. /\ attach[c].streamer # "off"
        /\ \A d \in Conns \ {c} : attach'[d] = attach[d]
    BY <1>2, <1>a DEF Streamer, StreamOutput, StreamDrained, StreamWakes, StreamEnds
  <2>3. \A d \in Conns : link'[d].clientEnd = link[d].clientEnd
    <3>1. CASE StreamOutput(c)
      <4> DEFINE off == attach[c].from
                 end == Lesser(off + MaxRead, total)
      <4>1. off \in Nat /\ end \in Nat /\ off <= end
        <5>1. off \in Nat /\ total \in Nat /\ MaxRead \in Nat /\ off < total
          BY <1>a, <3>1, TypeParts, StreamAssumption
             DEF Attaches, PlainOK, StreamAssumption, StreamOutput
        <5> QED BY <5>1 DEF Lesser
      <4>2. Output(off, Slice(off, end)) \in Frame
        BY <4>1, SliceIs, FrameType
      <4>3. link' = Sent(c, Output(off, Slice(off, end)))
        BY <3>1 DEF StreamOutput
      <4> QED BY <1>c, <4>2, <4>3
    <3>2. CASE UNCHANGED link
      BY <3>2
    <3> QED BY <1>2, <3>1, <3>2 DEF Streamer, StreamDrained, StreamWakes, StreamEnds
  <2> QED BY <1>d, <2>1, <2>2, <2>3
<1>3. CASE Reader(c) \/ Reset(c)
  <2>1. UNCHANGED <<client, total, sealed, exited, gapped, cuts>>
    BY <1>3 DEF Reader, ReadAck, ReaderEnds, Reset, window, shell, history
  <2>2. /\ UNCHANGED attach \/ attach[c].reader # "off"
        /\ \A d \in Conns \ {c} : attach'[d] = attach[d]
    BY <1>3, <1>a DEF Reader, ReadAck, ReaderEnds, Reset
  <2>3. \A d \in Conns : link'[d].clientEnd = link[d].clientEnd
    BY <1>3, <1>a DEF Reader, ReadAck, ReaderEnds, Reset, Links
  <2> QED BY <1>d, <2>1, <2>2, <2>3
<1> QED BY <1>1, <1>2, <1>3 DEF Serves

-----------------------------------------------------------------------------
(* Attaches: which one is active, and which one serves the client *)

Started == {"live", "drain", "closing"}

\* Connections are numbered in the order they are opened, and an attach is not
\* there before its connection.
UntouchedOK == \A c \in Conns : c > client.conn => attach[c] = NotServed("none")

\* The client's end is up on its own connection, while it has one.
LinkOK ==
  /\ Connected => link[client.conn].clientEnd
  /\ \A c \in Conns : link[c].clientEnd => Connected /\ c = client.conn

\* CurrentAttachIsActive, and that no attach has an epoch to come.
ActiveOK ==
  /\ CurrentAttachIsActive
  /\ \A c \in Conns : attach[c].epoch <= epoch

\* A streamer belongs to an attach that has started; one that drains does so
\* because the shell has exited, when the buffer is sealed.
StageOK ==
  /\ exited => sealed
  /\ \A c \in Conns : attach[c].stage = "drain" => exited
  /\ \A c \in Conns : attach[c].streamer # "off" => attach[c].stage \in Started

ServeInv == TypeOK /\ ConnectedOK /\ UntouchedOK /\ LinkOK /\ ActiveOK /\ StageOK

\* What the client's steps do to the connection.
LEMMA ClientTouches ==
  ASSUME TypeOK, ConnectedOK, Client
  PROVE  /\ UNCHANGED <<total, trim, sealed, exited, activeConn, epoch, starved>>
         /\ \/ Connect
            \/ /\ UNCHANGED attach /\ client'.conn = client.conn
               /\ Connected' => Connected
               /\ \/ /\ Connected => Connected'
                     /\ \A d \in Conns : link'[d].clientEnd = link[d].clientEnd
                  \/ Connected /\ ~Connected' /\ link' = Broken(client.conn)
<1>a. attach \in [Conns -> Attaches] /\ link \in [Conns -> Links] /\ client \in Clients
  BY TypeParts
<1>b. client.shown \in Seq(Nat) /\ client.ticker.conn \in Conns \cup {None}
      /\ client.ticker.off \in Nat /\ None \notin Conns
  BY <1>a DEF Clients, Conns, None
<1>c. UNCHANGED <<total, trim, sealed, exited, activeConn, epoch, starved>>
  BY DEF Client, Connect, ConnectRefused, Rerun, ClientReads, RecvHelloAck, RecvOutput,
         RecvExit, RecvEOF, TickerLoads, TickerTakes, TickerWrites, Cut,
         window, shell, active, history
<1>d. Connected /\ link[client.conn].down # <<>> =>
        /\ Taken \in [Conns -> Links]
        /\ \A d \in Conns : Taken[d].clientEnd = link[d].clientEnd
  <2> SUFFICES ASSUME Connected, link[client.conn].down # <<>>
               PROVE  /\ Taken \in [Conns -> Links]
                      /\ \A d \in Conns : Taken[d].clientEnd = link[d].clientEnd
    OBVIOUS
  <2>1. client.conn \in Conns
    BY DEF ConnectedOK
  <2>2. Taken[client.conn].clientEnd = link[client.conn].clientEnd
    BY <1>a, <2>1, TakenType DEF Links
  <2> QED BY <1>a, <2>1, <2>2, TakenType
<1>e. ASSUME NEW ls \in [Conns -> Links], NEW c \in Conns, NEW off \in Nat
      PROVE  \A d \in Conns : Acked(ls, c, off)[d].clientEnd = ls[d].clientEnd
  BY AckedType
<1>1. CASE Connect
  BY <1>1, <1>c
<1>2. CASE ConnectRefused
  BY <1>2, <1>a, <1>c DEF ConnectRefused, Connected, Clients
<1>3. CASE Rerun
  <2>1. client'.conn = client.conn /\ client'.phase = "idle"
    BY <1>3, <1>a DEF Rerun, Clients
  <2>2. UNCHANGED <<attach, link>> /\ client.phase = "failed"
    BY <1>3 DEF Rerun
  <2> QED BY <1>c, <2>1, <2>2 DEF Connected
<1>4. CASE RecvHelloAck
  <2>1. Connected /\ link[client.conn].down # <<>> /\ UNCHANGED attach /\ link' = Taken
    BY <1>4 DEF RecvHelloAck, Incoming, Connected
  <2>2. client'.conn = client.conn /\ Connected'
    BY <1>4, <1>a DEF RecvHelloAck, Clients, Connected
  <2> QED BY <1>c, <1>d, <2>1, <2>2
<1>5. CASE RecvOutput
  <2> DEFINE f == Head(link[client.conn].down)
             shown == client.shown \o Fresh(f)
  <2>1. Connected /\ link[client.conn].down # <<>> /\ UNCHANGED attach
    BY <1>5 DEF RecvOutput, Incoming, Connected
  <2>2. client.conn \in Conns /\ Taken \in [Conns -> Links]
    BY <1>d, <2>1 DEF ConnectedOK
  <2>3. f.off \in Nat /\ f.bytes \in Seq(Nat)
    BY <1>a, <2>1, <2>2, TakenType
  <2>4. ~(f.off > Len(client.shown)) => Len(shown) \in Nat
    <3> SUFFICES ASSUME ~(f.off > Len(client.shown)) PROVE Len(shown) \in Nat
      OBVIOUS
    <3> HIDE DEF f
    <3>1. Len(client.shown) - f.off \in Nat
      BY <1>b, <2>3
    <3>2. Fresh(f) \in Seq(Nat)
      BY <2>3, <3>1, SuffixType DEF Fresh
    <3> QED BY <1>b, <3>2
  <2> HIDE DEF f, shown
  <2>5. \/ client' = client /\ link' = Taken
        \/ /\ Len(shown) \in Nat
           /\ client' = [client EXCEPT !.shown = shown, !.ackedThrough = Len(shown)]
           /\ link' = Acked(Taken, client.conn, Len(shown))
        \/ /\ client' = [client EXCEPT !.shown = shown]
           /\ link' = Taken
    BY <1>5, <2>4, OutputCases, Zenon DEF f, shown
  <2>6. client'.conn = client.conn /\ client'.phase = client.phase
    BY <1>a, <2>5 DEF Clients
  <2>7. \A d \in Conns : link'[d].clientEnd = link[d].clientEnd
    <3>1. link' = Taken \/ (Len(shown) \in Nat /\ link' = Acked(Taken, client.conn, Len(shown)))
      BY <2>5
    <3> QED BY <1>d, <1>e, <2>1, <2>2, <3>1
  <2> QED BY <1>c, <2>1, <2>6, <2>7 DEF Connected
<1>6. CASE RecvExit
  BY <1>6, <1>a, <1>c DEF RecvExit, Connected, Clients
<1>7. CASE RecvEOF
  BY <1>7, <1>a, <1>c DEF RecvEOF, Retried, Connected, Clients
<1>8. CASE TickerLoads
  BY <1>8, <1>a, <1>c DEF TickerLoads, Connected, Clients
<1>9. CASE TickerTakes
  <2>1. client'.conn = client.conn /\ client'.phase = client.phase
    BY <1>9, <1>a DEF TickerTakes, Clients
  <2> QED BY <1>9, <1>c, <2>1 DEF TickerTakes, Connected
<1>10. CASE TickerWrites
  <2>1. client'.conn = client.conn /\ client'.phase = client.phase
    BY <1>10, <1>a DEF TickerWrites, Clients
  <2>2. \A d \in Conns : link'[d].clientEnd = link[d].clientEnd
    <3>1. CASE client.ticker.conn \in Conns
      BY <1>10, <1>a, <1>b, <1>e, <3>1 DEF TickerWrites
    <3>2. CASE client.ticker.conn \notin Conns
      BY <1>10, <1>a, <3>2 DEF TickerWrites, Acked, Links
    <3> QED BY <3>1, <3>2
  <2> QED BY <1>10, <1>c, <2>1, <2>2 DEF TickerWrites, Connected
<1>11. CASE Cut
  BY <1>11, <1>a, <1>c DEF Cut, Retried, Connected, Clients
<1> QED
  BY <1>1, <1>2, <1>3, <1>4, <1>5, <1>6, <1>7, <1>8, <1>9, <1>10, <1>11 DEF Client, ClientReads

\* What Connect does.
LEMMA ConnectTouches ==
  ASSUME TypeOK, Connect
  PROVE  LET c == client.conn + 1
         IN /\ c \in Conns /\ client.phase = "idle"
            /\ client'.conn = c /\ client'.phase = "hello" /\ client'.shown = client.shown
            /\ client'.ticker = client.ticker /\ client'.reruns = client.reruns
            /\ attach'[c] = [attach[c] EXCEPT !.stage = "hello"]
            /\ \A d \in Conns \ {c} : attach'[d] = attach[d] /\ link'[d] = link[d]
            /\ link'[c].clientEnd /\ link'[c].daemonEnd /\ link'[c].reset = link[c].reset
            /\ link'[c].up = <<Hello(client.shown)>> /\ link'[c].down = link[c].down
<1>a. attach \in [Conns -> Attaches] /\ link \in [Conns -> Links] /\ client \in Clients
  BY TypeParts
<1> DEFINE c == client.conn + 1
           w == [link[c] EXCEPT !.clientEnd = TRUE, !.daemonEnd = TRUE,
                                !.up = <<Hello(client.shown)>>]
<1>1. c \in Conns /\ client.phase = "idle" /\ client' = [client EXCEPT !.phase = "hello", !.conn = c]
      /\ attach' = [attach EXCEPT ![c].stage = "hello"]
  BY DEF Connect
<1>2. link' = [link EXCEPT ![c] = w]
  BY Zenon DEF Connect
<1> HIDE DEF c
<1>3. /\ w.clientEnd /\ w.daemonEnd /\ w.reset = link[c].reset
      /\ w.up = <<Hello(client.shown)>> /\ w.down = link[c].down
  BY <1>a, <1>1 DEF Links
<1>4. link'[c] = w /\ \A d \in Conns \ {c} : link'[d] = link[d]
  BY <1>a, <1>1, <1>2
<1> HIDE DEF w
<1>5. attach'[c] = [attach[c] EXCEPT !.stage = "hello"] /\ \A d \in Conns \ {c} : attach'[d] = attach[d]
  BY <1>a, <1>1
<1>6. /\ client'.conn = c /\ client'.phase = "hello" /\ client'.shown = client.shown
      /\ client'.ticker = client.ticker /\ client'.reruns = client.reruns
  BY <1>a, <1>1 DEF Clients
<1> QED BY <1>1, <1>3, <1>4, <1>5, <1>6 DEF c

\* Every step keeps the client's connection its own, and attaches behind
\* connections.
LEMMA ConnStep ==
  ASSUME TypeOK, ConnectedOK, UntouchedOK, LinkOK, [Next]_vars
  PROVE  ConnectedOK' /\ UntouchedOK' /\ LinkOK'
<1>a. attach \in [Conns -> Attaches] /\ link \in [Conns -> Links] /\ client \in Clients
      /\ client.conn \in Nat /\ Conns \subseteq Nat
  BY TypeParts DEF Clients, Conns, None
<1>1. CASE Shell \/ CloseListener \/ UNCHANGED vars
  <2>1. UNCHANGED <<attach, link, client>>
    BY <1>1 DEF Shell, PumpAppend, PumpEOF, WaitCmd, CloseListener, vars
  <2> QED BY <2>1 DEF ConnectedOK, Connected, UntouchedOK, LinkOK
<1>2. ASSUME NEW c \in Conns, Serves(c)
      PROVE  ConnectedOK' /\ UntouchedOK' /\ LinkOK'
  <2>1. UNCHANGED client
    BY <1>2, ServesTouches
  <2>2. ASSUME NEW d \in Conns, d > client.conn
        PROVE  attach'[d] = NotServed("none")
    <3>1. attach[d] = NotServed("none")
      BY <2>2 DEF UntouchedOK
    <3>2. attach'[d] = attach[d]
      <4>1. CASE d = c
        BY <1>2, <3>1, <4>1, ServesTouches
      <4>2. CASE d # c
        BY <1>2, <4>2, ServesTouches
      <4> QED BY <4>1, <4>2
    <3> QED BY <3>1, <3>2
  <2>3. \A d \in Conns : link'[d].clientEnd = link[d].clientEnd
    BY <1>2, ServesTouches
  <2>4. ConnectedOK'
    BY <2>1 DEF ConnectedOK, Connected
  <2>5. UntouchedOK'
    BY <2>1, <2>2 DEF UntouchedOK
  <2>6. LinkOK'
    BY <2>1, <2>3 DEF LinkOK, Connected, ConnectedOK
  <2> QED BY <2>4, <2>5, <2>6
<1>3. CASE Connect
  <2>1. Connected' /\ ~Connected
    BY <1>3, ConnectTouches DEF Connected
  <2>2. ConnectedOK'
    BY <1>3, ConnectTouches DEF ConnectedOK
  <2>3. UntouchedOK'
    <3> SUFFICES ASSUME NEW d \in Conns, d > client'.conn PROVE attach'[d] = NotServed("none")
      BY DEF UntouchedOK
    <3>1. d > client.conn /\ d # client.conn + 1
      BY <1>a, <1>3, ConnectTouches
    <3> QED BY <1>3, <3>1, ConnectTouches DEF UntouchedOK
  <2>4. LinkOK'
    BY <1>3, <2>1, ConnectTouches DEF LinkOK
  <2> QED BY <2>2, <2>3, <2>4
<1>4. CASE Client /\ ~Connect
  <2>1. UNCHANGED attach /\ client'.conn = client.conn /\ (Connected' => Connected)
    BY <1>4, ClientTouches
  <2>2. ConnectedOK' /\ UntouchedOK'
    BY <2>1 DEF ConnectedOK, UntouchedOK
  <2>3. CASE (Connected => Connected') /\ \A d \in Conns : link'[d].clientEnd = link[d].clientEnd
    <3>1. (Connected' <=> Connected) /\ (Connected => client.conn \in Conns)
      BY <2>1, <2>3 DEF ConnectedOK
    <3>2. Connected' => link'[client'.conn].clientEnd
      BY <2>1, <2>3, <3>1 DEF LinkOK
    <3>3. ASSUME NEW d \in Conns, link'[d].clientEnd
          PROVE  Connected' /\ d = client'.conn
      BY <2>1, <2>3, <3>1, <3>3 DEF LinkOK
    <3> QED BY <2>2, <3>2, <3>3 DEF LinkOK
  <2>4. CASE Connected /\ ~Connected' /\ link' = Broken(client.conn)
    <3>1. client.conn \in Conns
      BY <2>4 DEF ConnectedOK
    <3>2. ASSUME NEW d \in Conns PROVE ~link'[d].clientEnd
      <4>1. CASE d = client.conn
        <5>1. ~[link[d] EXCEPT !.clientEnd = FALSE, !.down = <<>>].clientEnd
          BY <1>a DEF Links
        <5> QED BY <1>a, <2>4, <4>1, <5>1, BrokenType
      <4>2. CASE d # client.conn
        BY <1>a, <2>4, <3>1, <4>2, BrokenType DEF LinkOK
      <4> QED BY <4>1, <4>2
    <3> QED BY <2>4, <3>2, <2>2 DEF LinkOK
  <2> QED BY <1>4, <2>2, <2>3, <2>4, ClientTouches
<1> QED BY <1>1, <1>2, <1>3, <1>4, NextParts

\* Nothing about the order of attaches changes in a step that moves no attach,
\* or moves one among the stages before it starts, or at its end.
LEMMA ActiveSame ==
  ASSUME ActiveOK, TypeOK, UNCHANGED <<activeConn, epoch>>,
         \A d \in Conns : /\ attach'[d].epoch = attach[d].epoch
                          /\ attach'[d].stage = attach[d].stage
  PROVE  ActiveOK'
<1>1. activeConn \in Conns \cup {None}
  BY TypeParts DEF PlainOK
<1> QED BY <1>1 DEF ActiveOK, CurrentAttachIsActive

\* The same of one attach c that moves.
LEMMA ActiveMoves ==
  ASSUME ActiveOK, TypeOK, NEW c \in Conns, UNCHANGED <<activeConn, epoch>>,
         \A d \in Conns \ {c} : attach'[d] = attach[d],
         attach'[c].epoch <= epoch,
         attach'[c].stage \in {"live", "drain"}
           => attach[c].stage = "live" /\ attach'[c].epoch = attach[c].epoch,
         activeConn = c => attach'[c].stage \in Started
  PROVE  ActiveOK'
<1>1. activeConn \in Conns \cup {None}
  BY TypeParts DEF PlainOK
<1>2. CurrentAttachIsActive'
  <2>1. ASSUME NEW d \in Conns, attach'[d].stage \in {"live", "drain"}, attach'[d].epoch = epoch
        PROVE  activeConn = d
    <3>1. attach[d].stage \in {"live", "drain"} /\ attach[d].epoch = epoch
      <4>1. CASE d = c
        BY <2>1, <4>1
      <4>2. CASE d # c
        BY <2>1, <4>2
      <4> QED BY <4>1, <4>2
    <3> QED BY <3>1 DEF ActiveOK, CurrentAttachIsActive
  <2>2. ASSUME activeConn # None
        PROVE  attach'[activeConn].stage \in Started
    <3>1. CASE activeConn = c
      BY <3>1
    <3>2. CASE activeConn # c
      BY <1>1, <2>2, <3>2 DEF ActiveOK, CurrentAttachIsActive, Started
    <3> QED BY <3>1, <3>2
  <2> QED BY <2>1, <2>2 DEF CurrentAttachIsActive, Started
<1>3. \A d \in Conns : attach'[d].epoch <= epoch'
  BY DEF ActiveOK
<1> QED BY <1>2, <1>3 DEF ActiveOK

\* Each step of serveAttach leaves the newest attach the active one.
LEMMA ActiveServe ==
  ASSUME TypeOK, ActiveOK, StageOK, NEW c \in Conns, Serve(c)
  PROVE  ActiveOK'
<1>a. /\ attach \in [Conns -> Attaches] /\ activeConn \in Conns \cup {None} /\ epoch \in Nat
      /\ None \notin Conns /\ \A d \in Conns : attach[d].epoch \in Nat /\ attach[d].epoch <= epoch
  <2>1. /\ attach \in [Conns -> Attaches] /\ activeConn \in Conns \cup {None} /\ epoch \in Nat
        /\ None \notin Conns
    BY TypeParts DEF PlainOK, Conns, None
  <2>2. ASSUME NEW d \in Conns PROVE attach[d].epoch \in Nat /\ attach[d].epoch <= epoch
    <3>1. attach[d] \in Attaches
      BY <2>1
    <3> QED BY <3>1 DEF Attaches, ActiveOK
  <2> QED BY <2>1, <2>2
<1>b. NotServed("gone").stage = "gone" /\ NotServed("gone").epoch = 0 /\ 0 <= epoch
  BY <1>a DEF NotServed
<1>c. activeConn = c => attach[c].stage \in Started
  BY <1>a DEF ActiveOK, CurrentAttachIsActive, Started
<1>1. ASSUME ReadHello(c) \/ CompareManifests(c) \/ SendHelloAck(c) \/ HelloFails(c)
      PROVE  ActiveOK'
  <2>1. /\ UNCHANGED <<activeConn, epoch>>
        /\ \A d \in Conns \ {c} : attach'[d] = attach[d]
        /\ attach[c].stage \in {"hello", "manifest", "resend"}
    BY <1>1, <1>a DEF ReadHello, CompareManifests, SendHelloAck, HelloFails, active
  <2>2. /\ attach'[c].stage \in {"manifest", "resend", "acked", "gone"}
        /\ attach'[c].epoch <= epoch
    <3>1. CASE ReadHello(c)
      BY <1>a, <3>1 DEF ReadHello, Attaches
    <3>2. CASE CompareManifests(c)
      <4>1. attach'[c].stage = "resend" /\ attach'[c].epoch = attach[c].epoch
        BY <1>a, <3>2 DEF CompareManifests, Attaches
      <4> QED BY <1>a, <4>1
    <3>3. CASE SendHelloAck(c)
      <4>1. CASE attach' = [attach EXCEPT ![c] = NotServed("gone")]
        BY <1>a, <1>b, <4>1
      <4>2. CASE attach' = [attach EXCEPT ![c].stage = "acked", ![c].from = Resume(@),
                                          ![c].first = 0]
        <5>1. attach'[c].stage = "acked" /\ attach'[c].epoch = attach[c].epoch
          BY <1>a, <4>2 DEF Attaches
        <5> QED BY <1>a, <5>1
      <4> QED BY <3>3, <4>1, <4>2 DEF SendHelloAck
    <3>4. CASE HelloFails(c)
      BY <1>a, <1>b, <3>4 DEF HelloFails
    <3> QED BY <1>1, <3>1, <3>2, <3>3, <3>4
  <2> QED BY <1>c, <2>1, <2>2, ActiveMoves DEF Started
<1>2. CASE Activate(c)
  <2>1. /\ activeConn' = c /\ epoch' = epoch + 1
        /\ \A d \in Conns \ {c} : attach'[d] = attach[d]
        /\ attach'[c].stage = "live" /\ attach'[c].epoch = epoch + 1
    BY <1>2, <1>a DEF Activate, Attaches
  <2> QED BY <1>a, <2>1 DEF ActiveOK, CurrentAttachIsActive
<1>3. CASE Superseded(c)
  <2>1. /\ UNCHANGED <<activeConn, epoch>>
        /\ \A d \in Conns \ {c} : attach'[d] = attach[d]
        /\ attach'[c].stage = "closing" /\ attach'[c].epoch = attach[c].epoch
    BY <1>3, <1>a DEF Superseded, active, Attaches
  <2> QED BY <1>a, <2>1, ActiveMoves DEF Started
<1>4. CASE Exiting(c)
  <2>1. /\ UNCHANGED <<activeConn, epoch>> /\ attach[c].stage = "live"
        /\ \A d \in Conns \ {c} : attach'[d] = attach[d]
        /\ attach'[c].stage = "drain" /\ attach'[c].epoch = attach[c].epoch
    BY <1>4, <1>a DEF Exiting, active, Attaches
  <2> QED BY <1>a, <2>1, ActiveMoves DEF Started
<1>5. CASE SendExit(c)
  <2>1. /\ UNCHANGED <<activeConn, epoch>>
        /\ \A d \in Conns \ {c} : attach'[d] = attach[d]
        /\ attach'[c].stage = "closing" /\ attach'[c].epoch = attach[c].epoch
    BY <1>5, <1>a DEF SendExit, active, Attaches
  <2> QED BY <1>a, <2>1, ActiveMoves DEF Started
<1>6. CASE Cleanup(c)
  <2>1. /\ activeConn' = (IF activeConn = c THEN None ELSE activeConn) /\ epoch' = epoch
        /\ \A d \in Conns \ {c} : attach'[d] = attach[d]
        /\ attach'[c] = NotServed("gone")
    BY <1>6, <1>a DEF Cleanup, Released
  <2> QED BY <1>a, <1>b, <2>1 DEF ActiveOK, CurrentAttachIsActive
<1> QED BY <1>1, <1>2, <1>3, <1>4, <1>5, <1>6 DEF Serve

\* So does every step.
LEMMA ActiveStep ==
  ASSUME TypeOK, ConnectedOK, UntouchedOK, ActiveOK, StageOK, [Next]_vars
  PROVE  ActiveOK'
<1>a. /\ attach \in [Conns -> Attaches] /\ client \in Clients /\ client.conn \in Nat
      /\ activeConn \in Conns \cup {None} /\ epoch \in Nat /\ Conns \subseteq Nat
      /\ \A d \in Conns : attach[d].epoch \in Nat /\ attach[d].epoch <= epoch
  <2>1. attach \in [Conns -> Attaches] /\ client \in Clients /\ PlainOK
    BY TypeParts
  <2>2. client.conn \in Nat /\ Conns \subseteq Nat
    BY <2>1 DEF Clients, Conns, None
  <2>3. \A d \in Conns : attach[d].epoch \in Nat /\ attach[d].epoch <= epoch
    BY <2>1 DEF Attaches, ActiveOK
  <2> QED BY <2>1, <2>2, <2>3 DEF PlainOK
<1>1. CASE Shell \/ CloseListener \/ UNCHANGED vars
  <2>1. UNCHANGED <<attach, activeConn, epoch>>
    BY <1>1 DEF Shell, PumpAppend, PumpEOF, WaitCmd, CloseListener, vars, active
  <2> QED BY <2>1, ActiveSame
<1>2. ASSUME NEW c \in Conns, Streamer(c) \/ ReadAck(c) \/ Reset(c)
      PROVE  ActiveOK'
  <2>1. UNCHANGED <<activeConn, epoch>>
    BY <1>2 DEF Streamer, StreamOutput, StreamDrained, StreamWakes, StreamEnds, ReadAck, Reset,
                active
  <2>2. \A d \in Conns : attach'[d].epoch = attach[d].epoch /\ attach'[d].stage = attach[d].stage
    <3>1. CASE StreamOutput(c)
      BY <1>a, <3>1 DEF StreamOutput, Attaches
    <3>2. CASE StreamDrained(c) \/ StreamWakes(c) \/ StreamEnds(c)
      <4>1. PICK st : attach' = [attach EXCEPT ![c].streamer = st]
        BY <3>2 DEF StreamDrained, StreamWakes, StreamEnds
      <4> QED BY <1>a, <4>1 DEF Attaches
    <3>3. CASE ReadAck(c) \/ Reset(c)
      BY <3>3 DEF ReadAck, Reset
    <3> QED BY <1>2, <3>1, <3>2, <3>3 DEF Streamer
  <2> QED BY <2>1, <2>2, ActiveSame
<1>3. ASSUME NEW c \in Conns, ReaderEnds(c)
      PROVE  ActiveOK'
  <2>1. \A d \in Conns : attach'[d].epoch = attach[d].epoch /\ attach'[d].stage = attach[d].stage
    BY <1>3, <1>a DEF ReaderEnds, Attaches
  <2>2. activeConn' = activeConn /\ epoch' \in {epoch, epoch + 1}
    BY <1>3 DEF ReaderEnds
  <2>3. CASE epoch' = epoch
    BY <2>1, <2>2, <2>3, ActiveSame
  <2>4. CASE epoch' = epoch + 1
    BY <1>a, <2>1, <2>2, <2>4 DEF ActiveOK, CurrentAttachIsActive
  <2> QED BY <2>2, <2>3, <2>4
<1>4. CASE Connect
  <2> DEFINE c == client.conn + 1
  <2>1. /\ c \in Conns /\ attach[c] = NotServed("none")
        /\ UNCHANGED <<activeConn, epoch>>
        /\ \A d \in Conns \ {c} : attach'[d] = attach[d]
        /\ attach'[c] = [attach[c] EXCEPT !.stage = "hello"]
    BY <1>a, <1>4, ConnectTouches DEF UntouchedOK, Connect, active
  <2> HIDE DEF c
  <2>2. /\ attach'[c].stage = "hello" /\ attach[c].stage = "none"
        /\ attach'[c].epoch = attach[c].epoch
    BY <1>a, <2>1 DEF Attaches, NotServed
  <2>3. activeConn # c
    BY <1>a, <2>1, <2>2 DEF ActiveOK, CurrentAttachIsActive, None, Conns
  <2> QED BY <1>a, <2>1, <2>2, <2>3, ActiveMoves
<1>5. CASE Client /\ ~Connect
  <2>1. UNCHANGED <<attach, activeConn, epoch>>
    BY <1>5, ClientTouches
  <2> QED BY <2>1, ActiveSame
<1> QED
  BY <1>1, <1>2, <1>3, <1>4, <1>5, ActiveServe, NextParts DEF Serves, Reader

\* Every step keeps streamers with started attaches, and drains with an exit.
LEMMA StageStep ==
  ASSUME TypeOK, ConnectedOK, UntouchedOK, StageOK, [Next]_vars
  PROVE  StageOK'
<1>a. attach \in [Conns -> Attaches]
  BY TypeParts
<1>b. \A st : NotServed(st).stage = st /\ NotServed(st).streamer = "off"
  BY DEF NotServed
<1>1. CASE Shell \/ CloseListener \/ UNCHANGED vars
  <2>1. UNCHANGED attach /\ (exited => exited') /\ (exited' => sealed')
    BY <1>1 DEF Shell, PumpAppend, PumpEOF, WaitCmd, CloseListener, vars, shell, window, StageOK
  <2> QED BY <2>1 DEF StageOK
<1>2. ASSUME NEW c \in Conns, Serves(c)
      PROVE  StageOK'
  <2>1. UNCHANGED <<sealed, exited>> /\ \A d \in Conns \ {c} : attach'[d] = attach[d]
    BY <1>2, ServesTouches
  <2>2. /\ attach'[c].stage = "drain" => exited
        /\ attach'[c].streamer # "off" => attach'[c].stage \in Started
    <3>1. CASE ReadHello(c) \/ CompareManifests(c) \/ SendHelloAck(c) \/ HelloFails(c)
      <4>1. attach[c].stage \in {"hello", "manifest", "resend"}
        BY <3>1 DEF ReadHello, CompareManifests, SendHelloAck, HelloFails
      <4>2. attach[c].streamer = "off"
        BY <4>1 DEF StageOK, Started
      <4>3. CASE attach' = [attach EXCEPT ![c] = NotServed("gone")]
        BY <1>a, <1>b, <4>3
      <4>4. CASE ReadHello(c)
        BY <1>a, <4>2, <4>4 DEF ReadHello, Attaches
      <4>5. CASE CompareManifests(c)
        BY <1>a, <4>2, <4>5 DEF CompareManifests, Attaches
      <4>6. CASE attach' = [attach EXCEPT ![c].stage = "acked", ![c].from = Resume(@),
                                          ![c].first = 0]
        BY <1>a, <4>2, <4>6 DEF Attaches
      <4> QED BY <3>1, <4>3, <4>4, <4>5, <4>6 DEF SendHelloAck, HelloFails
    <3>2. CASE Activate(c)
      <4>1. attach'[c].stage = "live"
        BY <1>a, <3>2 DEF Activate, Attaches
      <4> QED BY <4>1 DEF Started
    <3>3. CASE Superseded(c) \/ Exiting(c) \/ SendExit(c)
      <4>1. /\ attach'[c].stage \in {"drain", "closing"}
            /\ attach'[c].stage = "drain" => exited
        BY <1>a, <3>3 DEF Superseded, Exiting, SendExit, Attaches
      <4> QED BY <4>1 DEF Started
    <3>4. CASE Cleanup(c)
      BY <1>a, <1>b, <3>4 DEF Cleanup
    <3>5. CASE Streamer(c) \/ Reader(c) \/ Reset(c)
      <4>1. /\ attach'[c].stage = attach[c].stage
            /\ attach[c].streamer = "off" => attach'[c].streamer = "off"
        <5>1. CASE StreamOutput(c)
          BY <1>a, <5>1 DEF StreamOutput, Attaches
        <5>2. CASE StreamDrained(c) \/ StreamWakes(c) \/ StreamEnds(c)
          <6>1. PICK st : attach' = [attach EXCEPT ![c].streamer = st]
            BY <5>2 DEF StreamDrained, StreamWakes, StreamEnds
          <6>2. attach[c].streamer # "off"
            BY <5>2 DEF StreamDrained, StreamWakes, StreamEnds
          <6> QED BY <1>a, <6>1, <6>2 DEF Attaches
        <5>3. CASE ReaderEnds(c)
          BY <1>a, <5>3 DEF ReaderEnds, Attaches
        <5>4. CASE ReadAck(c) \/ Reset(c)
          BY <5>4 DEF ReadAck, Reset
        <5> QED BY <3>5, <5>1, <5>2, <5>3, <5>4 DEF Streamer, Reader
      <4> QED BY <4>1 DEF StageOK
    <3> QED BY <1>2, <3>1, <3>2, <3>3, <3>4, <3>5 DEF Serves, Serve
  <2>3. \A d \in Conns : /\ attach'[d].stage = "drain" => exited
                         /\ attach'[d].streamer # "off" => attach'[d].stage \in Started
    BY <2>1, <2>2 DEF StageOK
  <2> QED BY <2>1, <2>3 DEF StageOK
<1>3. CASE Client
  <2>1. UNCHANGED <<sealed, exited>>
    BY <1>3, ClientTouches
  <2>2. CASE ~Connect
    BY <1>3, <2>1, <2>2, ClientTouches DEF StageOK
  <2>3. CASE Connect
    <3> DEFINE c == client.conn + 1
    <3>1. /\ c \in Conns /\ attach'[c] = [attach[c] EXCEPT !.stage = "hello"]
          /\ \A d \in Conns \ {c} : attach'[d] = attach[d]
      BY <2>3, ConnectTouches
    <3>2. c > client.conn
      BY TypeParts DEF Clients, Conns, None
    <3> HIDE DEF c
    <3>3. attach'[c].stage = "hello" /\ attach'[c].streamer = "off"
      BY <1>a, <1>b, <3>1, <3>2 DEF UntouchedOK, Attaches
    <3> QED BY <2>1, <3>1, <3>3 DEF StageOK
  <2> QED BY <2>2, <2>3
<1> QED BY <1>1, <1>2, <1>3, NextParts

\* Together these are inductive.
LEMMA ServeStep == ServeInv /\ [Next]_vars => ServeInv'
BY TypeStep, ConnStep, ActiveStep, StageStep DEF ServeInv

\* They hold at first.
LEMMA ServeInit == Init => ServeInv
<1> SUFFICES ASSUME Init PROVE ServeInv
  OBVIOUS
<1>1. TypeOK
  BY TypeInit
<1>2. \A c \in Conns : /\ attach[c] = NotServed("none") /\ attach[c].stage = "none"
                       /\ attach[c].streamer = "off" /\ attach[c].epoch = 0
                       /\ ~link[c].clientEnd
  BY DEF Init, NotServed
<1>3. ~Connected /\ activeConn = None /\ epoch = 0 /\ ~exited
  BY DEF Init, Connected
<1>4. ConnectedOK /\ UntouchedOK /\ LinkOK
  BY <1>2, <1>3 DEF ConnectedOK, UntouchedOK, LinkOK
<1>5. ActiveOK /\ StageOK
  BY <1>2, <1>3 DEF ActiveOK, CurrentAttachIsActive, StageOK
<1> QED BY <1>1, <1>4, <1>5 DEF ServeInv

\* So they always hold.
LEMMA ServeAlways == Spec => []ServeInv
BY ServeInit, ServeStep, PTL DEF Spec

\* Stream.tla, TypeOK.
THEOREM TypeCorrect == Spec => []TypeOK
<1>1. ServeInv => TypeOK
  BY DEF ServeInv
<1> QED BY <1>1, ServeAlways, PTL

\* daemon.go, serveAttach: the attach whose epoch is current is the one
\* activeConn points at, and activeConn points at no attach that has ended,
\* for any number of connections.
THEOREM CurrentIsActive == Spec => []CurrentAttachIsActive
<1>1. ServeInv => CurrentAttachIsActive
  BY DEF ServeInv, ActiveOK
<1> QED BY <1>1, ServeAlways, PTL

-----------------------------------------------------------------------------
(* Frames on their way to the client *)

\* After the first n frames of queue q a client that has shown s bytes will
\* have shown those up to off.
Reached(q, off, n, s) ==
  \/ off <= s
  \/ \E j \in 1..n : q[j].type = "OUTPUT" /\ off = q[j].off + Len(q[j].bytes)

\* Each OUTPUT frame carries bytes of the stream, and starts no later than the
\* client will be when it comes.
FramesOK(q, s, t) ==
  \A i \in 1..Len(q) : q[i].type = "OUTPUT" =>
    /\ q[i].bytes = Slice(q[i].off, q[i].off + Len(q[i].bytes))
    /\ q[i].off + Len(q[i].bytes) <= t
    /\ Reached(q, q[i].off, i - 1, s)

NoExit(q) == \A i \in 1..Len(q) : q[i].type # "EXIT"

\* EXIT follows all t bytes of the stream.
ExitLast(q, s, t) ==
  \A i \in 1..Len(q) : q[i].type = "EXIT" => Reached(q, t, i - 1, s)

\* The fields of a queue's frames.
LEMMA ElemType ==
  ASSUME NEW q \in Seq(Frame), NEW i \in 1..Len(q)
  PROVE  /\ q[i].off \in Nat /\ q[i].bytes \in Seq(Nat) /\ Len(q[i].bytes) \in Nat
         /\ i - 1 \in Nat /\ i - 1 \in 0..Len(q)
<1>1. q[i] \in Frame
  OBVIOUS
<1>2. q[i].off \in Nat /\ q[i].bytes \in Seq(Nat)
  BY <1>1 DEF Frame
<1>3. Len(q[i].bytes) \in Nat
  BY <1>2
<1> QED BY <1>2, <1>3

\* Showing more, and a longer stream, disturb none of this.
LEMMA QueueGrows ==
  ASSUME NEW q \in Seq(Frame), NEW s \in Nat, NEW t \in Nat, NEW s2 \in Nat, NEW t2 \in Nat,
         s <= s2, t <= t2
  PROVE  /\ \A off \in Nat, n \in Nat : Reached(q, off, n, s) => Reached(q, off, n, s2)
         /\ FramesOK(q, s, t) => FramesOK(q, s2, t2)
         /\ ExitLast(q, s, t) => ExitLast(q, s2, t)
<1>1. ASSUME NEW off \in Nat, NEW n \in Nat, Reached(q, off, n, s)
      PROVE  Reached(q, off, n, s2)
  <2>1. off <= s => off <= s2
    OBVIOUS
  <2> QED BY <1>1, <2>1 DEF Reached
<1>2. \A i \in 1..Len(q) : i - 1 \in Nat /\ q[i].off \in Nat /\ Len(q[i].bytes) \in Nat
  BY ElemType
<1>3. FramesOK(q, s, t) => FramesOK(q, s2, t2)
  <2> SUFFICES ASSUME FramesOK(q, s, t), NEW i \in 1..Len(q), q[i].type = "OUTPUT"
               PROVE  /\ q[i].bytes = Slice(q[i].off, q[i].off + Len(q[i].bytes))
                      /\ q[i].off + Len(q[i].bytes) <= t2
                      /\ Reached(q, q[i].off, i - 1, s2)
    BY DEF FramesOK
  <2>1. /\ q[i].bytes = Slice(q[i].off, q[i].off + Len(q[i].bytes))
        /\ q[i].off + Len(q[i].bytes) <= t
        /\ Reached(q, q[i].off, i - 1, s)
    BY DEF FramesOK
  <2>2. q[i].off + Len(q[i].bytes) <= t2
    BY <1>2, <2>1
  <2> QED BY <1>1, <1>2, <2>1, <2>2
<1>4. ExitLast(q, s, t) => ExitLast(q, s2, t)
  BY <1>1, <1>2 DEF ExitLast
<1> QED BY <1>1, <1>3, <1>4

\* A frame more at the end.
LEMMA QueueAppends ==
  ASSUME NEW q \in Seq(Frame), NEW f \in Frame, NEW s \in Nat, NEW t \in Nat
  PROVE  LET p == Append(q, f)
         IN /\ \A off \in Nat : \A n \in 0..Len(q) : Reached(q, off, n, s) => Reached(p, off, n, s)
            /\ \A off \in Nat : Reached(q, off, Len(q), s) => Reached(p, off, Len(p), s)
            /\ f.type # "OUTPUT" /\ FramesOK(q, s, t) => FramesOK(p, s, t)
            /\ f.type # "EXIT" /\ NoExit(q) => NoExit(p)
            /\ f.type # "EXIT" /\ ExitLast(q, s, t) => ExitLast(p, s, t)
            /\ Reached(q, t, Len(q), s) /\ ExitLast(q, s, t) => ExitLast(p, s, t)
<1> DEFINE p == Append(q, f)
<1>1. /\ p \in Seq(Frame) /\ Len(p) = Len(q) + 1 /\ p[Len(q) + 1] = f
      /\ \A i \in 1..Len(q) : p[i] = q[i]
      /\ Len(q) \in Nat
  BY QueueType
<1> HIDE DEF p
<1>2. ASSUME NEW off \in Nat, NEW n \in 0..Len(q), Reached(q, off, n, s)
      PROVE  Reached(p, off, n, s)
  <2>1. \A j \in 1..n : j \in 1..Len(q)
    BY <1>1
  <2> QED BY <1>1, <1>2, <2>1 DEF Reached
<1>3. ASSUME NEW off \in Nat, Reached(q, off, Len(q), s)
      PROVE  Reached(p, off, Len(p), s)
  <2>1. \A j \in 1..Len(q) : j \in 1..Len(p)
    BY <1>1
  <2> QED BY <1>1, <1>3, <2>1 DEF Reached
<1>4. \A i \in 1..Len(p) : i \in 1..Len(q) \/ i = Len(q) + 1
  BY <1>1
<1>5. \A i \in 1..Len(q) : i - 1 \in 0..Len(q) /\ q[i].off \in Nat
  BY ElemType
<1>6. f.type # "OUTPUT" /\ FramesOK(q, s, t) => FramesOK(p, s, t)
  BY <1>1, <1>2, <1>4, <1>5 DEF FramesOK
<1>7. f.type # "EXIT" /\ NoExit(q) => NoExit(p)
  BY <1>1, <1>4 DEF NoExit
<1>8. f.type # "EXIT" /\ ExitLast(q, s, t) => ExitLast(p, s, t)
  BY <1>1, <1>2, <1>4, <1>5 DEF ExitLast
<1>9. Reached(q, t, Len(q), s) /\ ExitLast(q, s, t) => ExitLast(p, s, t)
  <2> SUFFICES ASSUME Reached(q, t, Len(q), s), ExitLast(q, s, t),
                      NEW i \in 1..Len(p), p[i].type = "EXIT"
               PROVE  Reached(p, t, i - 1, s)
    BY DEF ExitLast
  <2>1. CASE i \in 1..Len(q)
    BY <1>1, <1>2, <1>5, <2>1 DEF ExitLast
  <2>2. CASE i = Len(q) + 1
    BY <1>1, <1>2, <2>2
  <2> QED BY <1>4, <2>1, <2>2
<1> QED BY <1>2, <1>3, <1>6, <1>7, <1>8, <1>9 DEF p

\* An OUTPUT frame more, where the queue ends: the client will be at its end.
LEMMA QueueOutput ==
  ASSUME NEW q \in Seq(Frame), NEW off \in Nat, NEW end \in Nat, NEW s \in Nat, NEW t \in Nat,
         off <= end, end <= t, Reached(q, off, Len(q), s), FramesOK(q, s, t)
  PROVE  LET p == Append(q, Output(off, Slice(off, end)))
         IN FramesOK(p, s, t) /\ Reached(p, end, Len(p), s)
<1> DEFINE f == Output(off, Slice(off, end))
           p == Append(q, f)
<1>1. Slice(off, end) \in Seq(Nat) /\ Len(Slice(off, end)) = end - off
  BY SliceIs
<1>2. /\ f \in Frame /\ f.type = "OUTPUT" /\ f.off = off /\ f.bytes = Slice(off, end)
      /\ off + Len(f.bytes) = end
  <2>1. f \in Frame
    BY <1>1, FrameType
  <2>2. f.type = "OUTPUT" /\ f.off = off /\ f.bytes = Slice(off, end)
    BY DEF Output
  <2>3. off + Len(f.bytes) = end
    <3>1. off + (end - off) = end
      OBVIOUS
    <3> QED BY <1>1, <2>2, <3>1, Zenon
  <2> QED BY <2>1, <2>2, <2>3
<1> HIDE DEF f
<1>3. /\ p \in Seq(Frame) /\ Len(p) = Len(q) + 1 /\ p[Len(q) + 1] = f
      /\ \A i \in 1..Len(q) : p[i] = q[i]
      /\ Len(q) \in Nat
  BY <1>2, QueueType
<1>4. \A o \in Nat : \A n \in 0..Len(q) : Reached(q, o, n, s) => Reached(p, o, n, s)
  BY <1>2, QueueAppends
<1> HIDE DEF p
<1>5. Reached(p, end, Len(p), s)
  <2>1. Len(q) + 1 \in 1..Len(p)
    BY <1>3
  <2> QED BY <1>2, <1>3, <2>1 DEF Reached
<1>6. FramesOK(p, s, t)
  <2> SUFFICES ASSUME NEW i \in 1..Len(p), p[i].type = "OUTPUT"
               PROVE  /\ p[i].bytes = Slice(p[i].off, p[i].off + Len(p[i].bytes))
                      /\ p[i].off + Len(p[i].bytes) <= t
                      /\ Reached(p, p[i].off, i - 1, s)
    BY DEF FramesOK
  <2>1. CASE i \in 1..Len(q)
    <3>1. i - 1 \in 0..Len(q) /\ q[i].off \in Nat /\ p[i] = q[i]
      BY <1>3, <2>1, ElemType
    <3> QED BY <1>4, <2>1, <3>1 DEF FramesOK
  <2>2. CASE i = Len(q) + 1
    <3>1. i - 1 = Len(q) /\ Len(q) \in 0..Len(q) /\ p[i] = f
      BY <1>3, <2>2
    <3> QED BY <1>2, <1>4, <3>1
  <2> QED BY <1>3, <2>1, <2>2
<1> QED BY <1>5, <1>6 DEF p, f

\* The first frame taken: what it carried is shown.
LEMMA QueueTaken ==
  ASSUME NEW q \in Seq(Frame), q # <<>>, NEW s \in Nat, NEW t \in Nat, NEW s2 \in Nat, s <= s2,
         Head(q).type = "OUTPUT" => Head(q).off + Len(Head(q).bytes) <= s2
  PROVE  LET p == Tail(q)
         IN /\ \A off \in Nat : Reached(q, off, Len(q), s) => Reached(p, off, Len(p), s2)
            /\ FramesOK(q, s, t) => FramesOK(p, s2, t)
            /\ NoExit(q) => NoExit(p)
            /\ ExitLast(q, s, t) => ExitLast(p, s2, t)
<1> DEFINE p == Tail(q)
<1>1. /\ p \in Seq(Frame) /\ Len(p) = Len(q) - 1 /\ Len(p) \in Nat /\ Head(q) = q[1]
      /\ \A i \in 1..Len(p) : p[i] = q[i + 1]
  BY QueueType
<1> HIDE DEF p
<1>2. ASSUME NEW off \in Nat, NEW n \in 0..Len(p), Reached(q, off, n + 1, s)
      PROVE  Reached(p, off, n, s2)
  <2>1. CASE off <= s
    BY <2>1 DEF Reached
  <2>2. ASSUME NEW j \in 1..(n + 1), q[j].type = "OUTPUT", off = q[j].off + Len(q[j].bytes)
        PROVE  Reached(p, off, n, s2)
    <3>1. CASE j = 1
      BY <1>1, <2>2, <3>1 DEF Reached
    <3>2. CASE j # 1
      <4>1. j - 1 \in 1..n /\ j - 1 \in 1..Len(p) /\ p[j - 1] = q[j]
        BY <1>1, <3>2
      <4> QED BY <2>2, <4>1 DEF Reached
    <3> QED BY <3>1, <3>2
  <2> QED BY <1>2, <2>1, <2>2 DEF Reached
<1>3. \A off \in Nat : Reached(q, off, Len(q), s) => Reached(p, off, Len(p), s2)
  <2>1. Len(p) \in 0..Len(p) /\ Len(p) + 1 = Len(q)
    BY <1>1
  <2> QED BY <1>2, <2>1
<1>4. \A i \in 1..Len(p) : /\ i + 1 \in 1..Len(q) /\ p[i] = q[i + 1] /\ p[i].off \in Nat
                           /\ i - 1 \in 0..Len(p) /\ (i + 1) - 1 = (i - 1) + 1
  BY <1>1, ElemType
<1>5. FramesOK(q, s, t) => FramesOK(p, s2, t)
  <2> SUFFICES ASSUME FramesOK(q, s, t), NEW i \in 1..Len(p), p[i].type = "OUTPUT"
               PROVE  /\ p[i].bytes = Slice(p[i].off, p[i].off + Len(p[i].bytes))
                      /\ p[i].off + Len(p[i].bytes) <= t
                      /\ Reached(p, p[i].off, i - 1, s2)
    BY DEF FramesOK
  <2>1. /\ p[i].bytes = Slice(p[i].off, p[i].off + Len(p[i].bytes))
        /\ p[i].off + Len(p[i].bytes) <= t
        /\ Reached(q, p[i].off, (i - 1) + 1, s)
    BY <1>4 DEF FramesOK
  <2> QED BY <1>2, <1>4, <2>1
<1>6. NoExit(q) => NoExit(p)
  BY <1>4 DEF NoExit
<1>7. ExitLast(q, s, t) => ExitLast(p, s2, t)
  <2> SUFFICES ASSUME ExitLast(q, s, t), NEW i \in 1..Len(p), p[i].type = "EXIT"
               PROVE  Reached(p, t, i - 1, s2)
    BY DEF ExitLast
  <2>1. Reached(q, t, (i - 1) + 1, s)
    BY <1>4 DEF ExitLast
  <2> QED BY <1>2, <1>4, <2>1
<1> QED BY <1>3, <1>5, <1>6, <1>7 DEF p

\* Frames on their way to the daemon hold no more than the client has shown.
UpOK(q, s) == \A i \in 1..Len(q) : q[i].off <= s /\ Len(q[i].bytes) <= s

-----------------------------------------------------------------------------
(* What is shown *)

Held == Len(client.shown)

\* The client shows the stream's own bytes, the daemon has freed none it has
\* not shown, and EXIT was read after all of them.
ShownOK ==
  /\ client.shown = Slice(0, Held) /\ Held <= total /\ trim <= Held
  /\ ~gapped /\ client.ticker.off <= Held
  /\ client.phase = "exited" => starved \/ (sealed /\ Held = total)

\* Connection l with attach a, when the client has shown s bytes of t: what is
\* under way, in the attach and on the connection, leaves no hole.
DataOK(a, l, s, t) ==
  /\ ~l.clientEnd => l.down = <<>>
  /\ FramesOK(l.down, s, t) /\ UpOK(l.up, s)
  /\ Len(a.peer) <= s
  /\ a.stage = "resend" => a.from <= s
  /\ l.clientEnd /\ a.stage \in Started \cup {"acked"} => Reached(l.down, a.from, Len(l.down), s)

\* Its streamer, if it has ended while the attach goes on, has sent all t
\* bytes or cannot send, and EXIT follows them.
Finished(a, l, s, t) ==
  /\ ExitLast(l.down, s, t)
  /\ a.streamer = "done" /\ a.stage \in {"live", "drain"} =>
       ~l.daemonEnd \/ l.reset \/ a.from >= t

\* The same of a stream that goes on: there is no EXIT.
Unfinished(a, l) ==
  /\ NoExit(l.down)
  /\ a.streamer = "done" /\ a.stage \in {"live", "drain"} => ~l.daemonEnd \/ l.reset

ConnOK(c) ==
  /\ DataOK(attach[c], link[c], Held, total)
  /\ starved \/ Finished(attach[c], link[c], Held, total)
  /\ starved \/ sealed \/ Unfinished(attach[c], link[c])

DataInv == ShownOK /\ \A c \in Conns : ConnOK(c)

\* Numbers and parts of a typed state.
LEMMA Sizes ==
  ASSUME TypeOK
  PROVE  /\ Held \in Nat /\ total \in Nat /\ trim \in Nat /\ client.shown \in Seq(Nat)
         /\ attach \in [Conns -> Attaches] /\ link \in [Conns -> Links] /\ client \in Clients
         /\ \A c \in Conns : /\ attach[c] \in Attaches /\ link[c] \in Links
                             /\ attach[c].from \in Nat /\ attach[c].peer \in Seq(Nat)
                             /\ link[c].down \in Seq(Frame) /\ link[c].up \in Seq(Frame)
<1>1. /\ PlainOK /\ attach \in [Conns -> Attaches] /\ link \in [Conns -> Links]
      /\ client \in Clients /\ MaxTotal \in Nat
  BY TypeParts, StreamAssumption DEF StreamAssumption
<1>2. total \in Nat /\ trim \in Nat
  BY <1>1 DEF PlainOK
<1>3. client.shown \in Seq(Nat)
  BY <1>1 DEF Clients
<1>4. ASSUME NEW c \in Conns
      PROVE  /\ attach[c] \in Attaches /\ link[c] \in Links
             /\ attach[c].from \in Nat /\ attach[c].peer \in Seq(Nat)
             /\ link[c].down \in Seq(Frame) /\ link[c].up \in Seq(Frame)
  <2>1. attach[c] \in Attaches /\ link[c] \in Links
    BY <1>1
  <2> QED BY <2>1 DEF Attaches, Links
<1>5. Held \in Nat
  BY <1>3 DEF Held
<1> QED BY <1>1, <1>2, <1>3, <1>4, <1>5

\* The same of the next state.
LEMMA SizesNext ==
  ASSUME TypeOK'
  PROVE  /\ Held' \in Nat /\ total' \in Nat /\ trim' \in Nat /\ client'.shown \in Seq(Nat)
         /\ attach' \in [Conns -> Attaches] /\ link' \in [Conns -> Links] /\ client' \in Clients
         /\ \A c \in Conns : /\ attach'[c] \in Attaches /\ link'[c] \in Links
                             /\ attach'[c].from \in Nat /\ attach'[c].peer \in Seq(Nat)
                             /\ link'[c].down \in Seq(Frame) /\ link'[c].up \in Seq(Frame)
<1>1. /\ PlainOK' /\ attach' \in [Conns -> Attaches] /\ link' \in [Conns -> Links]
      /\ client' \in Clients /\ MaxTotal \in Nat
  BY TypePartsNext, StreamAssumption DEF StreamAssumption
<1>2. total' \in Nat /\ trim' \in Nat
  BY <1>1 DEF PlainOK
<1>3. client'.shown \in Seq(Nat)
  BY <1>1 DEF Clients
<1>4. ASSUME NEW c \in Conns
      PROVE  /\ attach'[c] \in Attaches /\ link'[c] \in Links
             /\ attach'[c].from \in Nat /\ attach'[c].peer \in Seq(Nat)
             /\ link'[c].down \in Seq(Frame) /\ link'[c].up \in Seq(Frame)
  <2>1. attach'[c] \in Attaches /\ link'[c] \in Links
    BY <1>1
  <2> QED BY <2>1 DEF Attaches, Links
<1>5. Held' \in Nat
  BY <1>3 DEF Held
<1> QED BY <1>1, <1>2, <1>3, <1>4, <1>5

\* More shown of a longer stream: the queues and the attach are as good as
\* before.
LEMMA ConnGrows ==
  ASSUME NEW a \in Attaches, NEW l \in Links, NEW s \in Nat, NEW t \in Nat, NEW s2 \in Nat,
         NEW t2 \in Nat, s <= s2, t <= t2
  PROVE  /\ DataOK(a, l, s, t) => DataOK(a, l, s2, t2)
         /\ Finished(a, l, s, t) => Finished(a, l, s2, t)
         /\ Unfinished(a, l) => Finished(a, l, s2, t2)
<1>1. /\ l.down \in Seq(Frame) /\ l.up \in Seq(Frame) /\ a.from \in Nat /\ a.peer \in Seq(Nat)
  BY DEF Attaches, Links
<1>2. Len(l.down) \in Nat /\ Len(a.peer) \in Nat
  BY <1>1
<1>3. UpOK(l.up, s) => UpOK(l.up, s2)
  <2>1. \A i \in 1..Len(l.up) : l.up[i].off \in Nat /\ Len(l.up[i].bytes) \in Nat
    BY <1>1, ElemType
  <2> QED BY <2>1 DEF UpOK
<1>4. /\ Reached(l.down, a.from, Len(l.down), s) => Reached(l.down, a.from, Len(l.down), s2)
      /\ FramesOK(l.down, s, t) => FramesOK(l.down, s2, t2)
      /\ ExitLast(l.down, s, t) => ExitLast(l.down, s2, t)
  BY <1>1, <1>2, QueueGrows
<1>5. DataOK(a, l, s, t) => DataOK(a, l, s2, t2)
  <2>1. /\ Len(a.peer) <= s => Len(a.peer) <= s2
        /\ a.from <= s => a.from <= s2
    BY <1>1, <1>2
  <2> QED BY <1>3, <1>4, <2>1 DEF DataOK
<1>6. Finished(a, l, s, t) => Finished(a, l, s2, t)
  BY <1>4 DEF Finished
<1>7. Unfinished(a, l) => Finished(a, l, s2, t2)
  BY DEF Unfinished, Finished, NoExit, ExitLast
<1> QED BY <1>5, <1>6, <1>7

\* A connection and its attach that a step leaves alone.
LEMMA ConnStays ==
  ASSUME TypeOK, TypeOK', NEW d \in Conns, ConnOK(d), UNCHANGED <<total, sealed>>,
         Held <= Held', starved => starved', attach'[d] = attach[d], link'[d] = link[d]
  PROVE  ConnOK(d)'
<1>1. DataOK(attach[d], link[d], Held', total)
  BY Sizes, SizesNext, ConnGrows DEF ConnOK
<1>2. Finished(attach[d], link[d], Held, total) => Finished(attach[d], link[d], Held', total)
  BY Sizes, SizesNext, ConnGrows
<1> QED BY <1>1, <1>2 DEF ConnOK

\* A step that moves one connection and its attach.
LEMMA OneMoves ==
  ASSUME TypeOK, TypeOK', DataInv, NEW c \in Conns, UNCHANGED <<total, sealed>>,
         Held <= Held', starved => starved',
         \A d \in Conns \ {c} : attach'[d] = attach[d] /\ link'[d] = link[d],
         ConnOK(c)', ShownOK'
  PROVE  DataInv'
<1>1. ASSUME NEW d \in Conns \ {c} PROVE ConnOK(d)'
  BY ConnStays DEF DataInv
<1> QED BY <1>1 DEF DataInv

\* A step of the daemon's: nothing is shown.
LEMMA ServesMoves ==
  ASSUME TypeOK, TypeOK', DataInv, NEW c \in Conns, Serves(c), trim' <= Held,
         starved => starved', \A d \in Conns \ {c} : link'[d] = link[d],
         DataOK(attach'[c], link'[c], Held, total),
         starved' \/ Finished(attach'[c], link'[c], Held, total),
         starved' \/ sealed \/ Unfinished(attach'[c], link'[c])
  PROVE  DataInv'
<1>1. /\ UNCHANGED <<client, total, sealed, gapped>>
      /\ \A d \in Conns \ {c} : attach'[d] = attach[d]
  BY ServesTouches
<1>2. Held' = Held
  BY <1>1 DEF Held
<1>3. ShownOK'
  BY <1>1, <1>2 DEF DataInv, ShownOK
<1>4. ConnOK(c)'
  BY <1>1, <1>2 DEF ConnOK
<1> QED BY <1>1, <1>2, <1>3, <1>4, Sizes, OneMoves

\* A connection that is closed holds nothing that could go wrong.
LEMMA CloseKeeps ==
  ASSUME NEW a \in Attaches, NEW l \in Links, NEW l2 \in Links, NEW s, NEW t,
         l2.clientEnd = l.clientEnd, l2.down = l.down, ~l2.daemonEnd, l2.up = <<>>
  PROVE  /\ DataOK(a, l, s, t) => DataOK(a, l2, s, t)
         /\ ExitLast(l.down, s, t) => Finished(a, l2, s, t)
         /\ NoExit(l.down) => Unfinished(a, l2)
<1>1. UpOK(l2.up, s)
  BY DEF UpOK
<1>2. DataOK(a, l, s, t) => DataOK(a, l2, s, t)
  BY <1>1 DEF DataOK
<1> QED BY <1>2 DEF Finished, Unfinished

\* The same of an attach that has returned.
LEMMA GoneKeeps ==
  ASSUME NEW a \in Attaches, NEW l \in Links, NEW s \in Nat, NEW t \in Nat
  PROVE  /\ DataOK(a, l, s, t) => DataOK(NotServed("gone"), l, s, t)
         /\ ExitLast(l.down, s, t) => Finished(NotServed("gone"), l, s, t)
         /\ NoExit(l.down) => Unfinished(NotServed("gone"), l)
<1>1. NotServed("gone").stage = "gone" /\ NotServed("gone").peer = <<>>
  BY DEF NotServed
<1>2. Len(NotServed("gone").peer) <= s
  BY <1>1
<1>3. DataOK(a, l, s, t) => DataOK(NotServed("gone"), l, s, t)
  BY <1>1, <1>2 DEF DataOK, Started
<1> QED BY <1>1, <1>3 DEF Finished, Unfinished

\* HELLO is read: it does not claim more than the client has shown.
LEMMA ReadHelloData ==
  ASSUME TypeOK, TypeOK', DataInv, NEW c \in Conns, ReadHello(c)
  PROVE  DataInv'
<1> DEFINE a == attach[c]  l == link[c]  a2 == attach'[c]  l2 == link'[c]
<1>1. ConnOK(c) /\ trim <= Held
  BY DEF DataInv, ShownOK
<1>2. Serves(c) /\ UNCHANGED <<trim, starved>> /\ \A d \in Conns \ {c} : link'[d] = link[d]
  BY Sizes DEF ReadHello, Serves, Serve, window, history
<1>3. l.up # <<>>
  BY DEF ReadHello, Receives
<1>4. /\ a2.stage = "manifest" /\ a2.peer = Head(l.up).bytes
      /\ l2.clientEnd = l.clientEnd /\ l2.down = l.down /\ l2.up = Tail(l.up)
  BY Sizes DEF ReadHello, Attaches, Links
<1>5. /\ l.up \in Seq(Frame) /\ Head(l.up) = l.up[1] /\ 1 \in 1..Len(l.up)
      /\ Len(Tail(l.up)) = Len(l.up) - 1 /\ Len(l.up) \in Nat
      /\ \A i \in 1..Len(Tail(l.up)) : Tail(l.up)[i] = l.up[i + 1]
  BY <1>3, Sizes, QueueType
<1>6. UpOK(l.up, Held)
  BY <1>1 DEF ConnOK, DataOK
<1>7. Len(a2.peer) <= Held
  BY <1>4, <1>5, <1>6 DEF UpOK
<1>8. UpOK(Tail(l.up), Held)
  <2>1. \A i \in 1..Len(Tail(l.up)) : i + 1 \in 1..Len(l.up)
    BY <1>5
  <2> QED BY <1>5, <1>6, <2>1 DEF UpOK
<1> HIDE DEF a, l, a2, l2
<1>9. DataOK(a2, l2, Held, total)
  BY <1>1, <1>4, <1>7, <1>8 DEF ConnOK, DataOK, Started, a, l
<1>10. /\ starved' \/ Finished(a2, l2, Held, total)
       /\ starved' \/ sealed \/ Unfinished(a2, l2)
  BY <1>1, <1>2, <1>4 DEF ConnOK, Finished, Unfinished, a, l
<1> QED BY <1>1, <1>2, <1>9, <1>10, ServesMoves DEF a2, l2

\* The manifests are compared: the resend starts no later than what the client
\* has shown.
LEMMA CompareData ==
  ASSUME TypeOK, TypeOK', DataInv, NEW c \in Conns, CompareManifests(c)
  PROVE  DataInv'
<1> DEFINE a == attach[c]  l == link[c]  a2 == attach'[c]
           r == ResendFrom([firstIndex |-> a.first,
                            hashes |-> HashesOf(trim \div ChunkSize, total)],
                           PeerManifest(a.peer))
<1>1. ConnOK(c) /\ trim <= Held
  BY DEF DataInv, ShownOK
<1>2. Serves(c) /\ UNCHANGED <<trim, starved, link>>
  BY Zenon DEF CompareManifests, Serves, Serve, window, history
<1>3. a2.stage = "resend" /\ a2.peer = <<>> /\ a2.from = r
  <2>1. attach' = [attach EXCEPT ![c] = [attach[c] EXCEPT !.stage = "resend", !.from = r,
                                                          !.peer = <<>>]]
    BY Zenon DEF CompareManifests
  <2> HIDE DEF r
  <2>2. a2 = [attach[c] EXCEPT !.stage = "resend", !.from = r, !.peer = <<>>]
    BY <2>1, Sizes
  <2> QED BY <2>2, Sizes DEF Attaches
<1>4. r \in Nat /\ r <= Held
  <2>1. trim \div ChunkSize \in Nat /\ a.first \in Nat /\ a.peer \in Seq(Nat) /\ total \in Nat
        /\ Len(a.peer) \in Nat /\ Held \in Nat
    <3>1. trim \in Nat /\ total \in Nat /\ Held \in Nat /\ a \in Attaches
      BY Sizes
    <3>2. a.first \in Nat /\ a.peer \in Seq(Nat)
      BY <3>1 DEF Attaches
    <3>3. trim \div ChunkSize \in Nat
      BY <3>1, ChunkAssumption DEF ChunkAssumption
    <3> QED BY <3>1, <3>2, <3>3
  <2>2. r \in Nat /\ r <= Len(a.peer)
    BY <2>1, ResendBound
  <2>3. Len(a.peer) <= Held
    BY <1>1 DEF ConnOK, DataOK
  <2> HIDE DEF r, a
  <2> QED BY <2>1, <2>2, <2>3
<1>5. Len(a2.peer) <= Held
  BY <1>3, Sizes
<1> HIDE DEF a, l, a2, r
<1>6. DataOK(a2, l, Held, total)
  BY <1>1, <1>3, <1>4, <1>5 DEF ConnOK, DataOK, Started, a, l
<1>7. /\ starved' \/ Finished(a2, l, Held, total)
      /\ starved' \/ sealed \/ Unfinished(a2, l)
  BY <1>1, <1>2, <1>3 DEF ConnOK, Finished, Unfinished, l
<1> QED BY <1>1, <1>2, <1>6, <1>7, ServesMoves DEF a2, l

\* An attach returns, and closes its connection or has closed it.
LEMMA GoneData ==
  ASSUME TypeOK, TypeOK', DataInv, NEW c \in Conns, Serves(c),
         UNCHANGED <<trim, starved>>,
         attach' = [attach EXCEPT ![c] = NotServed("gone")],
         link' = Closed(link, c) \/ UNCHANGED link
  PROVE  DataInv'
<1>1. ConnOK(c) /\ trim <= Held
  BY DEF DataInv, ShownOK
<1>2. attach'[c] = NotServed("gone") /\ NotServed("gone") \in Attaches
  BY Sizes, NotServedType DEF Stages
<1>3. \A d \in Conns \ {c} : link'[d] = link[d]
  BY Sizes, LinksType
<1>4. /\ DataOK(attach'[c], link[c], Held, total)
      /\ ExitLast(link[c].down, Held, total) => Finished(attach'[c], link[c], Held, total)
      /\ NoExit(link[c].down) => Unfinished(attach'[c], link[c])
  BY <1>1, <1>2, Sizes, GoneKeeps DEF ConnOK
<1>5. /\ DataOK(attach'[c], link'[c], Held, total)
      /\ ExitLast(link[c].down, Held, total) => Finished(attach'[c], link'[c], Held, total)
      /\ NoExit(link[c].down) => Unfinished(attach'[c], link'[c])
  <2>1. CASE link' = Closed(link, c)
    <3>1. /\ link'[c].clientEnd = link[c].clientEnd /\ link'[c].down = link[c].down
          /\ ~link'[c].daemonEnd /\ link'[c].up = <<>>
      BY <2>1, Sizes, LinksType
    <3> QED BY <1>2, <1>4, <3>1, Sizes, SizesNext, CloseKeeps
  <2>2. CASE UNCHANGED link
    BY <1>4, <2>2
  <2> QED BY <2>1, <2>2
<1>6. /\ starved \/ ExitLast(link[c].down, Held, total)
      /\ starved \/ sealed \/ NoExit(link[c].down)
  BY <1>1 DEF ConnOK, Finished, Unfinished
<1> QED BY <1>1, <1>3, <1>5, <1>6, ServesMoves

\* HELLO_ACK is written: the offset is clamped to a trim point the client has
\* shown.
LEMMA HelloAckData ==
  ASSUME TypeOK, TypeOK', DataInv, NEW c \in Conns, SendHelloAck(c)
  PROVE  DataInv'
<1> DEFINE a == attach[c]  l == link[c]  a2 == attach'[c]  l2 == link'[c]
<1>1. ConnOK(c) /\ trim <= Held
  BY DEF DataInv, ShownOK
<1>2. Serves(c) /\ UNCHANGED <<trim, starved>>
  BY Zenon DEF SendHelloAck, Serves, Serve, window, history
<1>3. CASE attach' = [attach EXCEPT ![c] = NotServed("gone")] /\ link' = Closed(link, c)
  BY <1>2, <1>3, GoneData
<1>4. CASE /\ attach' = [attach EXCEPT ![c].stage = "acked", ![c].from = Resume(@), ![c].first = 0]
           /\ link' = Sent(c, HelloAck)
  <2>1. a2 = [a EXCEPT !.stage = "acked", !.from = Resume(@), !.first = 0]
    <3>1. attach' = [attach EXCEPT ![c] = [a EXCEPT !.stage = "acked", !.from = Resume(@),
                                                    !.first = 0]]
      BY <1>4, Zenon
    <3> QED BY <3>1, Sizes
  <2>2. a2.stage = "acked" /\ a2.from = Resume(a.from) /\ a2.peer = a.peer
    BY <2>1, Sizes DEF Attaches
  <2>3. HelloAck \in Frame /\ HelloAck.type = "HELLO_ACK"
    BY FrameType DEF HelloAck
  <2>4. /\ \A d \in Conns \ {c} : link'[d] = link[d]
        /\ l2 = IF l.clientEnd THEN [l EXCEPT !.down = Append(@, HelloAck)] ELSE l
    BY <1>4, <2>3, Sizes, SentType
  <2>5. /\ l2.clientEnd = l.clientEnd /\ l2.up = l.up
        /\ l2.down = (IF l.clientEnd THEN Append(l.down, HelloAck) ELSE l.down)
    BY <2>4, Sizes DEF Links
  <2>6. Resume(a.from) \in Nat /\ Resume(a.from) <= Held
    <3>1. a.from \in Nat /\ trim \in Nat /\ a.from <= Held
      BY <1>1, Sizes DEF SendHelloAck, ConnOK, DataOK
    <3> QED BY <1>1, <3>1 DEF Resume, Greater
  <2>7. Reached(l2.down, a2.from, Len(l2.down), Held)
    BY <2>2, <2>6 DEF Reached
  <2>8. /\ FramesOK(l.down, Held, total) => FramesOK(l2.down, Held, total)
        /\ NoExit(l.down) => NoExit(l2.down)
        /\ ExitLast(l.down, Held, total) => ExitLast(l2.down, Held, total)
    BY <2>3, <2>5, Sizes, QueueAppends
  <2> HIDE DEF a, l, a2, l2
  <2>9. DataOK(a2, l2, Held, total)
    BY <1>1, <2>2, <2>5, <2>7, <2>8 DEF ConnOK, DataOK, a, l
  <2>10. /\ starved' \/ Finished(a2, l2, Held, total)
         /\ starved' \/ sealed \/ Unfinished(a2, l2)
    BY <1>1, <1>2, <2>2, <2>8 DEF ConnOK, Finished, Unfinished, a, l
  <2> QED BY <1>1, <1>2, <2>4, <2>9, <2>10, ServesMoves DEF a2, l2
<1> QED BY <1>3, <1>4, Zenon DEF SendHelloAck

\* An attach that goes on from the offset it had.
LEMMA AttachGoesOn ==
  ASSUME NEW a \in Attaches, NEW a2 \in Attaches, NEW l \in Links, NEW s, NEW t,
         a.stage \in Started \cup {"acked"}, a2.stage \in Started,
         a2.from = a.from, a2.peer = a.peer, DataOK(a, l, s, t)
  PROVE  DataOK(a2, l, s, t)
BY DEF DataOK, Started

\* The attach that becomes active closes the connection of the one before.
LEMMA ActivateData ==
  ASSUME TypeOK, TypeOK', DataInv, NEW c \in Conns, Activate(c)
  PROVE  DataInv'
<1> DEFINE Shut(d) == /\ link'[d].clientEnd = link[d].clientEnd /\ link'[d].down = link[d].down
                      /\ ~link'[d].daemonEnd /\ link'[d].up = <<>>
<1>1. /\ UNCHANGED <<total, trim, sealed, starved, gapped, client>> /\ Held' = Held
      /\ link' = Kicked(c)
  BY DEF Activate, window, history, Held
<1>2. ASSUME NEW d \in Conns PROVE link'[d] = link[d] \/ Shut(d)
  <2>1. CASE activeConn = None
    BY <1>1, <2>1 DEF Kicked
  <2>2. CASE activeConn # None
    <3>1. activeConn \in Conns
      BY <2>2, TypeParts DEF PlainOK
    <3>2. link' = Closed(link, activeConn)
      BY <1>1, <2>2 DEF Kicked
    <3>3. /\ \A e \in Conns : /\ link'[e].clientEnd = link[e].clientEnd
                             /\ link'[e].down = link[e].down
          /\ ~link'[activeConn].daemonEnd /\ link'[activeConn].up = <<>>
          /\ \A e \in Conns \ {activeConn} : link'[e] = link[e]
      BY <3>1, <3>2, Sizes, LinksType, SMTT(20)
    <3>4. CASE d = activeConn
      BY <3>3, <3>4
    <3>5. CASE d # activeConn
      BY <3>3, <3>5
    <3> QED BY <3>4, <3>5
  <2> QED BY <2>1, <2>2
<1>3. ASSUME NEW d \in Conns
      PROVE  /\ DataOK(attach[d], link'[d], Held, total)
             /\ starved \/ ExitLast(link'[d].down, Held, total)
             /\ starved \/ sealed \/ NoExit(link'[d].down)
             /\ d # c => /\ starved \/ Finished(attach[d], link'[d], Held, total)
                         /\ starved \/ sealed \/ Unfinished(attach[d], link'[d])
  <2>1. ConnOK(d)
    BY DEF DataInv
  <2>2. CASE link'[d] = link[d]
    BY <2>1, <2>2 DEF ConnOK, Finished, Unfinished
  <2>3. CASE Shut(d)
    <3>1. /\ DataOK(attach[d], link'[d], Held, total)
          /\ ExitLast(link[d].down, Held, total) => Finished(attach[d], link'[d], Held, total)
          /\ NoExit(link[d].down) => Unfinished(attach[d], link'[d])
      BY <2>1, <2>3, Sizes, SizesNext, CloseKeeps DEF ConnOK
    <3>2. /\ starved \/ ExitLast(link[d].down, Held, total)
          /\ starved \/ sealed \/ NoExit(link[d].down)
      BY <2>1 DEF ConnOK, Finished, Unfinished
    <3> QED BY <2>3, <3>1, <3>2
  <2> QED BY <1>2, <2>2, <2>3
<1>4. /\ attach'[c].stage = "live" /\ attach'[c].from = attach[c].from
      /\ attach'[c].peer = attach[c].peer /\ attach'[c].streamer = "run"
      /\ \A d \in Conns \ {c} : attach'[d] = attach[d]
  <2> DEFINE a2 == [attach[c] EXCEPT !.stage = "live", !.epoch = epoch + 1,
                                     !.streamer = "run", !.reader = "on"]
  <2>1. attach' = [attach EXCEPT ![c] = a2]
    BY Zenon DEF Activate
  <2>2. attach'[c] = a2
    BY <2>1, Sizes
  <2>3. /\ a2.stage = "live" /\ a2.streamer = "run"
        /\ a2.from = attach[c].from /\ a2.peer = attach[c].peer
    BY Sizes DEF Attaches
  <2> QED BY <2>1, <2>2, <2>3, Sizes
<1>5. DataOK(attach'[c], link'[c], Held, total)
  <2>1. attach[c].stage = "acked"
    BY DEF Activate
  <2> QED BY <1>3, <1>4, <2>1, Sizes, SizesNext, AttachGoesOn DEF Started
<1>6. /\ starved \/ Finished(attach'[c], link'[c], Held, total)
      /\ starved \/ sealed \/ Unfinished(attach'[c], link'[c])
  BY <1>3, <1>4 DEF Finished, Unfinished
<1>7. \A d \in Conns : ConnOK(d)'
  BY <1>1, <1>3, <1>4, <1>5, <1>6 DEF ConnOK
<1>8. ShownOK'
  BY <1>1 DEF DataInv, ShownOK
<1> QED BY <1>7, <1>8 DEF DataInv

\* A superseded attach, and one that begins to drain.
LEMMA EndingData ==
  ASSUME TypeOK, TypeOK', DataInv, NEW c \in Conns, Superseded(c) \/ Exiting(c)
  PROVE  DataInv'
<1>1. ConnOK(c) /\ trim <= Held
  BY DEF DataInv, ShownOK
<1>2. Serves(c) /\ UNCHANGED <<trim, starved>> /\ attach[c].stage = "live"
  BY Zenon DEF Superseded, Exiting, Serves, Serve, window, history
<1>3. /\ attach'[c].stage \in {"drain", "closing"} /\ attach'[c].from = attach[c].from
      /\ attach'[c].peer = attach[c].peer /\ attach'[c].streamer = attach[c].streamer
  BY Sizes DEF Superseded, Exiting, Attaches
<1>4. DataOK(attach'[c], link[c], Held, total)
  BY <1>1, <1>2, <1>3, Sizes, SizesNext, AttachGoesOn DEF Started, ConnOK
<1>5. CASE UNCHANGED link
  <2>1. /\ starved' \/ Finished(attach'[c], link[c], Held, total)
        /\ starved' \/ sealed \/ Unfinished(attach'[c], link[c])
    BY <1>1, <1>2, <1>3 DEF ConnOK, Finished, Unfinished
  <2> QED BY <1>1, <1>2, <1>4, <1>5, <2>1, ServesMoves
<1>6. CASE link' = Closed(link, c)
  <2>1. /\ \A d \in Conns \ {c} : link'[d] = link[d]
        /\ link'[c].clientEnd = link[c].clientEnd /\ link'[c].down = link[c].down
        /\ ~link'[c].daemonEnd /\ link'[c].up = <<>>
    BY <1>6, Sizes, LinksType
  <2>2. /\ DataOK(attach'[c], link'[c], Held, total)
        /\ ExitLast(link[c].down, Held, total) => Finished(attach'[c], link'[c], Held, total)
        /\ NoExit(link[c].down) => Unfinished(attach'[c], link'[c])
    BY <1>4, <2>1, Sizes, SizesNext, CloseKeeps
  <2>3. /\ starved \/ ExitLast(link[c].down, Held, total)
        /\ starved \/ sealed \/ NoExit(link[c].down)
    BY <1>1 DEF ConnOK, Finished, Unfinished
  <2> QED BY <1>1, <1>2, <2>1, <2>2, <2>3, ServesMoves
<1> QED BY <1>5, <1>6 DEF Superseded, Exiting

\* EXIT is written, on a connection that still takes it: all of the stream went
\* before it.
LEMMA SendExitData ==
  ASSUME TypeOK, TypeOK', StageOK, DataInv, NEW c \in Conns, SendExit(c)
  PROVE  DataInv'
<1> DEFINE l == link[c]  a == attach[c]
<1>1. ConnOK(c) /\ trim <= Held /\ Held <= total
  BY DEF DataInv, ShownOK
<1>2. Serves(c) /\ UNCHANGED <<trim, starved>>
  BY Zenon DEF SendExit, Serves, Serve, window, history
<1>3. a.stage = "drain" /\ a.streamer = "done" /\ sealed
  BY DEF SendExit, Drained, StageOK
<1>4. /\ attach'[c].stage = "closing" /\ attach'[c].from = a.from
      /\ attach'[c].peer = a.peer
  BY Sizes DEF SendExit, Attaches
<1>5. DataOK(attach'[c], l, Held, total)
  BY <1>1, <1>3, <1>4, Sizes, SizesNext, AttachGoesOn DEF Started, ConnOK
<1>6. CASE link' = Closed(link, c)
  <2>1. /\ \A d \in Conns \ {c} : link'[d] = link[d]
        /\ link'[c].clientEnd = l.clientEnd /\ link'[c].down = l.down
        /\ ~link'[c].daemonEnd /\ link'[c].up = <<>>
    BY <1>6, Sizes, LinksType
  <2>2. /\ DataOK(attach'[c], link'[c], Held, total)
        /\ ExitLast(l.down, Held, total) => Finished(attach'[c], link'[c], Held, total)
    BY <1>5, <2>1, Sizes, SizesNext, CloseKeeps
  <2>3. starved \/ ExitLast(l.down, Held, total)
    BY <1>1 DEF ConnOK, Finished
  <2> QED BY <1>1, <1>2, <1>3, <2>1, <2>2, <2>3, ServesMoves
<1>7. CASE CanSend(c) /\ link' = Closed(Sent(c, Exit), c)
  <2> DEFINE m == Sent(c, Exit)[c]
  <2>1. Exit \in Frame /\ Exit.type = "EXIT"
    BY FrameType DEF Exit
  <2>2. /\ Sent(c, Exit) \in [Conns -> Links]
        /\ \A d \in Conns \ {c} : Sent(c, Exit)[d] = link[d]
        /\ m = IF l.clientEnd THEN [l EXCEPT !.down = Append(@, Exit)] ELSE l
    BY <2>1, Sizes, SentType
  <2>3. /\ m \in Links /\ m.clientEnd = l.clientEnd /\ m.up = l.up
        /\ m.down = (IF l.clientEnd THEN Append(l.down, Exit) ELSE l.down)
    BY <2>2, Sizes DEF Links
  <2>4. /\ \A d \in Conns \ {c} : link'[d] = link[d]
        /\ link'[c].clientEnd = m.clientEnd /\ link'[c].down = m.down
        /\ ~link'[c].daemonEnd /\ link'[c].up = <<>>
    BY <1>7, <2>2, LinksType
  <2> HIDE DEF m
  <2>5. starved \/ a.from >= total
    BY <1>1, <1>3, <1>7 DEF ConnOK, Finished, CanSend
  <2>6. DataOK(a, l, Held, total)
    BY <1>1 DEF ConnOK
  <2>7. l.clientEnd => Reached(l.down, a.from, Len(l.down), Held)
    BY <1>3, <2>6 DEF DataOK, Started
  <2>8. l.clientEnd /\ ~starved => Reached(l.down, total, Len(l.down), Held)
    <3> SUFFICES ASSUME l.clientEnd, ~starved
                 PROVE  Reached(l.down, total, Len(l.down), Held)
      OBVIOUS
    <3>1. a.from \in Nat /\ total \in Nat /\ Held \in Nat /\ a.from >= total
      BY <2>5, Sizes
    <3>2. CASE a.from <= Held
      <4>1. total <= Held
        BY <3>1, <3>2
      <4> QED BY <4>1 DEF Reached
    <3>3. ASSUME NEW j \in 1..Len(l.down), l.down[j].type = "OUTPUT",
                 a.from = l.down[j].off + Len(l.down[j].bytes)
          PROVE  Reached(l.down, total, Len(l.down), Held)
      <4>1. l.down[j].off + Len(l.down[j].bytes) <= total
        BY <2>6, <3>3 DEF DataOK, FramesOK
      <4>2. total = a.from
        BY <3>1, <3>3, <4>1
      <4> QED BY <3>3, <4>2 DEF Reached
    <3> QED BY <2>7, <3>2, <3>3 DEF Reached
  <2>9. starved \/ ExitLast(m.down, Held, total)
    <3>1. starved \/ ExitLast(l.down, Held, total)
      BY <1>1 DEF ConnOK, Finished
    <3> QED BY <2>1, <2>3, <2>8, <3>1, Sizes, QueueAppends
  <2>10. DataOK(attach'[c], m, Held, total)
    <3>1. l.clientEnd =>
            /\ FramesOK(m.down, Held, total)
            /\ Reached(m.down, a.from, Len(m.down), Held)
      BY <2>1, <2>3, <2>6, <2>7, Sizes, QueueAppends DEF DataOK
    <3> HIDE DEF a, l
    <3> QED BY <1>4, <1>5, <2>3, <3>1 DEF DataOK, Started
  <2>11. /\ DataOK(attach'[c], link'[c], Held, total)
         /\ ExitLast(m.down, Held, total) => Finished(attach'[c], link'[c], Held, total)
    BY <2>3, <2>4, <2>10, Sizes, SizesNext, CloseKeeps
  <2> QED BY <1>1, <1>2, <1>3, <2>4, <2>9, <2>11, ServesMoves
<1> QED BY <1>6, <1>7 DEF SendExit

\* Every step of serveAttach.
LEMMA ServeData ==
  ASSUME TypeOK, TypeOK', StageOK, DataInv, NEW c \in Conns, Serve(c)
  PROVE  DataInv'
<1>1. ASSUME HelloFails(c) PROVE DataInv'
  <2>1. /\ Serves(c) /\ UNCHANGED <<trim, starved>>
        /\ attach' = [attach EXCEPT ![c] = NotServed("gone")] /\ link' = Closed(link, c)
    BY <1>1, Zenon DEF HelloFails, Serves, Serve, window, history
  <2> QED BY <2>1, GoneData
<1>2. ASSUME Cleanup(c) PROVE DataInv'
  <2>1. /\ Serves(c) /\ UNCHANGED <<trim, starved>>
        /\ attach' = [attach EXCEPT ![c] = NotServed("gone")] /\ UNCHANGED link
    BY <1>2, Zenon DEF Cleanup, Serves, Serve, window, history
  <2> QED BY <2>1, GoneData
<1> QED
  BY <1>1, <1>2, ReadHelloData, CompareData, HelloAckData, ActivateData, EndingData,
     SendExitData, Zenon DEF Serve

\* ReadAt and the write of what it returned.
LEMMA OutputData ==
  ASSUME TypeOK, TypeOK', StageOK, DataInv, NEW c \in Conns, StreamOutput(c)
  PROVE  DataInv'
<1> DEFINE a == attach[c]  l == link[c]  a2 == attach'[c]  l2 == link'[c]
           end == Lesser(a.from + MaxRead, total)
           f == Output(a.from, Slice(a.from, end))
<1>1. ConnOK(c) /\ trim <= Held
  BY DEF DataInv, ShownOK
<1>2. Serves(c) /\ UNCHANGED <<trim, starved>>
  BY Zenon DEF StreamOutput, Serves, Streamer, window, history
<1>3. a.from \in Nat /\ end \in Nat /\ a.from <= end /\ end <= total
  <2>1. a.from \in Nat /\ total \in Nat /\ MaxRead \in Nat /\ a.from < total
    BY Sizes, StreamAssumption DEF StreamAssumption, StreamOutput
  <2> QED BY <2>1 DEF Lesser
<1>4. f \in Frame /\ f.type = "OUTPUT"
  <2>1. f \in Frame
    BY <1>3, SliceIs, FrameType
  <2> QED BY <2>1 DEF Output
<1>5. /\ a2.from = end /\ a2.stage = a.stage /\ a2.peer = a.peer /\ a2.streamer = "run"
      /\ a.streamer = "run" /\ a.stage \in Started
  <2>1. attach' = [attach EXCEPT ![c].from = end] /\ a.streamer = "run"
    BY Zenon DEF StreamOutput
  <2>2. a.stage \in Started
    BY <2>1 DEF StageOK
  <2> HIDE DEF end
  <2>3. a2.from = end /\ a2.stage = a.stage /\ a2.peer = a.peer /\ a2.streamer = "run"
    BY <2>1, Sizes DEF Attaches
  <2> QED BY <2>1, <2>2, <2>3
<1>6. /\ \A d \in Conns \ {c} : link'[d] = link[d]
      /\ l2.clientEnd = l.clientEnd /\ l2.up = l.up
      /\ l2.down = (IF l.clientEnd THEN Append(l.down, f) ELSE l.down)
  <2>1. link' = Sent(c, f)
    BY Zenon DEF StreamOutput
  <2> HIDE DEF f
  <2>2. /\ \A d \in Conns \ {c} : link'[d] = link[d]
        /\ l2 = IF l.clientEnd THEN [l EXCEPT !.down = Append(@, f)] ELSE l
    BY <1>4, <2>1, Sizes, SentType
  <2> QED BY <2>2, Sizes DEF Links
<1>7. DataOK(a, l, Held, total)
  BY <1>1 DEF ConnOK
<1> HIDE DEF end
<1>8. l.clientEnd => FramesOK(l2.down, Held, total) /\ Reached(l2.down, end, Len(l2.down), Held)
  BY <1>3, <1>5, <1>6, <1>7, Sizes, QueueOutput, SMTT(20) DEF DataOK
<1> HIDE DEF f
<1>9. /\ NoExit(l.down) => NoExit(l2.down)
      /\ ExitLast(l.down, Held, total) => ExitLast(l2.down, Held, total)
  <2>1. f.type # "EXIT"
    BY <1>4
  <2> QED BY <1>4, <1>6, <2>1, Sizes, QueueAppends
<1> HIDE DEF a, l, a2, l2
<1>10. DataOK(a2, l2, Held, total)
  BY <1>5, <1>6, <1>7, <1>8 DEF DataOK, Started
<1>11. /\ starved' \/ Finished(a2, l2, Held, total)
       /\ starved' \/ sealed \/ Unfinished(a2, l2)
  BY <1>1, <1>2, <1>5, <1>9 DEF ConnOK, Finished, Unfinished, a, l
<1> QED BY <1>1, <1>2, <1>6, <1>10, <1>11, ServesMoves DEF a2, l2

\* The streamer waits, wakes or ends: if it ends before all is sent, it cannot
\* send, or had to give up.
LEMMA StreamerData ==
  ASSUME TypeOK, TypeOK', DataInv, NEW c \in Conns,
         StreamDrained(c) \/ StreamWakes(c) \/ StreamEnds(c)
  PROVE  DataInv'
<1> DEFINE a == attach[c]  a2 == attach'[c]
<1>1. ConnOK(c) /\ trim <= Held
  BY DEF DataInv, ShownOK
<1>2. /\ Serves(c) /\ UNCHANGED <<trim, link>>
  BY DEF StreamDrained, StreamWakes, StreamEnds, Serves, Streamer, window
<1>3. a2.stage = a.stage /\ a2.from = a.from /\ a2.peer = a.peer
  <2>1. PICK st : attach' = [attach EXCEPT ![c].streamer = st]
    BY DEF StreamDrained, StreamWakes, StreamEnds
  <2> QED BY <2>1, Sizes DEF Attaches
<1>4. \/ a2.streamer # "done" /\ UNCHANGED starved
      \/ sealed /\ a.from >= total /\ UNCHANGED starved
      \/ a.stage = "closing" /\ UNCHANGED starved
      \/ (~link[c].daemonEnd \/ link[c].reset) /\ UNCHANGED starved
      \/ starved'
  <2>1. CASE StreamDrained(c)
    <3>1. a2.streamer = "wait" /\ UNCHANGED starved
      BY <2>1, Sizes DEF StreamDrained, Attaches, history
    <3> QED BY <3>1
  <2>2. CASE StreamWakes(c)
    <3>1. UNCHANGED starved /\ (MoreToSend(c) \/ sealed)
      BY <2>2, Zenon DEF StreamWakes, history
    <3>2. CASE MoreToSend(c)
      <4>1. attach' = [attach EXCEPT ![c].streamer = "run"]
        BY <2>2, <3>2, Zenon DEF StreamWakes
      <4>2. a2.streamer = "run"
        BY <4>1, Sizes DEF Attaches
      <4> QED BY <3>1, <4>2
    <3>3. CASE ~MoreToSend(c)
      <4>1. a.from >= total
        BY <3>3, Sizes DEF MoreToSend
      <4> QED BY <3>1, <3>3, <4>1
    <3> QED BY <3>2, <3>3
  <2>3. CASE StreamEnds(c)
    BY <2>3 DEF StreamEnds, Cancelled, SendFails
  <2> QED BY <2>1, <2>2, <2>3
<1>5. starved => starved'
  BY <1>4
<1> HIDE DEF a, a2
<1>6. DataOK(a2, link[c], Held, total)
  BY <1>1, <1>3 DEF ConnOK, DataOK, a
<1>7. /\ starved' \/ Finished(a2, link[c], Held, total)
      /\ starved' \/ sealed \/ Unfinished(a2, link[c])
  BY <1>1, <1>3, <1>4 DEF ConnOK, Finished, Unfinished, a
<1> QED BY <1>1, <1>2, <1>5, <1>6, <1>7, ServesMoves DEF a2

\* An ACK is read: it acknowledges no more than was shown, so the daemon frees
\* no more.
LEMMA ReadAckData ==
  ASSUME TypeOK, TypeOK', DataInv, NEW c \in Conns, ReadAck(c)
  PROVE  DataInv'
<1> DEFINE l == link[c]  l2 == link'[c]
<1>1. ConnOK(c) /\ trim <= Held /\ UpOK(l.up, Held)
  BY DEF DataInv, ShownOK, ConnOK, DataOK
<1>2. /\ Serves(c) /\ UNCHANGED <<starved, attach>>
      /\ \A d \in Conns \ {c} : link'[d] = link[d]
  BY Sizes DEF ReadAck, Serves, Reader, history
<1>3. l.up # <<>>
  BY DEF ReadAck, Receives
<1>4. l2.clientEnd = l.clientEnd /\ l2.down = l.down /\ l2.up = Tail(l.up)
      /\ l2.daemonEnd = l.daemonEnd /\ l2.reset = l.reset
  BY Sizes DEF ReadAck, Links
<1>5. /\ l.up \in Seq(Frame) /\ Head(l.up) = l.up[1] /\ 1 \in 1..Len(l.up)
      /\ Head(l.up).off \in Nat
      /\ Len(Tail(l.up)) = Len(l.up) - 1 /\ Len(l.up) \in Nat
      /\ \A i \in 1..Len(Tail(l.up)) : Tail(l.up)[i] = l.up[i + 1]
  BY <1>3, Sizes, QueueType
<1>6. trim' <= Held
  <2>1. Head(l.up).off <= Held
    BY <1>1, <1>5 DEF UpOK
  <2>2. trim' = TrimmedTo(Head(l.up).off)
    BY DEF ReadAck
  <2>3. trim \in Nat /\ total \in Nat /\ Held \in Nat /\ Head(l.up).off \in Nat
    BY <1>5, Sizes
  <2> HIDE DEF l
  <2> QED BY <1>1, <2>1, <2>2, <2>3 DEF TrimmedTo, Greater, Lesser
<1>7. UpOK(Tail(l.up), Held)
  <2>1. \A i \in 1..Len(Tail(l.up)) : i + 1 \in 1..Len(l.up)
    BY <1>5
  <2> QED BY <1>1, <1>5, <2>1 DEF UpOK
<1> HIDE DEF l, l2
<1>8. DataOK(attach[c], l2, Held, total)
  BY <1>1, <1>4, <1>7 DEF ConnOK, DataOK, l
<1>9. /\ starved' \/ Finished(attach[c], l2, Held, total)
      /\ starved' \/ sealed \/ Unfinished(attach[c], l2)
  BY <1>1, <1>2, <1>4 DEF ConnOK, Finished, Unfinished, l
<1> QED BY <1>2, <1>6, <1>8, <1>9, ServesMoves DEF l2

\* A reader ends; a break is noticed, and what the client had sent is still
\* there or lost.
LEMMA BreakData ==
  ASSUME TypeOK, TypeOK', DataInv, NEW c \in Conns, ReaderEnds(c) \/ Reset(c)
  PROVE  DataInv'
<1> DEFINE l == link[c]  l2 == link'[c]  a == attach[c]  a2 == attach'[c]
<1>1. ConnOK(c) /\ trim <= Held
  BY DEF DataInv, ShownOK
<1>2. /\ Serves(c) /\ UNCHANGED <<starved, trim>>
      /\ \A d \in Conns \ {c} : link'[d] = link[d]
  BY Sizes DEF ReaderEnds, Reset, Serves, Reader, history, window
<1>3. a2.stage = a.stage /\ a2.from = a.from /\ a2.peer = a.peer /\ a2.streamer = a.streamer
  BY Sizes DEF ReaderEnds, Reset, Attaches
<1>4. /\ l2.clientEnd = l.clientEnd /\ l2.down = l.down /\ l2.up \in {l.up, <<>>}
      /\ l2.daemonEnd = l.daemonEnd
      /\ l.reset => l2.reset
  BY Sizes DEF ReaderEnds, Reset, Links
<1>5. UpOK(l2.up, Held)
  <2>1. UpOK(<<>>, Held)
    BY DEF UpOK
  <2> QED BY <1>1, <1>4, <2>1 DEF ConnOK, DataOK
<1> HIDE DEF l, l2, a, a2
<1>6. DataOK(a2, l2, Held, total)
  BY <1>1, <1>3, <1>4, <1>5 DEF ConnOK, DataOK, l, a
<1>7. /\ starved' \/ Finished(a2, l2, Held, total)
      /\ starved' \/ sealed \/ Unfinished(a2, l2)
  BY <1>1, <1>2, <1>3, <1>4 DEF ConnOK, Finished, Unfinished, l, a
<1> QED BY <1>1, <1>2, <1>6, <1>7, ServesMoves DEF l2, a2

\* Every step of the daemon for a connection.
LEMMA ServesData ==
  ASSUME TypeOK, TypeOK', StageOK, DataInv, NEW c \in Conns, Serves(c)
  PROVE  DataInv'
BY ServeData, OutputData, StreamerData, ReadAckData, BreakData, Zenon
   DEF Serves, Streamer, Reader

-----------------------------------------------------------------------------
(* The client *)

\* The bytes of a slice of k bytes.
LEMMA SliceOf ==
  ASSUME NEW lo \in Nat, NEW hi \in Nat, NEW k \in Nat, hi = lo + k
  PROVE  /\ Slice(lo, hi) \in Seq(Nat) /\ Len(Slice(lo, hi)) = k
         /\ \A i \in 1..k : Slice(lo, hi)[i] = lo + i - 1
<1>1. lo <= hi /\ hi - lo = k
  OBVIOUS
<1> QED BY <1>1, SliceIs

\* The part of an OUTPUT frame that is new to a client that has shown s bytes,
\* and what it shows then.
LEMMA FreshIs ==
  ASSUME NEW off \in Nat, NEW n \in Nat, NEW s \in Nat, off <= s, s < off + n
  PROVE  SubSeq(Slice(off, off + n), s - off + 1, n) = Slice(s, off + n)
<1> DEFINE e == off + n  k == e - s  b == Slice(off, e)  g == Slice(s, e)
           f == SubSeq(b, s - off + 1, n)
<1>0. e \in Nat /\ k \in Nat /\ e = s + k
  OBVIOUS
<1>1. b \in Seq(Nat) /\ Len(b) = n /\ \A i \in 1..n : b[i] = off + i - 1
  BY SliceOf, <1>0
<1> HIDE DEF k
<1>2. g \in Seq(Nat) /\ Len(g) = k /\ \A i \in 1..k : g[i] = s + i - 1
  BY SliceOf, <1>0
<1> HIDE DEF b, g
<1>3. /\ f \in Seq(Nat) /\ Len(f) = k
      /\ \A i \in 1..k : f[i] = b[s - off + i]
  BY <1>0, <1>1
<1>4. ASSUME NEW i \in 1..k PROVE f[i] = g[i]
  <2>1. s - off + i \in 1..n /\ off + (s - off + i) - 1 = s + i - 1
    BY <1>0
  <2> QED BY <1>1, <1>2, <1>3, <2>1
<1> HIDE DEF f
<1>5. f = g
  BY <1>2, <1>3, <1>4
<1> QED BY <1>5 DEF f, g, b

\* The elements of a concatenation.
LEMMA ConcatIs ==
  ASSUME NEW a \in Seq(Nat), NEW b \in Seq(Nat)
  PROVE  /\ a \o b \in Seq(Nat) /\ Len(a \o b) = Len(a) + Len(b)
         /\ \A i \in 1..Len(a) : (a \o b)[i] = a[i]
         /\ \A i \in 1..Len(b) : (a \o b)[Len(a) + i] = b[i]
<1>1. a \o b \in Seq(Nat) /\ Len(a \o b) = Len(a) + Len(b)
  OBVIOUS
<1>2. \A i \in 1..Len(a) : (a \o b)[i] = a[i]
  OBVIOUS
<1>3. \A i \in 1..Len(b) : (a \o b)[Len(a) + i] = b[i]
  OBVIOUS
<1> QED BY <1>1, <1>2, <1>3

\* Two adjacent slices are one.
LEMMA SliceJoin ==
  ASSUME NEW s \in Nat, NEW e \in Nat, s <= e
  PROVE  Slice(0, s) \o Slice(s, e) = Slice(0, e)
<1> DEFINE k == e - s  a == Slice(0, s)  b == Slice(s, e)  g == Slice(0, e)  f == a \o b
<1>0. k \in Nat /\ e = s + k /\ s = 0 + s /\ e = 0 + e
  OBVIOUS
<1>1. a \in Seq(Nat) /\ Len(a) = s /\ \A i \in 1..s : a[i] = 0 + i - 1
  BY SliceOf, <1>0
<1> HIDE DEF k
<1>2. b \in Seq(Nat) /\ Len(b) = k /\ \A i \in 1..k : b[i] = s + i - 1
  BY SliceOf, <1>0
<1>3. g \in Seq(Nat) /\ Len(g) = e /\ \A i \in 1..e : g[i] = 0 + i - 1
  BY SliceOf, <1>0
<1> HIDE DEF a, b, g
<1>4. /\ f \in Seq(Nat) /\ Len(f) = e
      /\ \A i \in 1..s : f[i] = a[i]
      /\ \A i \in 1..k : f[s + i] = b[i]
  BY <1>0, <1>1, <1>2, ConcatIs
<1> HIDE DEF f
<1>5. ASSUME NEW i \in 1..e PROVE f[i] = g[i]
  <2>1. CASE i <= s
    <3>1. i \in 1..s
      BY <2>1
    <3> QED BY <1>1, <1>3, <1>4, <3>1
  <2>2. CASE ~(i <= s)
    <3>1. i - s \in 1..k /\ s + (i - s) = i
      BY <1>0, <2>2
    <3>2. f[i] = b[i - s]
      BY <1>4, <3>1
    <3> QED BY <1>2, <1>3, <3>1, <3>2
  <2> QED BY <2>1, <2>2
<1>6. f = g
  BY <1>3, <1>4, <1>5
<1> QED BY <1>6 DEF f, g, b, a

\* A connection from which the first frame has been taken and shown.
LEMMA TakenKeeps ==
  ASSUME NEW a \in Attaches, NEW l \in Links, NEW l2 \in Links, NEW s \in Nat, NEW t \in Nat,
         NEW s2 \in Nat, s <= s2, DataOK(a, l, s, t), l.down # <<>>,
         Head(l.down).type = "OUTPUT" => Head(l.down).off + Len(Head(l.down).bytes) <= s2,
         l2.clientEnd = l.clientEnd, l2.daemonEnd = l.daemonEnd, l2.reset = l.reset,
         l2.down = Tail(l.down), UpOK(l2.up, s2)
  PROVE  /\ DataOK(a, l2, s2, t)
         /\ Finished(a, l, s, t) => Finished(a, l2, s2, t)
         /\ Unfinished(a, l) => Unfinished(a, l2)
<1>1. /\ l.down \in Seq(Frame) /\ a.from \in Nat /\ a.peer \in Seq(Nat)
  BY DEF Attaches, Links
<1>2. Len(a.peer) \in Nat
  BY <1>1
<1>3. /\ Reached(l.down, a.from, Len(l.down), s) => Reached(l2.down, a.from, Len(l2.down), s2)
      /\ FramesOK(l.down, s, t) => FramesOK(l2.down, s2, t)
      /\ NoExit(l.down) => NoExit(l2.down)
      /\ ExitLast(l.down, s, t) => ExitLast(l2.down, s2, t)
  BY <1>1, QueueTaken
<1>4. DataOK(a, l2, s2, t)
  <2>1. /\ Len(a.peer) <= s => Len(a.peer) <= s2
        /\ a.from <= s => a.from <= s2
    BY <1>1, <1>2
  <2> QED BY <1>3, <2>1 DEF DataOK
<1> QED BY <1>3, <1>4 DEF Finished, Unfinished

\* A connection the client has lost.
LEMMA BrokenKeeps ==
  ASSUME NEW a \in Attaches, NEW l \in Links, NEW l2 \in Links, NEW s \in Nat, NEW t \in Nat,
         DataOK(a, l, s, t),
         ~l2.clientEnd, l2.daemonEnd = l.daemonEnd, l2.reset = l.reset, l2.down = <<>>,
         l2.up = l.up
  PROVE  /\ DataOK(a, l2, s, t)
         /\ Finished(a, l, s, t) => Finished(a, l2, s, t)
         /\ Unfinished(a, l) => Unfinished(a, l2)
<1>1. FramesOK(<<>>, s, t) /\ NoExit(<<>>) /\ ExitLast(<<>>, s, t)
  BY DEF FramesOK, NoExit, ExitLast
<1> QED BY <1>1 DEF DataOK, Finished, Unfinished

\* A step of the client that moves no connection.
LEMMA ClientStays ==
  ASSUME TypeOK, TypeOK', ConnectedOK, DataInv, Client, ~Connect, UNCHANGED link, Held <= Held', ShownOK'
  PROVE  DataInv'
<1>1. UNCHANGED <<total, sealed, starved, attach>>
  BY ClientTouches
<1>2. \A d \in Conns : ConnOK(d)'
  BY <1>1, ConnStays DEF DataInv
<1> QED BY <1>2 DEF DataInv

\* A step of the client that moves connection c.
LEMMA ClientMoves ==
  ASSUME TypeOK, TypeOK', ConnectedOK, DataInv, Client, ~Connect, Held <= Held', ShownOK', NEW c \in Conns,
         \A d \in Conns \ {c} : link'[d] = link[d],
         DataOK(attach[c], link'[c], Held', total),
         Finished(attach[c], link[c], Held, total)
           => Finished(attach[c], link'[c], Held', total),
         Unfinished(attach[c], link[c]) => Unfinished(attach[c], link'[c])
  PROVE  DataInv'
<1>1. UNCHANGED <<total, sealed, starved, attach>>
  BY ClientTouches
<1>2. ConnOK(c)
  BY DEF DataInv
<1>3. ConnOK(c)'
  BY <1>1, <1>2 DEF ConnOK
<1> QED BY <1>1, <1>3, OneMoves

\* The connection the client reads from, with its first frame taken.
LEMMA TakenFields ==
  ASSUME TypeOK, client.conn \in Conns, link[client.conn].down # <<>>
  PROVE  LET l == link[client.conn]  l2 == Taken[client.conn]
         IN /\ Taken \in [Conns -> Links] /\ l2 \in Links
            /\ l2.clientEnd = l.clientEnd /\ l2.daemonEnd = l.daemonEnd /\ l2.reset = l.reset
            /\ l2.down = Tail(l.down) /\ l2.up = l.up
            /\ \A d \in Conns \ {client.conn} : Taken[d] = link[d]
            /\ Head(l.down) = l.down[1] /\ 1 \in 1..Len(l.down)
            /\ Head(l.down).off \in Nat /\ Head(l.down).bytes \in Seq(Nat)
<1> DEFINE c == client.conn
<1>1. /\ Taken \in [Conns -> Links]
      /\ Taken[c] = [link[c] EXCEPT !.down = Tail(@)]
      /\ \A d \in Conns \ {c} : Taken[d] = link[d]
      /\ Head(link[c].down) = link[c].down[1] /\ 1 \in 1..Len(link[c].down)
      /\ Head(link[c].down).off \in Nat /\ Head(link[c].down).bytes \in Seq(Nat)
  BY Sizes, TakenType
<1>2. link[c] \in Links
  BY Sizes
<1>3. LET l2 == [link[c] EXCEPT !.down = Tail(@)]
      IN /\ l2.clientEnd = link[c].clientEnd /\ l2.daemonEnd = link[c].daemonEnd
         /\ l2.reset = link[c].reset /\ l2.down = Tail(link[c].down) /\ l2.up = link[c].up
  BY <1>2 DEF Links
<1>4. Taken[c] \in Links
  BY <1>1
<1> QED BY <1>1, <1>3, <1>4

\* HELLO_ACK is read.
LEMMA HelloAckRead ==
  ASSUME TypeOK, TypeOK', ConnectedOK, DataInv, RecvHelloAck
  PROVE  DataInv'
<1> DEFINE c == client.conn
<1>1. /\ c \in Conns /\ link[c].down # <<>> /\ Head(link[c].down).type = "HELLO_ACK"
      /\ link' = Taken /\ Client /\ ~Connect
  BY DEF RecvHelloAck, Incoming, ConnectedOK, Connected, Client, ClientReads, Connect
<1>2. /\ client'.shown = client.shown /\ client'.phase = "live" /\ client'.ticker = client.ticker
      /\ UNCHANGED <<total, trim, gapped>> /\ Held' = Held
  BY Sizes DEF RecvHelloAck, Clients, window, history, Held
<1>3. ShownOK'
  BY <1>2 DEF DataInv, ShownOK
<1>4. DataOK(attach[c], link[c], Held, total)
  BY <1>1 DEF DataInv, ConnOK
<1>5. UpOK(Taken[c].up, Held)
  BY <1>1, <1>4, TakenFields DEF DataOK
<1>6. /\ DataOK(attach[c], Taken[c], Held, total)
      /\ Finished(attach[c], link[c], Held, total) => Finished(attach[c], Taken[c], Held, total)
      /\ Unfinished(attach[c], link[c]) => Unfinished(attach[c], Taken[c])
  <2> DEFINE l == link[c]  l2 == Taken[c]
  <2>1. /\ l2 \in Links /\ l2.clientEnd = l.clientEnd /\ l2.daemonEnd = l.daemonEnd
        /\ l2.reset = l.reset /\ l2.down = Tail(l.down)
    BY <1>1, TakenFields
  <2>2. attach[c] \in Attaches /\ l \in Links /\ Held \in Nat /\ total \in Nat /\ Held <= Held
    BY <1>1, Sizes
  <2>3. l.down # <<>> /\ Head(l.down).type # "OUTPUT"
    BY <1>1
  <2> HIDE DEF l, l2
  <2>4. DataOK(attach[c], l, Held, total) /\ UpOK(l2.up, Held)
    BY <1>4, <1>5 DEF l, l2
  <2>5. /\ DataOK(attach[c], l2, Held, total)
        /\ Finished(attach[c], l, Held, total) => Finished(attach[c], l2, Held, total)
        /\ Unfinished(attach[c], l) => Unfinished(attach[c], l2)
    BY <2>1, <2>2, <2>3, <2>4, TakenKeeps
  <2> QED BY <2>5 DEF l, l2
<1>7. \A d \in Conns \ {c} : link'[d] = link[d]
  BY <1>1, TakenFields
<1> QED BY <1>1, <1>2, <1>3, <1>6, <1>7, Sizes, ClientMoves

\* What a frame at the head of the queue says.
LEMMA HeadIs ==
  ASSUME NEW q \in Seq(Frame), q # <<>>, NEW s \in Nat, NEW t \in Nat
  PROVE  /\ Head(q).type = "OUTPUT" /\ FramesOK(q, s, t) =>
              /\ Head(q).bytes = Slice(Head(q).off, Head(q).off + Len(Head(q).bytes))
              /\ Head(q).off + Len(Head(q).bytes) <= t /\ Head(q).off <= s
         /\ Head(q).type = "EXIT" /\ ExitLast(q, s, t) => t <= s
         /\ Head(q).type = "EXIT" => ~NoExit(q)
<1>1. Head(q) = q[1] /\ 1 \in 1..Len(q) /\ 1 - 1 = 0 /\ 1..0 = {}
  BY QueueType
<1>2. \A off : Reached(q, off, 0, s) => off <= s
  BY <1>1 DEF Reached
<1> QED BY <1>1, <1>2 DEF FramesOK, ExitLast, NoExit

\* An ACK of what is shown.
LEMMA UpAppends ==
  ASSUME NEW q \in Seq(Frame), NEW s \in Nat, NEW off \in Nat, off <= s, UpOK(q, s)
  PROVE  UpOK(Append(q, Ack(off)), s)
<1> DEFINE p == Append(q, Ack(off))
<1>1. Ack(off) \in Frame /\ Ack(off).off = off /\ Ack(off).bytes = <<>>
  BY FrameType DEF Ack
<1>2. Len(<<>>) <= s
  OBVIOUS
<1>3. /\ p[Len(q) + 1] = Ack(off) /\ Len(p) = Len(q) + 1 /\ Len(q) \in Nat
      /\ \A i \in 1..Len(q) : p[i] = q[i]
  BY <1>1, QueueType
<1> HIDE DEF p
<1>4. \A i \in 1..Len(p) : i \in 1..Len(q) \/ i = Len(q) + 1
  BY <1>3
<1>5. UpOK(p, s)
  BY <1>1, <1>2, <1>3, <1>4 DEF UpOK
<1> QED BY <1>5 DEF p

\* handleOutputFrame: no frame is ahead of what is shown, and what is new of it
\* is the next part of the stream.
LEMMA OutputRead ==
  ASSUME TypeOK, TypeOK', ConnectedOK, DataInv, RecvOutput
  PROVE  /\ DataInv'
         /\ \/ UNCHANGED client
            \/ \E n \in (Held + 1)..total : client'.shown = client.shown \o Slice(Held, n)
<1> DEFINE c == client.conn  f == Head(link[c].down)  n == f.off + Len(f.bytes)
           shown == client.shown \o Fresh(f)
<1>1. /\ c \in Conns /\ link[c].down # <<>> /\ f.type = "OUTPUT" /\ Client /\ ~Connect
  BY DEF RecvOutput, Incoming, ConnectedOK, Connected, Client, ClientReads, Connect
<1>2. /\ DataOK(attach[c], link[c], Held, total) /\ ShownOK
  BY <1>1 DEF DataInv, ConnOK
<1>3. f.off \in Nat /\ f.bytes \in Seq(Nat) /\ Len(f.bytes) \in Nat /\ n \in Nat
  <2>1. f.off \in Nat /\ f.bytes \in Seq(Nat)
    BY <1>1, Sizes, QueueType
  <2> HIDE DEF f
  <2> QED BY <2>1
<1>4. f.bytes = Slice(f.off, n) /\ n <= total /\ f.off <= Held
  BY <1>1, <1>2, Sizes, HeadIs DEF DataOK
<1>5. /\ UNCHANGED <<total, trim, sealed, starved>> /\ client'.phase = client.phase
      /\ client'.ticker = client.ticker /\ client.phase = "live"
  BY Sizes DEF RecvOutput, Clients, window
<1>6. /\ \A d \in Conns \ {c} : Taken[d] = link[d]
      /\ UpOK(Taken[c].up, Held) /\ Taken \in [Conns -> Links]
  BY <1>1, <1>2, TakenFields DEF DataOK
<1>7. ASSUME NEW s2 \in Nat, Held <= s2, n <= s2, NEW l2 \in Links,
             l2.clientEnd = link[c].clientEnd, l2.daemonEnd = link[c].daemonEnd,
             l2.reset = link[c].reset, l2.down = Tail(link[c].down), UpOK(l2.up, s2)
      PROVE  /\ DataOK(attach[c], l2, s2, total)
             /\ Finished(attach[c], link[c], Held, total) => Finished(attach[c], l2, s2, total)
             /\ Unfinished(attach[c], link[c]) => Unfinished(attach[c], l2)
  BY <1>1, <1>2, <1>7, Sizes, TakenKeeps
<1>8. CASE n <= Held
  <2>1. link' = Taken /\ UNCHANGED client /\ gapped' = gapped /\ Held' = Held
    <3>1. /\ link' = Taken /\ UNCHANGED client
          /\ gapped' = (gapped \/ f.off > Held)
      BY <1>8, Zenon DEF RecvOutput, Held
    <3>2. ~(f.off > Held)
      BY <1>3, <1>4, Sizes, SMTT(20)
    <3>3. ~gapped /\ gapped' = FALSE
      BY <1>2, <3>1, <3>2, Zenon DEF ShownOK
    <3>4. gapped = FALSE
      BY <3>3, TypeParts, Zenon DEF PlainOK
    <3>5. Held' = Held
      BY <3>1 DEF Held
    <3> QED BY <3>1, <3>3, <3>4, <3>5
  <2>2. ShownOK'
    BY <1>2, <1>5, <2>1 DEF ShownOK
  <2>3. /\ DataOK(attach[c], Taken[c], Held, total)
        /\ Finished(attach[c], link[c], Held, total) => Finished(attach[c], Taken[c], Held, total)
        /\ Unfinished(attach[c], link[c]) => Unfinished(attach[c], Taken[c])
    <3> DEFINE l2 == Taken[c]
    <3>1. /\ l2 \in Links /\ l2.clientEnd = link[c].clientEnd
          /\ l2.daemonEnd = link[c].daemonEnd /\ l2.reset = link[c].reset
          /\ l2.down = Tail(link[c].down)
      BY <1>1, TakenFields
    <3>2. Held \in Nat /\ Held <= Held /\ UpOK(l2.up, Held)
      BY <1>6, Sizes
    <3> HIDE DEF l2, n
    <3> QED BY <1>7, <1>8, <3>1, <3>2 DEF l2
  <2> QED BY <1>1, <1>6, <2>1, <2>2, <2>3, Sizes, ClientMoves
<1>9. CASE ~(n <= Held)
  <2>1. /\ gapped' = gapped /\ client'.shown = shown
        /\ link' = Taken \/ link' = Acked(Taken, c, Len(shown))
    <3>1. ~(n <= Held \/ f.off > Held)
      BY <1>3, <1>4, <1>9, Sizes
    <3>2. /\ gapped' = gapped
          /\ \/ client' = [client EXCEPT !.shown = shown] /\ link' = Taken
             \/ /\ client' = [client EXCEPT !.shown = shown, !.ackedThrough = Len(shown)]
                /\ link' = Acked(Taken, c, Len(shown))
      BY <3>1, Zenon DEF RecvOutput, Held
    <3> HIDE DEF shown
    <3> QED BY <3>2, Sizes DEF Clients
  <2>2. Fresh(f) = Slice(Held, n)
    <3>1. Held < n /\ Held \in Nat
      BY <1>3, <1>9, Sizes
    <3>2. SubSeq(Slice(f.off, n), Held - f.off + 1, Len(f.bytes)) = Slice(Held, n)
      BY <1>3, <1>4, <3>1, FreshIs
    <3> QED BY <1>4, <3>2, Zenon DEF Fresh, Held
  <2> HIDE DEF n, f
  <2>3. shown = Slice(0, n) /\ Len(shown) = n /\ Held < n /\ n <= total /\ n \in Nat /\ Held \in Nat
    <3>1. Held < n /\ Held \in Nat /\ n \in Nat /\ Held <= n
      BY <1>3, <1>9, Sizes
    <3>2. Slice(0, Held) \o Slice(Held, n) = Slice(0, n)
      BY <3>1, SliceJoin
    <3>3. client.shown = Slice(0, Held)
      BY <1>2 DEF ShownOK
    <3>4. shown = Slice(0, n)
      BY <2>2, <3>2, <3>3, Zenon
    <3>5. Len(Slice(0, n)) = n
      <4>1. n = 0 + n
        BY <3>1
      <4> QED BY <3>1, <4>1, SliceOf
    <3> QED BY <1>4, <3>1, <3>4, <3>5
  <2> HIDE DEF shown
  <2>4. Held' = n
    BY <2>1, <2>3 DEF Held
  <2>5. ShownOK'
    <3>1. client'.shown = Slice(0, Held')
      BY <2>1, <2>3, <2>4
    <3>2. Held' <= total' /\ trim' <= Held' /\ client'.ticker.off <= Held'
      <4>1. trim <= Held /\ client.ticker.off <= Held /\ trim \in Nat /\ client.ticker.off \in Nat
        BY <1>2, Sizes DEF ShownOK, Clients
      <4> QED BY <1>5, <2>3, <2>4, <4>1
    <3>3. ~gapped' /\ client'.phase # "exited"
      BY <1>2, <1>5, <2>1 DEF ShownOK
    <3> QED BY <3>1, <3>2, <3>3 DEF ShownOK
  <2>6. UpOK(Taken[c].up, n)
    <3>1. Taken[c].up \in Seq(Frame) /\ Taken[c] \in Links
      BY <1>1, <1>6 DEF Links
    <3>2. \A i \in 1..Len(Taken[c].up) : /\ Taken[c].up[i].off \in Nat
                                         /\ Len(Taken[c].up[i].bytes) \in Nat
      BY <3>1, ElemType
    <3> QED BY <1>6, <2>3, <3>2 DEF UpOK
  <2>7. /\ \A d \in Conns \ {c} : link'[d] = link[d]
        /\ link'[c].clientEnd = link[c].clientEnd /\ link'[c].daemonEnd = link[c].daemonEnd
        /\ link'[c].reset = link[c].reset /\ link'[c].down = Tail(link[c].down)
        /\ UpOK(link'[c].up, n)
    <3>1. CASE link' = Taken
      BY <1>1, <1>6, <2>6, <3>1, TakenFields
    <3>2. CASE link' = Acked(Taken, c, n)
      <4>1. /\ link'[c].up \in {Taken[c].up, Append(Taken[c].up, Ack(n))}
            /\ link'[c].clientEnd = Taken[c].clientEnd /\ link'[c].daemonEnd = Taken[c].daemonEnd
            /\ link'[c].reset = Taken[c].reset /\ link'[c].down = Taken[c].down
            /\ \A d \in Conns \ {c} : link'[d] = Taken[d]
        BY <1>1, <1>6, <2>3, <3>2, AckedType
      <4>2. UpOK(Append(Taken[c].up, Ack(n)), n)
        BY <1>1, <1>6, <2>3, <2>6, UpAppends DEF Links
      <4> QED BY <1>1, <1>6, <2>6, <4>1, <4>2, TakenFields
    <3> QED BY <2>1, <2>3, <3>1, <3>2
  <2>8. Held <= n /\ n <= n
    BY <2>3
  <2>9. /\ DataOK(attach[c], link'[c], n, total)
        /\ Finished(attach[c], link[c], Held, total) => Finished(attach[c], link'[c], n, total)
        /\ Unfinished(attach[c], link[c]) => Unfinished(attach[c], link'[c])
    BY <1>1, <1>7, <2>3, <2>7, <2>8, SizesNext
  <2>10. DataInv'
    BY <1>1, <2>4, <2>5, <2>7, <2>8, <2>9, ClientMoves
  <2>11. n \in (Held + 1)..total
    BY <2>3, Sizes
  <2> QED BY <2>1, <2>2, <2>10, <2>11 DEF shown
<1> QED BY <1>8, <1>9

\* The connection is lost: cut, closed by the daemon, or done with.
LEMMA BrokenData ==
  ASSUME TypeOK, TypeOK', ConnectedOK, DataInv, Connected, Client, ~Connect,
         link' = Broken(client.conn), client'.shown = client.shown, ShownOK'
  PROVE  DataInv'
<1> DEFINE c == client.conn  l == link[c]  l2 == link'[c]
<1>1. c \in Conns /\ Held' = Held
  BY DEF ConnectedOK, Held
<1>2. /\ l2 = [l EXCEPT !.clientEnd = FALSE, !.down = <<>>]
      /\ \A d \in Conns \ {c} : link'[d] = link[d]
  BY <1>1, Sizes, BrokenType
<1>3. /\ ~l2.clientEnd /\ l2.daemonEnd = l.daemonEnd /\ l2.reset = l.reset
      /\ l2.down = <<>> /\ l2.up = l.up
  BY <1>1, <1>2, Sizes DEF Links
<1>4. DataOK(attach[c], l, Held, total)
  BY <1>1 DEF DataInv, ConnOK
<1>5. attach[c] \in Attaches /\ l \in Links /\ l2 \in Links /\ Held \in Nat /\ total \in Nat
  BY <1>1, Sizes, SizesNext
<1> HIDE DEF l, l2
<1>6. /\ DataOK(attach[c], l2, Held, total)
      /\ Finished(attach[c], l, Held, total) => Finished(attach[c], l2, Held, total)
      /\ Unfinished(attach[c], l) => Unfinished(attach[c], l2)
  BY <1>3, <1>4, <1>5, BrokenKeeps
<1>7. Held <= Held'
  BY <1>1, <1>5
<1> QED BY <1>1, <1>2, <1>6, <1>7, ClientMoves DEF l, l2

\* EXIT is read: everything before it has been shown.
LEMMA ExitRead ==
  ASSUME TypeOK, TypeOK', ConnectedOK, DataInv, RecvExit
  PROVE  DataInv'
<1> DEFINE c == client.conn  q == link[c].down
<1>1. /\ Connected /\ c \in Conns /\ q # <<>> /\ Head(q).type = "EXIT"
      /\ link' = Broken(c) /\ Client /\ ~Connect
  BY DEF RecvExit, Incoming, ConnectedOK, Connected, Client, ClientReads, Connect
<1>2. /\ UNCHANGED <<total, trim, sealed, starved, gapped>>
      /\ client'.shown = client.shown /\ client'.ticker = client.ticker
  BY Sizes DEF RecvExit, Clients, window, history
<1>3. ConnOK(c) /\ ShownOK
  BY <1>1 DEF DataInv
<1>4. q \in Seq(Frame) /\ Held \in Nat /\ total \in Nat
  BY <1>1, Sizes
<1> HIDE DEF q
<1>5. starved \/ (sealed /\ total <= Held)
  <2>1. /\ starved \/ ExitLast(q, Held, total)
        /\ starved \/ sealed \/ NoExit(q)
    BY <1>3 DEF ConnOK, Finished, Unfinished, q
  <2> QED BY <1>1, <1>4, <2>1, HeadIs
<1>6. starved \/ (sealed /\ Held = total)
  BY <1>3, <1>4, <1>5 DEF ShownOK
<1>7. ShownOK'
  BY <1>2, <1>3, <1>6 DEF ShownOK, Held
<1> QED BY <1>1, <1>2, <1>7, BrokenData

\* The connection ends without EXIT.
LEMMA LostData ==
  ASSUME TypeOK, TypeOK', ConnectedOK, DataInv, RecvEOF \/ Cut
  PROVE  DataInv'
<1>1. /\ Connected /\ link' = Broken(client.conn) /\ Client /\ ~Connect
      /\ client' = Retried
  BY DEF RecvEOF, Cut, Connected, Client, ClientReads, Connect
<1>2. /\ UNCHANGED <<total, trim, sealed, starved, gapped>>
      /\ client'.shown = client.shown /\ client'.ticker = client.ticker
      /\ client'.phase # "exited"
  BY <1>1, Sizes DEF RecvEOF, Cut, Retried, Clients, window, history
<1>3. ShownOK'
  BY <1>2 DEF DataInv, ShownOK, Held
<1> QED BY <1>1, <1>2, <1>3, BrokenData

\* A connection more: its HELLO tells what is shown.
LEMMA ConnectData ==
  ASSUME TypeOK, TypeOK', LinkOK, DataInv, Connect
  PROVE  DataInv'
<1>0. client.conn + 1 \in Conns
  BY ConnectTouches
<1> PICK c \in Conns : c = client.conn + 1
  BY <1>0
<1> DEFINE a2 == attach'[c]  l2 == link'[c]
<1>1. /\ client.phase = "idle"
      /\ client'.phase = "hello" /\ client'.shown = client.shown
      /\ client'.ticker = client.ticker
      /\ a2 = [attach[c] EXCEPT !.stage = "hello"]
      /\ \A d \in Conns \ {c} : attach'[d] = attach[d] /\ link'[d] = link[d]
      /\ l2.up = <<Hello(client.shown)>> /\ l2.down = link[c].down
  BY ConnectTouches
<1>2. UNCHANGED <<total, trim, sealed, starved, gapped>> /\ Held' = Held
  BY <1>1 DEF Connect, window, history, Held
<1>3. a2.stage = "hello" /\ a2.peer = attach[c].peer
  BY <1>1, Sizes DEF Attaches
<1>4. ~link[c].clientEnd /\ ConnOK(c)
  BY <1>1 DEF LinkOK, Connected, DataInv
<1>5. link[c].down = <<>> /\ Len(a2.peer) <= Held
  BY <1>3, <1>4 DEF ConnOK, DataOK
<1>6. UpOK(l2.up, Held)
  <2>1. Hello(client.shown).off = 0 /\ Hello(client.shown).bytes = client.shown
    BY DEF Hello
  <2>2. 0 <= Held /\ Len(client.shown) <= Held
    BY Sizes DEF Held
  <2> QED BY <1>1, <2>1, <2>2 DEF UpOK
<1>7. FramesOK(<<>>, Held, total) /\ NoExit(<<>>) /\ ExitLast(<<>>, Held, total)
  BY DEF FramesOK, NoExit, ExitLast
<1>8. DataOK(a2, l2, Held, total)
  BY <1>1, <1>3, <1>5, <1>6, <1>7 DEF DataOK, Started
<1>9. Finished(a2, l2, Held, total) /\ Unfinished(a2, l2)
  BY <1>1, <1>3, <1>5, <1>7 DEF Finished, Unfinished
<1>10. ConnOK(c)'
  BY <1>2, <1>8, <1>9 DEF ConnOK
<1>11. ShownOK'
  BY <1>1, <1>2 DEF DataInv, ShownOK
<1> QED BY <1>1, <1>2, <1>10, <1>11, Sizes, OneMoves

\* The ticker, and a client that is refused.
LEMMA TickerData ==
  ASSUME TypeOK, TypeOK', ConnectedOK, DataInv,
         ConnectRefused \/ TickerLoads \/ TickerTakes \/ TickerWrites
  PROVE  DataInv'
<1>a. UNCHANGED <<total, trim, sealed, starved, gapped>> /\ Client
  BY DEF ConnectRefused, TickerLoads, TickerTakes, TickerWrites, window, history, Client
<1>b. /\ client \in Clients /\ Held \in Nat /\ client.ticker.off <= Held
      /\ client.ticker \in [conn : Conns \cup {None}, off : Nat]
  BY Sizes DEF DataInv, ShownOK, Clients
<1>c. ASSUME NEW k, NEW n, k.off <= Held,
             \/ client' = [client EXCEPT !.ticker = k]
             \/ client' = [client EXCEPT !.ticker = k, !.ackedThrough = n]
      PROVE  /\ client'.shown = client.shown /\ client'.phase = client.phase
             /\ client'.ticker.off <= Held
  <2>1. client'.shown = client.shown /\ client'.phase = client.phase /\ client'.ticker = k
    BY <1>b, <1>c DEF Clients
  <2> QED BY <1>c, <2>1
<1>d. NoTick.off <= Held
  BY <1>b DEF NoTick
<1>2. /\ client'.shown = client.shown /\ client'.ticker.off <= Held
      /\ client'.phase \in {client.phase, "refused"}
  <2>1. CASE ConnectRefused
    BY <1>b, <2>1 DEF ConnectRefused, Clients
  <2>2. CASE TickerLoads
    <3>1. client' = [client EXCEPT !.ticker = [client.ticker EXCEPT !.conn = client.conn]]
      BY <2>2, Zenon DEF TickerLoads
    <3>2. [client.ticker EXCEPT !.conn = client.conn].off <= Held
      BY <1>b
    <3> QED BY <1>c, <3>1, <3>2
  <2>3. CASE TickerTakes
    <3>1. \/ client' = [client EXCEPT !.ticker = NoTick]
          \/ client' = [client EXCEPT !.ticker = [client.ticker EXCEPT !.off = Held],
                                      !.ackedThrough = Held]
      BY <2>3, Zenon DEF TickerTakes, Held
    <3>2. [client.ticker EXCEPT !.off = Held].off <= Held
      BY <1>b
    <3> QED BY <1>c, <1>d, <3>1, <3>2
  <2>4. CASE TickerWrites
    <3>1. client' = [client EXCEPT !.ticker = NoTick]
      BY <2>4, Zenon DEF TickerWrites
    <3> QED BY <1>c, <1>d, <3>1
  <2> QED BY <2>1, <2>2, <2>3, <2>4
<1>1. UNCHANGED <<total, trim, sealed, starved, gapped>> /\ Client /\ ~Connect
  <2>1. Connect => client.phase = "idle" /\ client'.phase = "hello"
    BY ConnectTouches
  <2> QED BY <1>a, <1>2, <2>1
<1>3. client.ticker.off \in Nat
  BY <1>b
<1>5. Held' = Held
  BY <1>2 DEF Held
<1>6. ShownOK'
  BY <1>1, <1>2, <1>5 DEF DataInv, ShownOK
<1>7. CASE UNCHANGED link
  BY <1>1, <1>5, <1>6, <1>7, Sizes, ClientStays
<1>8. ASSUME NEW c \in Conns, link' = Acked(link, c, client.ticker.off)
      PROVE  DataInv'
  <2> DEFINE l == link[c]  l2 == link'[c]
  <2>1. /\ l2.clientEnd = l.clientEnd /\ l2.daemonEnd = l.daemonEnd /\ l2.reset = l.reset
        /\ l2.down = l.down /\ l2.up \in {l.up, Append(l.up, Ack(client.ticker.off))}
        /\ \A d \in Conns \ {c} : link'[d] = link[d]
    BY <1>3, <1>8, Sizes, AckedType
  <2>2. DataOK(attach[c], l, Held, total) /\ client.ticker.off <= Held /\ UpOK(l.up, Held)
    <3>1. ConnOK(c) /\ client.ticker.off <= Held
      BY DEF DataInv, ShownOK
    <3>2. DataOK(attach[c], l, Held, total)
      BY <3>1 DEF ConnOK
    <3> HIDE DEF l
    <3>3. UpOK(l.up, Held)
      BY <3>2 DEF DataOK
    <3> QED BY <3>1, <3>2, <3>3
  <2>3. UpOK(l2.up, Held)
    <3>1. l.up \in Seq(Frame) /\ Held \in Nat
      BY <1>8, Sizes
    <3>2. UpOK(Append(l.up, Ack(client.ticker.off)), Held)
      BY <1>3, <2>2, <3>1, UpAppends
    <3> QED BY <2>1, <2>2, <3>2
  <2> HIDE DEF l, l2
  <2>4. DataOK(attach[c], l2, Held, total)
    BY <2>1, <2>2, <2>3 DEF DataOK
  <2>5. /\ Finished(attach[c], l, Held, total) => Finished(attach[c], l2, Held, total)
        /\ Unfinished(attach[c], l) => Unfinished(attach[c], l2)
    BY <2>1 DEF Finished, Unfinished
  <2> QED BY <1>1, <1>5, <1>6, <1>8, <2>1, <2>4, <2>5, Sizes, ClientMoves DEF l, l2
<1>9. CASE TickerWrites
  <2>1. link' = Acked(link, client.ticker.conn, client.ticker.off)
    BY <1>9 DEF TickerWrites
  <2>2. CASE client.ticker.conn \notin Conns
    <3>1. UNCHANGED link \/ link' = [link EXCEPT ![client.ticker.conn].up =
                                       Append(@, Ack(client.ticker.off))]
      BY <2>1, Zenon DEF Acked
    <3>2. UNCHANGED link
      BY <2>2, <3>1, Sizes
    <3> QED BY <1>7, <3>2
  <2> QED BY <1>8, <2>1, <2>2
<1> QED BY <1>7, <1>9 DEF ConnectRefused, TickerLoads, TickerTakes

\* Every step of the client, but that of starting it again.
LEMMA ClientData ==
  ASSUME TypeOK, TypeOK', ConnectedOK, LinkOK, DataInv, Client, ~Rerun
  PROVE  DataInv'
BY HelloAckRead, OutputRead, ExitRead, LostData, ConnectData, TickerData
   DEF Client, ClientReads

-----------------------------------------------------------------------------
(* One client process *)

\* Steps that leave all of this alone, and the shell's.
LEMMA SameData ==
  ASSUME DataInv, UNCHANGED <<total, trim, sealed, starved, gapped, attach, link, client>>
  PROVE  DataInv'
BY DEF DataInv, ShownOK, ConnOK, Held

\* The stream grows while it is not sealed: no EXIT is under way, and no
\* streamer that can still send has ended.
LEMMA ShellData ==
  ASSUME TypeOK, TypeOK', DataInv, Shell
  PROVE  DataInv'
<1>1. CASE PumpAppend
  <2>1. /\ UNCHANGED <<trim, sealed, starved, gapped, attach, link, client>> /\ ~sealed
        /\ total' = total + 1 /\ Held' = Held
    BY <1>1 DEF PumpAppend, history, Held
  <2>2. Held \in Nat /\ total \in Nat /\ total' \in Nat /\ total <= total' /\ Held <= Held
    BY <2>1, Sizes
  <2>3. ASSUME NEW d \in Conns PROVE ConnOK(d)'
    <3>1. /\ DataOK(attach[d], link[d], Held, total)
          /\ starved \/ Unfinished(attach[d], link[d])
      BY <2>1 DEF DataInv, ConnOK
    <3>2. /\ DataOK(attach[d], link[d], Held, total')
          /\ starved \/ Finished(attach[d], link[d], Held, total')
      BY <2>2, <3>1, Sizes, ConnGrows
    <3> QED BY <2>1, <3>1, <3>2 DEF ConnOK
  <2>4. ShownOK'
    <3>1. Held <= total' /\ ShownOK
      BY <2>2 DEF DataInv, ShownOK
    <3> QED BY <2>1, <3>1 DEF ShownOK
  <2> QED BY <2>3, <2>4 DEF DataInv
<1>2. CASE PumpEOF
  <2>1. /\ UNCHANGED <<total, trim, starved, gapped, attach, link, client>> /\ sealed'
        /\ Held' = Held
    BY <1>2, Zenon DEF PumpEOF, history, Held
  <2>2. \A d \in Conns : ConnOK(d)'
    BY <2>1 DEF DataInv, ConnOK
  <2>3. ShownOK'
    BY <2>1 DEF DataInv, ShownOK
  <2> QED BY <2>2, <2>3 DEF DataInv
<1>3. CASE WaitCmd
  BY <1>3, SameData DEF WaitCmd, window, history
<1> QED BY <1>1, <1>2, <1>3 DEF Shell

\* A client process that has not been started again: what Stream promises of
\* it.  Started again, the client has shown nothing, and the daemon may have
\* freed what it would need to show.
RunInv == client.reruns = 0 => DataInv

StreamInv == ServeInv /\ RunInv

\* Nothing is shown, sent or freed at first.
LEMMA DataInit == Init => DataInv
<1> SUFFICES ASSUME Init PROVE DataInv
  OBVIOUS
<1>0. Slice(0, 0) = <<>> /\ Len(<<>>) = 0
  BY DEF Slice
<1>1. /\ total = 0 /\ trim = 0 /\ ~gapped /\ client.phase = "idle" /\ client.shown = <<>>
      /\ client.ticker.off = 0
  BY Zenon DEF Init, NoTick
<1>2. Held = 0
  BY <1>0, <1>1 DEF Held
<1>3. ShownOK
  BY <1>0, <1>1, <1>2 DEF ShownOK
<1>4. ASSUME NEW c \in Conns PROVE ConnOK(c)
  <2>1. /\ attach[c].stage = "none" /\ attach[c].peer = <<>>
        /\ link[c].down = <<>> /\ link[c].up = <<>>
    BY DEF Init, NotServed
  <2>2. /\ FramesOK(<<>>, Held, total) /\ NoExit(<<>>) /\ ExitLast(<<>>, Held, total)
        /\ UpOK(<<>>, Held) /\ Len(<<>>) <= Held
    BY <1>0, <1>2 DEF FramesOK, NoExit, ExitLast, UpOK
  <2>3. DataOK(attach[c], link[c], Held, total)
    BY <2>1, <2>2 DEF DataOK, Started
  <2> QED BY <2>1, <2>2, <2>3 DEF ConnOK, Finished, Unfinished
<1> QED BY <1>3, <1>4 DEF DataInv

\* The number of times the client was started again never falls.
LEMMA RerunsStay ==
  ASSUME TypeOK, ConnectedOK, [Next]_vars, client'.reruns = 0
  PROVE  client.reruns = 0 /\ ~Rerun
<1>1. client \in Clients /\ client.reruns \in Nat
  BY Sizes, StreamAssumption DEF Clients, StreamAssumption
<1>2. CASE Rerun
  <2>1. client'.reruns = client.reruns + 1
    BY <1>1, <1>2 DEF Rerun, Clients
  <2> QED BY <1>1, <2>1
<1>3. CASE UNCHANGED client
  <2>1. ~Rerun
    BY <1>2, <1>3, <1>1 DEF Rerun, Clients
  <2> QED BY <1>3, <2>1
<1>4. CASE Client /\ ~Rerun
  <2>1. CASE Connect
    BY <1>4, <2>1, ConnectTouches
  <2>2. CASE ConnectRefused \/ RecvHelloAck \/ RecvExit \/ RecvEOF \/ Cut
    BY <1>1, <1>4, <2>2 DEF ConnectRefused, RecvHelloAck, RecvExit, RecvEOF, Cut, Retried, Clients
  <2>3. CASE RecvOutput
    <3>1. \/ UNCHANGED client
          \/ client' = [client EXCEPT !.shown = client.shown \o Fresh(Head(link[client.conn].down))]
          \/ \E n : client' = [client EXCEPT !.shown = client.shown \o Fresh(Head(link[client.conn].down)),
                                             !.ackedThrough = n]
      BY <2>3, Zenon DEF RecvOutput
    <3> QED BY <1>1, <1>4, <3>1 DEF Clients
  <2>4. CASE TickerLoads \/ TickerTakes \/ TickerWrites
    <3>1. \E k, n : \/ client' = [client EXCEPT !.ticker = k]
                    \/ client' = [client EXCEPT !.ticker = k, !.ackedThrough = n]
      <4>1. CASE TickerLoads
        BY <4>1, Zenon DEF TickerLoads
      <4>2. CASE TickerTakes
        BY <4>2, Zenon DEF TickerTakes
      <4>3. CASE TickerWrites
        BY <4>3, Zenon DEF TickerWrites
      <4> QED BY <2>4, <4>1, <4>2, <4>3
    <3> QED BY <1>1, <1>4, <3>1 DEF Clients
  <2> QED BY <1>4, <2>1, <2>2, <2>3, <2>4 DEF Client, ClientReads
<1>5. UNCHANGED client \/ (Client /\ ~Rerun) \/ Rerun
  <2>1. CASE Shell \/ CloseListener \/ UNCHANGED vars
    BY <2>1 DEF Shell, PumpAppend, PumpEOF, WaitCmd, CloseListener, vars
  <2>2. ASSUME NEW c \in Conns, Serves(c) PROVE UNCHANGED client
    BY <2>2, ServesTouches
  <2> QED BY <2>1, <2>2, NextParts
<1> QED BY <1>2, <1>3, <1>4, <1>5

\* Every step but Rerun keeps what is shown, and what is under way, in order.
LEMMA DataStep ==
  ASSUME ServeInv, ServeInv', DataInv, [Next]_vars, ~Rerun
  PROVE  DataInv'
<1>1. TypeOK /\ TypeOK' /\ ConnectedOK /\ LinkOK /\ StageOK
  BY DEF ServeInv
<1>2. CASE UNCHANGED vars
  BY <1>2, SameData DEF vars
<1>3. CASE CloseListener
  BY <1>3, SameData DEF CloseListener, window, history
<1> QED BY <1>1, <1>2, <1>3, ShellData, ServesData, ClientData, NextParts

\* The inductive invariant of Stream holds at first, is kept by every step, and
\* so always holds.
LEMMA StreamInit == Init => StreamInv
BY ServeInit, DataInit DEF StreamInv, RunInv

\* Its induction step: a client that was started again is out of RunInv's reach
\* for good.
LEMMA StreamStep == StreamInv /\ [Next]_vars => StreamInv'
<1> SUFFICES ASSUME StreamInv, [Next]_vars PROVE StreamInv'
  OBVIOUS
<1>1. ServeInv /\ ServeInv' /\ TypeOK /\ ConnectedOK
  BY ServeStep DEF StreamInv, ServeInv
<1>2. client'.reruns = 0 => DataInv'
  BY <1>1, RerunsStay, DataStep DEF StreamInv, RunInv
<1> QED BY <1>1, <1>2 DEF StreamInv, RunInv

\* Its conclusion.
LEMMA StreamAlways == Spec => []StreamInv
BY StreamInit, StreamStep, PTL DEF Spec

-----------------------------------------------------------------------------
(* What Stream promises *)

\* client.go, handleOutputFrame, and daemon.go, serveAttach: a client process
\* shows the stream's own bytes in order, no frame is ever ahead of it, the
\* daemon frees no byte it has not shown, and EXIT comes after all of them
\* unless a streamer had given up on a trimmed offset.  (A client that the user
\* starts again on the same session has shown nothing of what the daemon may
\* have freed: nothing is said of it.)
THEOREM ShownIsStream ==
  Spec => [](client.reruns = 0 =>
               /\ client.shown = Slice(0, Len(client.shown))
               /\ Len(client.shown) <= total /\ trim <= Len(client.shown)
               /\ NoGap /\ ExitIsLast)
<1>1. StreamInv => (client.reruns = 0 =>
                      /\ client.shown = Slice(0, Len(client.shown))
                      /\ Len(client.shown) <= total /\ trim <= Len(client.shown)
                      /\ NoGap /\ ExitIsLast)
  BY DEF StreamInv, RunInv, DataInv, ShownOK, Held, NoGap, ExitIsLast
<1> QED BY <1>1, StreamAlways, PTL

\* A client that cannot be started again is in its first run.
LEMMA FirstRun ==
  ASSUME MaxReruns = 0, StreamInv
  PROVE  client.reruns = 0 /\ DataInv
<1>1. client.reruns \in 0..0
  BY Sizes DEF StreamInv, ServeInv, Clients
<1>2. client.reruns = 0
  BY <1>1
<1> QED BY <1>2 DEF StreamInv, RunInv

\* NoGap, for one client process.
THEOREM NoGapEver ==
  ASSUME MaxReruns = 0
  PROVE  Spec => []NoGap
<1>1. StreamInv => NoGap
  BY FirstRun DEF DataInv, ShownOK, NoGap
<1> QED BY <1>1, StreamAlways, PTL

\* ExitIsLast, for one client process.
THEOREM ExitComesLast ==
  ASSUME MaxReruns = 0
  PROVE  Spec => []ExitIsLast
<1>1. StreamInv => ExitIsLast
  BY FirstRun DEF DataInv, ShownOK, ExitIsLast, Held
<1> QED BY <1>1, StreamAlways, PTL

\* A step of the daemon's for a connection frees bytes, or is not seen.
LEMMA FreesOnly ==
  ASSUME TypeOK, NEW c \in Conns, Serves(c)
  PROVE  trim' = trim \/ (trim' \in Nat /\ trim' > trim)
<1>1. CASE ReadAck(c)
  <2>1. link[c].up # <<>>
    BY <1>1 DEF ReadAck, Receives
  <2>2. Head(link[c].up).off \in Nat /\ trim \in Nat /\ total \in Nat
    BY <2>1, Sizes, QueueType
  <2>3. trim' = TrimmedTo(Head(link[c].up).off)
    BY <1>1 DEF ReadAck
  <2> QED BY <2>2, <2>3 DEF TrimmedTo, Greater, Lesser
<1>2. CASE ~ReadAck(c)
  <2>1. UNCHANGED trim
    BY <1>2 DEF Serves, Serve, ReadHello, CompareManifests, SendHelloAck, HelloFails, Activate,
                Superseded, Exiting, SendExit, Cleanup, Streamer, StreamOutput, StreamDrained,
                StreamWakes, StreamEnds, Reader, ReaderEnds, Reset, window
  <2> QED BY <2>1
<1> QED BY <1>1, <1>2

\* A step of the client's shows the next part of the stream, or is not seen.
LEMMA ShowsOnly ==
  ASSUME TypeOK, TypeOK', ConnectedOK, DataInv, Client, ~Rerun
  PROVE  \/ client'.shown = client.shown
         \/ \E n \in (Held + 1)..total : client'.shown = client.shown \o Slice(Held, n)
<1>1. client \in Clients
  BY Sizes
<1>2. CASE Connect
  BY <1>2, ConnectTouches
<1>3. CASE ConnectRefused \/ RecvHelloAck \/ RecvExit \/ RecvEOF \/ Cut
  BY <1>1, <1>3 DEF ConnectRefused, RecvHelloAck, RecvExit, RecvEOF, Cut, Retried, Clients
<1>4. CASE RecvOutput
  BY <1>4, OutputRead
<1>5. CASE TickerLoads \/ TickerTakes \/ TickerWrites
  <2>1. \E k, n : \/ client' = [client EXCEPT !.ticker = k]
                  \/ client' = [client EXCEPT !.ticker = k, !.ackedThrough = n]
    <3>1. CASE TickerLoads
      BY <3>1, Zenon DEF TickerLoads
    <3>2. CASE TickerTakes
      BY <3>2, Zenon DEF TickerTakes
    <3>3. CASE TickerWrites
      BY <3>3, Zenon DEF TickerWrites
    <3> QED BY <1>5, <3>1, <3>2, <3>3
  <2> QED BY <1>1, <2>1 DEF Clients
<1> QED BY <1>2, <1>3, <1>4, <1>5 DEF Client, ClientReads

\* Every step is one of Delivery's, or changes nothing Delivery sees.
LEMMA DeliveryStep ==
  ASSUME MaxReruns = 0, StreamInv, StreamInv', [Next]_vars
  PROVE  [Promise!DeliveryNext]_(Promise!dvars)
<1>1. /\ DataInv /\ DataInv' /\ TypeOK /\ TypeOK' /\ ConnectedOK /\ client'.reruns = 0
  <2>1. DataInv /\ DataInv' /\ client'.reruns = 0
    <3>1. client'.reruns \in 0..0
      BY SizesNext DEF StreamInv, ServeInv, Clients
    <3>2. client'.reruns = 0
      BY <3>1
    <3> QED BY <3>2, FirstRun DEF StreamInv, RunInv
  <2> QED BY <2>1 DEF StreamInv, ServeInv
<1>2. ~Rerun
  BY <1>1, RerunsStay
<1>3. CASE Shell
  <2>1. CASE PumpAppend
    BY <2>1, Sizes, <1>1 DEF PumpAppend, Promise!DeliveryNext, Promise!Write
  <2>2. CASE PumpEOF
    BY <2>2, Zenon DEF PumpEOF, Promise!DeliveryNext, Promise!Finish
  <2>3. CASE WaitCmd
    BY <2>3 DEF WaitCmd, window, Promise!dvars
  <2> QED BY <1>3, <2>1, <2>2, <2>3 DEF Shell
<1>4. CASE CloseListener \/ UNCHANGED vars
  BY <1>4 DEF CloseListener, vars, window, Promise!dvars
<1>5. ASSUME NEW c \in Conns, Serves(c)
      PROVE  [Promise!DeliveryNext]_(Promise!dvars)
  <2>1. UNCHANGED <<client, total, sealed>>
    BY <1>1, <1>5, ServesTouches
  <2>2. CASE trim' = trim
    BY <2>1, <2>2 DEF Promise!dvars
  <2>3. CASE trim' \in Nat /\ trim' > trim
    <3>1. trim' <= Len(client.shown) /\ trim \in Nat /\ Len(client.shown) \in Nat
      BY <1>1, <2>1, Sizes DEF DataInv, ShownOK, Held
    <3>2. trim' \in (trim + 1)..Len(client.shown)
      BY <2>3, <3>1
    <3> QED BY <2>1, <3>2 DEF Promise!DeliveryNext, Promise!Free
  <2> QED BY <1>1, <1>5, <2>2, <2>3, FreesOnly
<1>6. CASE Client
  <2>1. UNCHANGED <<total, trim, sealed>>
    BY <1>1, <1>6, ClientTouches
  <2>2. CASE client'.shown = client.shown
    BY <2>1, <2>2 DEF Promise!dvars
  <2>3. CASE \E n \in (Held + 1)..total : client'.shown = client.shown \o Slice(Held, n)
    <3>1. \E n \in (Len(client.shown) + 1)..total :
            client'.shown = client.shown \o Promise!Slice(Len(client.shown), n)
      BY <2>3, Zenon DEF Held, Slice, Promise!Slice
    <3> QED BY <2>1, <3>1, Zenon DEF Promise!DeliveryNext, Promise!Show
  <2> QED BY <1>1, <1>2, <1>6, <2>2, <2>3, ShowsOnly
<1> QED BY <1>3, <1>4, <1>5, <1>6, NextParts

\* Delivery.tla: seen from outside, one client process on a daemon, with any
\* number of connections, cuts and frames in flight, is a terminal that shows
\* the stream in order and each byte once, and a daemon that frees only what
\* was shown.
THEOREM ImplementsPromise ==
  ASSUME MaxReruns = 0
  PROVE  Spec => ImplementsDelivery
<1>1. Init => Promise!DeliveryInit
  <2>1. Init => total = 0 /\ sealed = FALSE /\ trim = 0
    BY Zenon DEF Init
  <2>2. Init => client.shown = <<>>
    BY DEF Init
  <2> QED BY <2>1, <2>2, Zenon DEF Promise!DeliveryInit
<1>2. StreamInv /\ StreamInv' /\ [Next]_vars => [Promise!DeliveryNext]_(Promise!dvars)
  BY DeliveryStep
<1> QED BY <1>1, <1>2, StreamAlways, PTL DEF Spec, ImplementsDelivery, Promise!DeliverySpec

=============================================================================
