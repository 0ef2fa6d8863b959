--------------------------- MODULE RecoveryProofs ---------------------------
(***************************************************************************)
(* For any length of output, any number of replay daemons, cuts and kills: *)
(* the clean marker tells the truth, an exit code that says the client has *)
(* everything does too, and what was not shown is kept.                    *)
(***************************************************************************)
EXTENDS Recovery, WellFoundedInduction, TLAPS

Dirs == [exists : BOOLEAN, sock : Servers \cup {NoOne}, clean : BOOLEAN,
         diskcap : BOOLEAN, last : Nat]

Daemons ==
  [phase : {"serving", "killing", "waiting", "closed", "tidied", "marked", "gone"},
   attach : {"none", "hello", "live", "drain"},
   shell : BOOLEAN, exited : BOOLEAN, exitDelivered : BOOLEAN,
   shutdown : BOOLEAN, signalShutdown : BOOLEAN, preserveOnExit : BOOLEAN,
   diskcap : BOOLEAN, preserve : BOOLEAN, flushed : BOOLEAN]

ReplayDaemons ==
  [phase : {"none", "start", "scan", "bind", "listen", "hello", "stream", "refuse",
            "cleanup", "gone"},
   clean : BOOLEAN, diskcap : BOOLEAN, last : Nat, delivered : BOOLEAN]

Codes == {NoCode, ShellCode, 1, 129, 130, 133, 134}

Connections == [open : BOOLEAN, cut : BOOLEAN, acked : BOOLEAN, sent : Nat, code : Codes]

Clients == [phase : {"idle", "spawned", "hello", "live", "exited", "failed", "aborted"},
            server : Servers \cup {NoOne}, shown : Nat, code : Codes \cup {136}]

\* The client has a connection.
Connected == client.phase \in {"hello", "live"}

\* The records, without the bounds on what they count.
Records ==
  /\ dir \in Dirs /\ daemon \in Daemons /\ client \in Clients
  /\ replay \in [Replays -> ReplayDaemons] /\ conn \in [Servers -> Connections]
  /\ Connected => client.server \in Servers
  /\ spoiled \in BOOLEAN

\* What is shown was written, what is freed was shown, and nobody knows of more
\* bytes than there are.
SizeOK ==
  /\ total \in 0..MaxTotal /\ trim \in Nat
  /\ trim <= client.shown /\ client.shown <= total
  /\ dir.last <= total
  /\ \A r \in Replays : replay[r].last <= total
  /\ \A s \in Servers : conn[s].sent <= total

BaseInv == Records /\ SizeOK /\ cuts \in 0..MaxCuts /\ kills \in 0..MaxKills

-----------------------------------------------------------------------------
(* Types *)

\* Daemon and replay daemons are told apart by their numbers.
LEMMA Names ==
  /\ Daemon \in Servers /\ Daemon \notin Replays /\ Replays \subseteq Servers
  /\ Servers = Replays \cup {Daemon} /\ NoOne \notin Servers
  /\ MaxTotal \in Nat /\ RamTail \in Nat /\ MaxCuts \in Nat /\ MaxKills \in Nat
  /\ \A r, q \in Replays : r \in Int
BY RecoveryAssumption DEF RecoveryAssumption, Daemon, Replays, Servers, NoOne

\* The invariant has the types and bounds of TypeOK.
LEMMA BaseIsTyped ==
  ASSUME BaseInv
  PROVE  TypeOK
<1>1. /\ total \in 0..MaxTotal /\ trim \in 0..MaxTotal /\ client.shown \in 0..MaxTotal
      /\ dir.last \in 0..MaxTotal
      /\ \A r \in Replays : replay[r].last \in 0..MaxTotal
      /\ \A s \in Servers : conn[s].sent \in 0..MaxTotal
  BY Names DEF BaseInv, Records, SizeOK, Clients, Dirs, ReplayDaemons, Connections
<1>2. /\ client \in [phase : {"idle", "spawned", "hello", "live", "exited", "failed",
                         "aborted"},
                server : Servers \cup {NoOne}, shown : 0..MaxTotal,
                code : {NoCode, ShellCode, 1, 129, 130, 133, 134, 136}]
      /\ dir \in [exists : BOOLEAN, sock : Servers \cup {NoOne}, clean : BOOLEAN,
              diskcap : BOOLEAN, last : 0..MaxTotal]
  BY <1>1 DEF BaseInv, Records, Clients, Dirs, Codes
<1>3. replay \in [Replays -> [phase : {"none", "start", "scan", "bind", "listen",
                                    "hello", "stream", "refuse", "cleanup",
                                    "gone"},
                            clean : BOOLEAN, diskcap : BOOLEAN,
                            last : 0..MaxTotal, delivered : BOOLEAN]]
  BY <1>1 DEF BaseInv, Records, ReplayDaemons
<1>4. conn \in [Servers -> [open : BOOLEAN, cut : BOOLEAN, acked : BOOLEAN,
                          sent : 0..MaxTotal,
                          code : {NoCode, ShellCode, 1, 129, 130, 133, 134}]]
  BY <1>1 DEF BaseInv, Records, Connections, Codes
<1> QED
  BY <1>1, <1>2, <1>3, <1>4 DEF TypeOK, BaseInv, Records, SizeOK, Daemons

\* The types of what is counted, and of the records one at a time.
LEMMA Sizes ==
  ASSUME BaseInv
  PROVE  /\ total \in Nat /\ trim \in Nat /\ client.shown \in Nat /\ dir.last \in Nat
         /\ trim <= client.shown /\ client.shown <= total /\ dir.last <= total
         /\ \A r \in Replays : /\ replay[r] \in ReplayDaemons
                               /\ replay[r].last \in Nat /\ replay[r].last <= total
         /\ \A s \in Servers : /\ conn[s] \in Connections
                               /\ conn[s].sent \in Nat /\ conn[s].sent <= total
         /\ dir \in Dirs /\ daemon \in Daemons /\ client \in Clients
         /\ replay \in [Replays -> ReplayDaemons] /\ conn \in [Servers -> Connections]
         /\ Connected => client.server \in Servers
BY Names DEF BaseInv, Records, SizeOK, Clients, Dirs, ReplayDaemons, Connections

\* Closing the connection of s leaves everything else as it is.
LEMMA ClosedFacts ==
  ASSUME conn \in [Servers -> Connections], NEW s \in Servers
  PROVE  /\ Closed(s) \in [Servers -> Connections]
         /\ ~Closed(s)[s].open
         /\ \A t \in Servers : /\ Closed(s)[t].cut = conn[t].cut
                               /\ Closed(s)[t].acked = conn[t].acked
                               /\ Closed(s)[t].sent = conn[t].sent
                               /\ Closed(s)[t].code = conn[t].code
                               /\ t # s => Closed(s)[t] = conn[t]
<1> DEFINE v == [conn[s] EXCEPT !.open = FALSE]
<1>1. Closed(s) = [conn EXCEPT ![s] = v]
  BY Zenon DEF Closed
<1>2. /\ v \in Connections /\ ~v.open /\ v.cut = conn[s].cut /\ v.acked = conn[s].acked
      /\ v.sent = conn[s].sent /\ v.code = conn[s].code
  BY DEF Connections
<1> HIDE DEF v
<1> QED BY <1>1, <1>2

\* Closed, with an EXIT on its way.
Told(s, k) == [Closed(s) EXCEPT ![s].code = k]

\* That leaves everything else as it is, too.
LEMMA ToldFacts ==
  ASSUME conn \in [Servers -> Connections], NEW s \in Servers, NEW k \in Codes
  PROVE  /\ Told(s, k) \in [Servers -> Connections]
         /\ ~Told(s, k)[s].open /\ Told(s, k)[s].code = k
         /\ \A t \in Servers : /\ Told(s, k)[t].cut = conn[t].cut
                               /\ Told(s, k)[t].acked = conn[t].acked
                               /\ Told(s, k)[t].sent = conn[t].sent
                               /\ t # s => Told(s, k)[t] = conn[t]
<1> DEFINE u == Closed(s)[s]  v == [u EXCEPT !.code = k]
<1>1. Told(s, k) = [Closed(s) EXCEPT ![s] = v]
  BY Zenon DEF Told
<1>2. u \in Connections
  BY ClosedFacts
<1> HIDE DEF u
<1>3. /\ v \in Connections /\ v.open = u.open /\ v.cut = u.cut /\ v.acked = u.acked
      /\ v.sent = u.sent /\ v.code = k
  BY <1>2 DEF Connections
<1> HIDE DEF v
<1>4. Told(s, k) \in [Servers -> Connections] /\ Told(s, k)[s] = v
  BY <1>1, <1>3, ClosedFacts
<1>5. \A t \in Servers \ {s} : Told(s, k)[t] = conn[t]
  BY <1>1, ClosedFacts
<1> QED BY <1>3, <1>4, <1>5, ClosedFacts DEF u

\* A replay daemon that goes on to another phase keeps what it knows.
LEMMA MovedFacts ==
  ASSUME replay \in [Replays -> ReplayDaemons], NEW r \in Replays,
         NEW p \in {"start", "listen", "hello", "stream", "refuse", "cleanup", "gone"}
  PROVE  /\ Moved(r, p) \in [Replays -> ReplayDaemons]
         /\ Moved(r, p)[r].phase = p
         /\ \A q \in Replays : /\ Moved(r, p)[q].clean = replay[q].clean
                               /\ Moved(r, p)[q].diskcap = replay[q].diskcap
                               /\ Moved(r, p)[q].last = replay[q].last
                               /\ Moved(r, p)[q].delivered = replay[q].delivered
                               /\ q # r => Moved(r, p)[q] = replay[q]
<1>1. Moved(r, p) = [replay EXCEPT ![r] = [replay[r] EXCEPT !.phase = p]]
  BY Zenon DEF Moved
<1> QED BY <1>1 DEF ReplayDaemons

\* The steps of the running daemon and of the attach it serves.
LEMMA BaseDaemon ==
  ASSUME BaseInv,
         Output \/ ReadAck \/ ShellExits \/ Signal \/ DiskCap \/ Attach
  PROVE  BaseInv'
<1> USE Names
<1>a. /\ Records /\ SizeOK /\ cuts \in 0..MaxCuts /\ kills \in 0..MaxKills
      /\ conn \in [Servers -> Connections]
  BY DEF BaseInv, Records
<1>1. CASE Output
  <2>1. dir'.last <= total' /\ dir' \in Dirs
    BY <1>a, <1>1 DEF Output, Records, SizeOK, Dirs, MemOffset, Greater
  <2>2. /\ total' = total + 1 /\ total < MaxTotal
        /\ UNCHANGED <<trim, daemon, replay, conn, client, history>>
    BY <1>1 DEF Output
  <2>3. SizeOK'
    BY <1>a, <2>1, <2>2, Sizes DEF SizeOK
  <2>4. Records'
    BY <1>a, <2>1, <2>2 DEF Records, Connected, history
  <2> QED BY <1>a, <2>2, <2>3, <2>4 DEF BaseInv, history
<1>2. CASE ReadAck
  BY <1>a, <1>2 DEF ReadAck, BaseInv, Records, SizeOK, history, Connected, Clients
<1>3. CASE ShellExits \/ Signal \/ DiskCap \/ AttachDrains
  <2>1. daemon' \in Daemons
    <3>1. CASE ShellExits
      BY <1>a, <3>1 DEF ShellExits, Records, Daemons
    <3>2. CASE Signal
      BY <1>a, <3>2 DEF Signal, Records, Daemons
    <3>3. CASE DiskCap
      BY <1>a, <3>3 DEF DiskCap, Records, Daemons
    <3>4. CASE AttachDrains
      BY <1>a, <3>4 DEF AttachDrains, Records, Daemons
    <3> QED BY <1>3, <3>1, <3>2, <3>3, <3>4
  <2>2. UNCHANGED <<total, trim, dir, replay, conn, client, history>>
    BY <1>3 DEF ShellExits, Signal, DiskCap, AttachDrains
  <2> QED BY <1>a, <2>1, <2>2 DEF BaseInv, Records, SizeOK, Connected, history
<1>4. CASE AttachHello \/ AttachDropped \/ AttachStreams
  <2>1. UNCHANGED <<total, trim, dir, replay, client, history>>
    BY <1>4 DEF AttachHello, AttachDropped, AttachStreams
  <2>2. daemon' \in Daemons
    BY <1>a, <1>4 DEF AttachHello, AttachDropped, AttachStreams, Records, Daemons
  <2>3. /\ conn' \in [Servers -> Connections]
        /\ \A s \in Servers : conn'[s].sent <= total
    <3>1. CASE conn' = Closed(Daemon)
      BY <1>a, <3>1, ClosedFacts DEF SizeOK
    <3>2. CASE conn' = [conn EXCEPT ![Daemon].acked = TRUE]
      BY <1>a, <3>2 DEF SizeOK, Connections
    <3>3. CASE AttachStreams
      BY <1>a, <3>3 DEF AttachStreams, SizeOK, Connections
    <3> QED BY <1>4, <3>1, <3>2, <3>3 DEF AttachHello, AttachDropped
  <2> QED BY <1>a, <2>1, <2>2, <2>3 DEF BaseInv, Records, SizeOK, Connected, history
<1>5. CASE AttachExits
  <2>1. UNCHANGED <<total, trim, dir, replay, client, cuts, kills>>
    BY <1>5 DEF AttachExits
  <2>2. daemon' \in Daemons /\ spoiled' \in BOOLEAN
    BY <1>a, <1>5 DEF AttachExits, Records, Daemons, Connections
  <2>3. /\ conn' \in [Servers -> Connections]
        /\ \A s \in Servers : conn'[s].sent <= total
    <3>1. CASE conn' = Closed(Daemon)
      BY <1>a, <3>1, ClosedFacts DEF SizeOK
    <3>2. CASE \E k \in Codes : conn' = Told(Daemon, k)
      BY <1>a, <3>2, ToldFacts DEF SizeOK
    <3> QED BY <1>5, <3>1, <3>2, Zenon DEF AttachExits, Told, Codes, ShellCode
  <2> QED BY <1>a, <2>1, <2>2, <2>3 DEF BaseInv, Records, SizeOK, Connected
<1> QED
  BY <1>1, <1>2, <1>3, <1>4, <1>5 DEF Attach

\* A replay daemon that looks at the markers.
LEMMA StartsFacts ==
  ASSUME replay \in [Replays -> ReplayDaemons], dir \in Dirs, NEW r \in Replays,
         ReplayStarts(r), dir.exists
  PROVE  /\ replay' \in [Replays -> ReplayDaemons]
         /\ replay'[r].phase = "scan" /\ replay'[r].clean = dir.clean
         /\ replay'[r].last = replay[r].last
         /\ replay'[r].delivered = replay[r].delivered
         /\ \A q \in Replays \ {r} : replay'[q] = replay[q]
<1> DEFINE u == replay[r]
           v == [u EXCEPT !.phase = "scan", !.clean = dir.clean, !.diskcap = dir.diskcap]
<1>1. replay' = [replay EXCEPT ![r] = v]
  BY Zenon DEF ReplayStarts
<1>2. u \in ReplayDaemons /\ dir.clean \in BOOLEAN /\ dir.diskcap \in BOOLEAN
  BY DEF Dirs
<1> HIDE DEF u
<1>3. /\ v \in ReplayDaemons /\ v.phase = "scan" /\ v.clean = dir.clean
      /\ v.last = u.last /\ v.delivered = u.delivered
  BY <1>2 DEF ReplayDaemons
<1> HIDE DEF v
<1> QED BY <1>1, <1>3 DEF u

\* A replay daemon that scans the directory.
LEMMA ScansFacts ==
  ASSUME replay \in [Replays -> ReplayDaemons], dir \in Dirs, NEW r \in Replays,
         ReplayScans(r)
  PROVE  /\ replay' \in [Replays -> ReplayDaemons]
         /\ replay'[r].phase = "bind" /\ replay'[r].last = dir.last
         /\ replay'[r].clean = replay[r].clean
         /\ replay'[r].delivered = replay[r].delivered
         /\ \A q \in Replays \ {r} : replay'[q] = replay[q]
<1> DEFINE u == replay[r]
           v == [u EXCEPT !.phase = "bind", !.last = dir.last]
<1>1. replay' = [replay EXCEPT ![r] = v]
  BY Zenon DEF ReplayScans, ScanSees
<1>2. u \in ReplayDaemons /\ dir.last \in Nat
  BY DEF Dirs
<1> HIDE DEF u
<1>3. /\ v \in ReplayDaemons /\ v.phase = "bind" /\ v.last = dir.last
      /\ v.clean = u.clean /\ v.delivered = u.delivered
  BY <1>2 DEF ReplayDaemons
<1> HIDE DEF v
<1> QED BY <1>1, <1>3 DEF u

\* A replay daemon that has written EXIT.
Delivered(r, b) == [replay EXCEPT ![r].phase = "cleanup", ![r].delivered = b]

\* It keeps what else it knows.
LEMMA DeliveredFacts ==
  ASSUME replay \in [Replays -> ReplayDaemons], NEW r \in Replays, NEW b \in BOOLEAN
  PROVE  /\ Delivered(r, b) \in [Replays -> ReplayDaemons]
         /\ Delivered(r, b)[r].phase = "cleanup"
         /\ Delivered(r, b)[r].clean = replay[r].clean
         /\ Delivered(r, b)[r].last = replay[r].last
         /\ Delivered(r, b)[r].delivered = b
         /\ \A q \in Replays \ {r} : Delivered(r, b)[q] = replay[q]
<1> DEFINE u == replay[r]  v == [u EXCEPT !.phase = "cleanup", !.delivered = b]
<1>1. Delivered(r, b) = [replay EXCEPT ![r] = v]
  BY Zenon DEF Delivered
<1>2. u \in ReplayDaemons
  OBVIOUS
<1> HIDE DEF u
<1>3. /\ v \in ReplayDaemons /\ v.phase = "cleanup" /\ v.last = u.last
      /\ v.clean = u.clean /\ v.delivered = b
  BY <1>2 DEF ReplayDaemons
<1> HIDE DEF v
<1> QED BY <1>1, <1>3 DEF u

\* A replay daemon that writes EXIT, or fails to.
LEMMA ExitsFacts ==
  ASSUME replay \in [Replays -> ReplayDaemons], NEW r \in Replays, ReplayExits(r)
  PROVE  /\ replay' \in [Replays -> ReplayDaemons]
         /\ replay'[r].phase = "cleanup" /\ replay'[r].clean = replay[r].clean
         /\ replay'[r].last = replay[r].last
         /\ \A q \in Replays \ {r} : replay'[q] = replay[q]
         /\ conn[r].open
         /\ \E code \in {1, 130, 133, 134} :
              /\ MaySend(r, code)
              /\ \/ /\ conn' = Told(r, code) /\ spoiled' = (spoiled \/ conn[r].cut)
                    /\ replay'[r].delivered <=> code \in {133, 134}
                 \/ /\ conn' = Closed(r) /\ UNCHANGED spoiled
                    /\ replay'[r].delivered = replay[r].delivered
<1>0. conn[r].open
  BY Zenon DEF ReplayExits, Writes, Fails
<1>1. PICK code \in {1, 130, 133, 134} :
        /\ MaySend(r, code)
        /\ \/ /\ conn' = Told(r, code) /\ spoiled' = (spoiled \/ conn[r].cut)
              /\ replay' = Delivered(r, code \in {133, 134})
           \/ conn' = Closed(r) /\ UNCHANGED spoiled /\ replay' = Moved(r, "cleanup")
  BY Zenon DEF ReplayExits, Told, Delivered
<1>2. CASE replay' = Moved(r, "cleanup") /\ conn' = Closed(r) /\ UNCHANGED spoiled
  BY <1>0, <1>1, <1>2, MovedFacts
<1>3. CASE /\ replay' = Delivered(r, code \in {133, 134})
           /\ conn' = Told(r, code) /\ spoiled' = (spoiled \/ conn[r].cut)
  <2>1. PICK b \in BOOLEAN : b <=> code \in {133, 134}
    OBVIOUS
  <2>2. replay' = Delivered(r, b)
    <3>1. b = (code \in {133, 134})
      BY <2>1
    <3> QED BY <1>3, <3>1, Zenon
  <2>3. /\ replay' \in [Replays -> ReplayDaemons]
        /\ replay'[r].phase = "cleanup" /\ replay'[r].clean = replay[r].clean
        /\ replay'[r].last = replay[r].last /\ replay'[r].delivered = b
        /\ \A q \in Replays \ {r} : replay'[q] = replay[q]
    BY <2>2, DeliveredFacts
  <2>4. replay'[r].delivered <=> code \in {133, 134}
    BY <2>1, <2>3
  <2>5. MaySend(r, code) /\ conn' = Told(r, code) /\ spoiled' = (spoiled \/ conn[r].cut)
    BY <1>1, <1>3
  <2> QED BY <1>0, <2>3, <2>4, <2>5
<1> QED BY <1>0, <1>1, <1>2, <1>3

\* The directory, with another socket or gone.
LEMMA DirFacts ==
  ASSUME dir \in Dirs, NEW s \in Servers \cup {NoOne}, NEW d,
         d \in {dir, [dir EXCEPT !.sock = s], NoDir}
  PROVE  d \in Dirs /\ d.last \in {dir.last, 0}
<1>1. NoDir \in Dirs /\ NoDir.last = 0
  BY DEF NoDir, Dirs
<1>2. [dir EXCEPT !.sock = s] \in Dirs /\ [dir EXCEPT !.sock = s].last = dir.last
  BY DEF Dirs
<1> QED BY <1>1, <1>2

\* The steps of the daemon's Run.
LEMMA BaseRun ==
  ASSUME BaseInv, Run
  PROVE  BaseInv'
<1>a. /\ total \in Nat /\ trim \in Nat /\ dir.last \in Nat /\ dir.last <= total
      /\ dir \in Dirs /\ daemon \in Daemons
      /\ replay \in [Replays -> ReplayDaemons] /\ conn \in [Servers -> Connections]
  BY Sizes, Names
<1>b. \A q \in Replays : replay[q].last <= total
  BY Sizes
<1>c. \A t \in Servers : conn[t].sent \in Nat /\ conn[t].sent <= total
  BY Sizes
<1>1. UNCHANGED <<total, trim, replay, conn, client, history>>
  BY Zenon DEF Run, AcceptStops, Killed, CloseBuffer, Tidy, MarkClean, MarkDiskcap, RemoveDir
<1>2. daemon' \in Daemons
  <2>1. CASE AcceptStops \/ Killed \/ Tidy \/ MarkDiskcap \/ RemoveDir
    BY <1>a, <1>b, <1>c, <2>1 DEF AcceptStops, Killed, Tidy, MarkDiskcap, RemoveDir, Daemons
  <2>2. CASE CloseBuffer
    <3>1. PICK keep \in BOOLEAN, ok \in BOOLEAN :
            daemon' = [daemon EXCEPT !.phase = "closed", !.preserve = keep, !.flushed = ok]
      BY <1>a, <1>b, <1>c, <2>2, Zenon DEF CloseBuffer, Preserves, Daemons
    <3> QED BY <1>a, <1>b, <1>c, <3>1 DEF Daemons
  <2>3. CASE MarkClean
    <3>1. PICK p \in {"marked", "gone"} : daemon' = [daemon EXCEPT !.phase = p]
      BY <2>3, Zenon DEF MarkClean
    <3> QED BY <1>a, <1>b, <1>c, <3>1 DEF Daemons
  <2> QED BY <2>1, <2>2, <2>3, Zenon DEF Run
<1>3. dir' \in Dirs /\ dir'.last <= total
  <2>1. CASE AcceptStops \/ Killed \/ Tidy \/ RemoveDir
    <3>1. dir' \in {dir, [dir EXCEPT !.sock = NoOne], NoDir}
      BY <2>1 DEF AcceptStops, Killed, Tidy, RemoveDir
    <3> QED BY <1>a, <3>1, DirFacts
  <2>2. CASE CloseBuffer
    <3>1. PICK last : /\ dir' = [dir EXCEPT !.last = IF dir.exists THEN last ELSE 0]
                      /\ last \in {total, dir.last, 0} \cup dir.last..(total - 1)
      BY <2>2, Zenon DEF CloseBuffer
    <3>2. last \in Nat /\ last <= total
      BY <1>a, <1>b, <1>c, <3>1
    <3> QED BY <1>a, <1>b, <1>c, <3>1, <3>2 DEF Dirs
  <2>3. CASE MarkClean
    <3>1. PICK b \in BOOLEAN : dir' = [dir EXCEPT !.clean = b]
      BY <2>3, Zenon DEF MarkClean, MarksClean
    <3> QED BY <1>a, <1>b, <1>c, <3>1 DEF Dirs
  <2>4. CASE MarkDiskcap
    BY <1>a, <1>b, <1>c, <2>4 DEF MarkDiskcap, Dirs
  <2> QED BY <2>1, <2>2, <2>3, <2>4, Zenon DEF Run
<1> QED BY <1>a, <1>b, <1>c, <1>1, <1>2, <1>3 DEF BaseInv, Records, SizeOK, Connected, history

\* A process is killed.
LEMMA BaseKill ==
  ASSUME BaseInv, NEW s \in Servers, Kill(s)
  PROVE  BaseInv'
<1>a. /\ total \in Nat /\ trim \in Nat /\ dir.last \in Nat /\ dir.last <= total
      /\ dir \in Dirs /\ daemon \in Daemons
      /\ replay \in [Replays -> ReplayDaemons] /\ conn \in [Servers -> Connections]
  BY Sizes, Names
<1>b. \A q \in Replays : replay[q].last <= total
  BY Sizes
<1>c. \A t \in Servers : conn[t].sent \in Nat /\ conn[t].sent <= total
  BY Sizes
<1>1. UNCHANGED <<total, trim, dir, client, cuts, spoiled>> /\ conn' = Closed(s)
      /\ kills' = kills + 1 /\ kills < MaxKills
  BY DEF Kill
<1>2. /\ conn' \in [Servers -> Connections]
      /\ \A t \in Servers : conn'[t].sent <= total
  BY <1>a, <1>b, <1>c, <1>1, ClosedFacts
<1>3. daemon' \in Daemons
  BY <1>a, <1>b, <1>c DEF Kill, Daemons
<1>4. /\ replay' \in [Replays -> ReplayDaemons]
      /\ \A r \in Replays : replay'[r].last <= total
  <2>1. CASE UNCHANGED replay
    BY <1>a, <1>b, <1>c, <2>1
  <2>2. CASE s \in Replays /\ replay' = Moved(s, "gone")
    <3>1. /\ replay' \in [Replays -> ReplayDaemons]
          /\ \A q \in Replays : replay'[q].last = replay[q].last
      BY <1>a, <2>2, MovedFacts, Zenon
    <3> QED BY <1>b, <3>1
  <2> QED BY <2>1, <2>2, Zenon DEF Kill, Moved
<1> QED BY <1>a, <1>1, <1>2, <1>3, <1>4, Names DEF BaseInv, Records, SizeOK, Connected

\* The directory is removed and the replay daemon ends.
LEMMA BaseGivesUp ==
  ASSUME BaseInv, NEW r \in Replays, GivesUp(r)
  PROVE  BaseInv'
<1>r. r \in Servers
  BY Names
<1>a. /\ total \in Nat /\ trim \in Nat /\ dir.last \in Nat /\ dir.last <= total
      /\ dir \in Dirs /\ daemon \in Daemons
      /\ replay \in [Replays -> ReplayDaemons] /\ conn \in [Servers -> Connections]
  BY Sizes, Names
<1>b. \A q \in Replays : replay[q].last <= total
  BY Sizes
<1>c. \A t \in Servers : conn[t].sent \in Nat /\ conn[t].sent <= total
  BY Sizes
<1>1. /\ conn' = Closed(r) /\ replay' = Moved(r, "gone") /\ dir' = NoDir
      /\ UNCHANGED <<total, trim, daemon, client, cuts, kills>> /\ spoiled' = TRUE
  BY DEF GivesUp
<1>2. /\ conn' \in [Servers -> Connections]
      /\ \A t \in Servers : conn'[t].sent <= total
  BY <1>a, <1>b, <1>c, <1>r, <1>1, ClosedFacts
<1>3. /\ replay' \in [Replays -> ReplayDaemons]
      /\ \A q \in Replays : replay'[q].last <= total
  BY <1>a, <1>b, <1>c, <1>1, MovedFacts
<1>4. dir' \in Dirs /\ dir'.last <= total
  BY <1>a, <1>b, <1>c, <1>1 DEF NoDir, Dirs
<1> QED BY <1>a, <1>1, <1>2, <1>3, <1>4, Names DEF BaseInv, Records, SizeOK, Connected

\* The steps of a replay daemon.
LEMMA BaseReplay ==
  ASSUME BaseInv, NEW r \in Replays, ReplayRun(r)
  PROVE  BaseInv'
<1>r. r \in Servers
  BY Names
<1>a. /\ total \in Nat /\ trim \in Nat /\ dir.last \in Nat /\ dir.last <= total
      /\ dir \in Dirs /\ daemon \in Daemons
      /\ replay \in [Replays -> ReplayDaemons] /\ conn \in [Servers -> Connections]
  BY Sizes, Names
<1>b. \A q \in Replays : replay[q].last <= total
  BY Sizes
<1>c. \A t \in Servers : conn[t].sent \in Nat /\ conn[t].sent <= total
  BY Sizes
<1>1. CASE ReplayHandshakeFails(r)
  BY <1>1, BaseGivesUp DEF ReplayHandshakeFails
<1>2. ASSUME ~ReplayHandshakeFails(r) PROVE BaseInv'
  <2>1. UNCHANGED <<total, trim, daemon, client, cuts, kills>>
    BY <1>2, Zenon DEF ReplayRun, ReplayStarts, ReplayScans, ReplayListens, ReplayHello,
      ReplayStreams, ReplayExits, ReplayCleansUp, history
  <2>2. dir' \in Dirs /\ dir'.last <= total
    <3>1. dir' \in {dir, [dir EXCEPT !.sock = r], NoDir}
      BY <1>2, Zenon DEF ReplayRun, ReplayStarts, ReplayScans, ReplayListens, ReplayHello,
        ReplayStreams, ReplayExits, ReplayCleansUp
    <3> QED BY <1>a, <1>r, <3>1, DirFacts
  <2>3. /\ replay' \in [Replays -> ReplayDaemons]
        /\ \A q \in Replays : replay'[q].last <= total
    <3>1. CASE UNCHANGED replay
      BY <1>a, <1>b, <3>1
    <3>2. ASSUME NEW p \in {"listen", "stream", "refuse", "cleanup", "gone"},
                 replay' = Moved(r, p)
          PROVE  /\ replay' \in [Replays -> ReplayDaemons]
                 /\ \A q \in Replays : replay'[q].last <= total
      <4>1. p \in {"start", "listen", "hello", "stream", "refuse", "cleanup", "gone"}
        BY <3>2
      <4>2. Moved(r, p) \in [Replays -> ReplayDaemons]
        BY <1>a, <4>1, MovedFacts
      <4>3. \A q \in Replays : Moved(r, p)[q].last = replay[q].last
        BY <1>a, <4>1, MovedFacts
      <4> QED BY <1>b, <3>2, <4>2, <4>3
    <3>3. CASE ReplayStarts(r) /\ dir.exists
      BY <1>a, <1>b, <3>3, StartsFacts
    <3>4. CASE ReplayScans(r)
      BY <1>a, <1>b, <3>4, ScansFacts
    <3>5. CASE ReplayExits(r)
      BY <1>a, <1>b, <3>5, ExitsFacts
    <3>6. CASE ReplayStarts(r) /\ ~dir.exists
      BY <3>2, <3>6 DEF ReplayStarts
    <3>7. CASE ReplayListens(r)
      BY <3>2, <3>7 DEF ReplayListens
    <3>8. CASE ReplayHello(r) \/ ReplayCleansUp(r)
      BY <3>2, <3>8 DEF ReplayHello, ReplayCleansUp
    <3> QED
      BY <1>2, <3>1, <3>3, <3>4, <3>5, <3>6, <3>7, <3>8 DEF ReplayRun, ReplayStreams
  <2>4. /\ conn' \in [Servers -> Connections]
        /\ \A t \in Servers : conn'[t].sent <= total
    <3>1. CASE UNCHANGED conn
      BY <1>a, <1>b, <1>c, <1>r, <3>1
    <3>2. CASE conn' = Closed(r)
      BY <1>a, <1>b, <1>c, <1>r, <3>2, ClosedFacts
    <3>3. CASE \E k \in Codes : conn' = Told(r, k)
      BY <1>a, <1>b, <1>c, <1>r, <3>3, ToldFacts
    <3>4. CASE conn' = [conn EXCEPT ![r].acked = TRUE]
      BY <1>a, <1>b, <1>c, <1>r, <3>4 DEF Connections
    <3>5. CASE ReplayStreams(r)
      <4>1. conn' = [conn EXCEPT ![r].sent = conn[r].sent + 1] /\ conn[r].sent < replay[r].last
        BY <3>5 DEF ReplayStreams
      <4>2. conn[r] \in Connections /\ replay[r].last \in Nat /\ replay[r].last <= total
        BY <1>r, Sizes
      <4>3. conn[r].sent + 1 \in Nat /\ conn[r].sent + 1 <= total
        BY <1>a, <1>c, <1>r, <4>1, <4>2
      <4>4. conn' = [conn EXCEPT ![r] = [conn[r] EXCEPT !.sent = conn[r].sent + 1]]
        BY <4>1, Zenon
      <4>5. /\ [conn[r] EXCEPT !.sent = conn[r].sent + 1] \in Connections
            /\ [conn[r] EXCEPT !.sent = conn[r].sent + 1].sent = conn[r].sent + 1
        BY <4>2, <4>3 DEF Connections
      <4> QED BY <1>a, <1>c, <1>r, <4>3, <4>4, <4>5
    <3> QED
      BY <1>2, <3>1, <3>2, <3>3, <3>4, <3>5, Zenon DEF ReplayRun, ReplayStarts, ReplayScans,
        ReplayListens, ReplayHello, ReplayStreams, ReplayExits, ReplayCleansUp, Told, Codes
  <2>5. spoiled' \in BOOLEAN
    BY <1>2, Zenon DEF ReplayRun, ReplayStarts, ReplayScans, ReplayListens, ReplayHello,
      ReplayStreams, ReplayExits, ReplayCleansUp, history, BaseInv, Records
  <2> QED BY <1>a, <1>b, <1>c, <2>1, <2>2, <2>3, <2>4, <2>5 DEF BaseInv, Records, SizeOK, Connected
<1> QED BY <1>1, <1>2

\* What the client's records may become, one step at a time.
LEMMA ClientFacts ==
  ASSUME client \in Clients
  PROVE  /\ \A p \in {"idle", "spawned", "failed", "live"} :
              LET c == [client EXCEPT !.phase = p]
              IN c \in Clients /\ c.phase = p /\ c.shown = client.shown
                 /\ c.server = client.server /\ c.code = client.code
         /\ \A p \in {"idle", "aborted", "failed"} :
              LET c == [client EXCEPT !.phase = p, !.server = NoOne]
              IN c \in Clients /\ c.phase = p /\ c.shown = client.shown /\ c.code = client.code
         /\ \A s \in Servers :
              LET c == [client EXCEPT !.phase = "hello", !.server = s]
              IN c \in Clients /\ c.phase = "hello" /\ c.shown = client.shown
                 /\ c.server = s /\ c.code = client.code
         /\ \A k \in Codes \cup {136} :
              LET c == [client EXCEPT !.phase = "exited", !.code = k]
              IN c \in Clients /\ c.phase = "exited" /\ c.shown = client.shown
                 /\ c.server = client.server /\ c.code = k
         /\ \A n \in Nat :
              LET c == [client EXCEPT !.shown = n]
              IN c \in Clients /\ c.phase = client.phase /\ c.shown = n
                 /\ c.server = client.server /\ c.code = client.code
BY DEF Clients

\* A client that lost its connection.
LEMMA RetriedFacts ==
  ASSUME client \in Clients
  PROVE  /\ Retried \in Clients /\ Retried.phase \in {"idle", "failed"}
         /\ Retried.phase = "idle" => client.phase = "live"
         /\ Retried.shown = client.shown /\ Retried.code = client.code
<1>1. PICK p \in {"idle", "failed"} :
        /\ Retried = [client EXCEPT !.phase = p, !.server = NoOne]
        /\ p = "idle" => client.phase = "live"
  BY Zenon DEF Retried
<1> QED BY <1>1 DEF Clients

\* A client that got through.
LEMMA DialFacts ==
  ASSUME BaseInv, NEW s \in Servers, Dial(s)
  PROVE  /\ UNCHANGED <<total, trim, cuts, kills, spoiled>>
         /\ client' \in Clients /\ client'.phase = "hello" /\ client'.server = s
         /\ client'.shown = client.shown /\ client'.code = client.code
         /\ client.phase \in {"idle", "spawned"} /\ Listens(s)
         /\ conn' \in [Servers -> Connections]
         /\ conn'[s].open /\ ~conn'[s].cut /\ ~conn'[s].acked
         /\ conn'[s].sent = client.shown /\ conn'[s].code = NoCode
         /\ \A t \in Servers \ {s} : conn'[t] = conn[t]
         /\ s = Daemon => /\ daemon' = [daemon EXCEPT !.attach = "hello"]
                          /\ UNCHANGED <<replay, dir>>
         /\ s # Daemon => /\ s \in Replays /\ replay' = Moved(s, "hello")
                          /\ dir' = [dir EXCEPT !.sock = NoOne] /\ UNCHANGED daemon
<1>a. conn \in [Servers -> Connections] /\ client \in Clients /\ client.shown \in Nat
  BY Sizes
<1>1. /\ client' = [client EXCEPT !.phase = "hello", !.server = s]
      /\ client.phase \in {"idle", "spawned"} /\ Listens(s)
      /\ UNCHANGED <<total, trim, cuts, kills, spoiled>>
      /\ s = Daemon => /\ daemon' = [daemon EXCEPT !.attach = "hello"]
                       /\ UNCHANGED <<replay, dir>>
      /\ s # Daemon => /\ replay' = Moved(s, "hello")
                       /\ dir' = [dir EXCEPT !.sock = NoOne] /\ UNCHANGED daemon
  BY Zenon DEF Dial, history
<1>2. s # Daemon => s \in Replays
  BY Names
<1> DEFINE v == [NoConn EXCEPT !.open = TRUE, !.sent = client.shown]
<1>3. conn' = [conn EXCEPT ![s] = v]
  BY Zenon DEF Dial
<1>4. /\ v \in Connections /\ v.open /\ ~v.cut /\ ~v.acked /\ v.sent = client.shown
      /\ v.code = NoCode
  BY <1>a DEF NoConn, Connections, Codes
<1> HIDE DEF v
<1>5. /\ conn' \in [Servers -> Connections] /\ conn'[s] = v
      /\ \A t \in Servers \ {s} : conn'[t] = conn[t]
  BY <1>a, <1>3, <1>4
<1>6. /\ client' \in Clients /\ client'.phase = "hello" /\ client'.server = s
      /\ client'.shown = client.shown /\ client'.code = client.code
  BY <1>a, <1>1, ClientFacts
<1> QED BY <1>1, <1>2, <1>4, <1>5, <1>6

\* A client that has the network against it, and one whose user leaves.
LEMMA CutFacts ==
  ASSUME BaseInv, Cut \/ Abort
  PROVE  /\ UNCHANGED <<total, trim, dir, replay, kills>>
         /\ client' \in Clients /\ client'.phase \in {"idle", "failed", "aborted"}
         /\ client'.shown = client.shown /\ client'.code = client.code
         /\ client'.phase = "idle" => client.phase = "live"
         /\ conn' \in [Servers -> Connections]
         /\ \A t \in Servers : /\ conn'[t].open = conn[t].open
                               /\ conn'[t].acked = conn[t].acked
                               /\ conn'[t].sent = conn[t].sent
                               /\ conn'[t].code = conn[t].code
                               /\ conn[t].cut => conn'[t].cut
         /\ Connected => conn'[client.server].cut
         /\ daemon' \in Daemons
         /\ \/ UNCHANGED daemon
            \/ /\ daemon' = [daemon EXCEPT !.shutdown = TRUE]
               /\ client'.phase = "aborted" /\ Undecided
<1>a. /\ conn \in [Servers -> Connections] /\ client \in Clients /\ daemon \in Daemons
      /\ Connected => client.server \in Servers
  BY Sizes
<1>1. UNCHANGED <<total, trim, dir, replay, kills>>
  BY DEF Cut, Abort, history
<1>2. /\ client' \in Clients /\ client'.phase \in {"idle", "failed", "aborted"}
      /\ client'.shown = client.shown /\ client'.code = client.code
      /\ client'.phase = "idle" => client.phase = "live"
      /\ Abort => client'.phase = "aborted"
  <2>1. client' = Retried \/ client' = [client EXCEPT !.phase = "aborted", !.server = NoOne]
    BY DEF Cut, Abort
  <2>2. Abort => client' = [client EXCEPT !.phase = "aborted", !.server = NoOne]
    BY DEF Abort
  <2>3. CASE client' = Retried
    <3>1. ~Abort
      BY <1>a, <2>2, <2>3, RetriedFacts DEF Clients
    <3> QED BY <1>a, <2>3, <3>1, RetriedFacts
  <2>4. CASE client' = [client EXCEPT !.phase = "aborted", !.server = NoOne]
    BY <1>a, <2>4 DEF Clients
  <2> QED BY <2>1, <2>3, <2>4
<1>3. CASE Connected
  <2> DEFINE u == conn[client.server]  v == [u EXCEPT !.cut = TRUE]
  <2>1. conn' = [conn EXCEPT ![client.server] = v]
    BY <1>3, Zenon DEF Cut, Abort, Connected
  <2>2. u \in Connections
    BY <1>a, <1>3
  <2> HIDE DEF u
  <2>3. /\ v \in Connections /\ v.open = u.open /\ v.cut /\ v.acked = u.acked
        /\ v.sent = u.sent /\ v.code = u.code
    BY <2>2 DEF Connections
  <2> HIDE DEF v
  <2>4. /\ conn' \in [Servers -> Connections] /\ conn'[client.server] = v
        /\ \A t \in Servers \ {client.server} : conn'[t] = conn[t]
    BY <1>a, <1>3, <2>1, <2>3
  <2>5. \A t \in Servers : /\ conn'[t].open = conn[t].open
                           /\ conn'[t].acked = conn[t].acked
                           /\ conn'[t].sent = conn[t].sent
                           /\ conn'[t].code = conn[t].code
                           /\ conn[t].cut => conn'[t].cut
    BY <2>3, <2>4 DEF u
  <2>6. conn'[client.server].cut
    BY <2>3, <2>4
  <2>7. \/ UNCHANGED daemon
        \/ /\ daemon' = [daemon EXCEPT !.shutdown = TRUE]
           /\ client'.phase = "aborted" /\ Undecided
    BY <1>2, Zenon DEF Cut, Abort
  <2>8. daemon' \in Daemons
    BY <1>a, <2>7 DEF Daemons
  <2> QED BY <1>1, <1>2, <2>4, <2>5, <2>6, <2>7, <2>8
<1>4. CASE ~Connected
  <2>1. UNCHANGED <<conn, daemon>>
    BY <1>4 DEF Cut, Abort, Connected
  <2> QED BY <1>a, <1>1, <1>2, <1>4, <2>1
<1> QED BY <1>3, <1>4

\* A nonempty set of replay daemons has a first one.
LEMMA LeastExists ==
  ASSUME NEW S, S \subseteq Replays, S # {}
  PROVE  \E q \in S : \A n \in S : q <= n
<1>0. S \subseteq Nat
  BY DEF Replays
<1> DEFINE L == OpToRel(<, Nat)
<1>1. IsWellFoundedOn(L, Nat)
  BY NatLessThanWellFounded
<1>2. L = {ss \in Nat \X Nat : ss[1] < ss[2]}
  BY DEF OpToRel
<1> HIDE DEF L
<1>3. PICK q \in S : \A n \in S : ~(<<n, q>> \in L)
  BY <1>0, <1>1, WFMin
<1>4. \A n \in S : n \in Nat /\ ~(n < q)
  BY <1>0, <1>2, <1>3
<1> QED BY <1>4

\* The replay daemon that attach spawns is a new one.
LEMMA SpawnFacts ==
  ASSUME BaseInv, SpawnReplay
  PROVE  /\ UNCHANGED <<total, trim, dir, daemon, conn, cuts, kills, spoiled>>
         /\ DialFails /\ client.phase = "idle"
         /\ client' \in Clients /\ client'.phase = "spawned"
         /\ client'.shown = client.shown /\ client'.code = client.code
         /\ \E r \in Replays : replay[r].phase = "none" /\ replay' = Moved(r, "start")
<1> DEFINE unused == {r \in Replays : replay[r].phase = "none"}
           r == CHOOSE r \in unused : \A q \in unused : r <= q
<1>1. /\ UNCHANGED <<total, trim, dir, daemon, conn, cuts, kills, spoiled>>
      /\ DialFails /\ unused # {} /\ replay' = Moved(r, "start")
      /\ client' = [client EXCEPT !.phase = "spawned"]
  BY Zenon DEF SpawnReplay, history
<1>2. r \in unused
  <2>1. \E q \in unused : \A n \in unused : q <= n
    BY <1>1, LeastExists
  <2> QED BY <2>1, Zenon
<1> HIDE DEF r
<1>3. client \in Clients /\ client.phase = "idle"
  BY <1>1, Sizes DEF DialFails
<1> QED BY <1>1, <1>2, <1>3 DEF Clients

\* The client's steps.
LEMMA BaseClient ==
  ASSUME BaseInv, Client
  PROVE  BaseInv'
<1>a. /\ total \in Nat /\ trim \in Nat /\ client.shown \in Nat /\ dir.last \in Nat
      /\ trim <= client.shown /\ client.shown <= total /\ dir.last <= total
      /\ replay \in [Replays -> ReplayDaemons] /\ conn \in [Servers -> Connections]
      /\ dir \in Dirs /\ daemon \in Daemons /\ client \in Clients
      /\ Connected => client.server \in Servers
  BY Sizes
<1>b. \A q \in Replays : replay[q].last <= total
  BY Sizes
<1>c. \A t \in Servers : conn[t].sent <= total /\ conn[t] \in Connections
  BY Sizes
<1>1. CASE \E s \in Servers : Dial(s)
  <2>1. PICK s \in Servers : Dial(s)
    BY <1>1
  <2>2. \A t \in Servers : conn'[t].sent <= total
    BY <1>a, <1>c, <2>1, DialFacts
  <2>3. /\ replay' \in [Replays -> ReplayDaemons]
        /\ \A q \in Replays : replay'[q].last <= total
    <3>1. CASE s = Daemon
      BY <1>a, <1>b, <2>1, <3>1, DialFacts
    <3>2. CASE s # Daemon
      <4>1. s \in Replays /\ replay' = Moved(s, "hello")
        BY <2>1, <3>2, DialFacts
      <4> QED BY <1>a, <1>b, <4>1, MovedFacts
    <3> QED BY <3>1, <3>2
  <2>4. dir' \in Dirs /\ dir'.last <= total
    <3>1. dir' \in {dir, [dir EXCEPT !.sock = NoOne], NoDir}
      BY <2>1, DialFacts
    <3> QED BY <1>a, <3>1, DirFacts
  <2>5. daemon' \in Daemons
    <3>1. daemon' \in {daemon, [daemon EXCEPT !.attach = "hello"]}
      BY <2>1, DialFacts
    <3> QED BY <1>a, <3>1 DEF Daemons
  <2>6. /\ UNCHANGED <<total, trim, cuts, kills, spoiled>>
        /\ client' \in Clients /\ client'.server \in Servers
        /\ client'.shown = client.shown /\ conn' \in [Servers -> Connections]
    BY <2>1, DialFacts
  <2> QED BY <2>2, <2>3, <2>4, <2>5, <2>6 DEF BaseInv, Records, SizeOK, Connected
<1>2. CASE SpawnReplay
  <2>1. /\ replay' \in [Replays -> ReplayDaemons]
        /\ \A q \in Replays : replay'[q].last <= total
    <3>1. PICK r \in Replays : replay' = Moved(r, "start")
      BY <1>2, SpawnFacts
    <3> QED BY <1>a, <1>b, <3>1, MovedFacts
  <2> QED BY <1>2, <2>1, SpawnFacts DEF BaseInv, Records, SizeOK, Connected
<1>3. CASE NothingLeft
  <2>1. dir' = [dir EXCEPT !.exists = TRUE] /\ client' = [client EXCEPT !.phase = "exited", !.code = 136]
        /\ UNCHANGED <<total, trim, daemon, replay, conn, history>>
    BY <1>3 DEF NothingLeft
  <2>2. dir' \in Dirs /\ dir'.last = dir.last
    BY <1>a, <2>1 DEF Dirs
  <2>3. client' \in Clients /\ client'.shown = client.shown /\ client'.phase = "exited"
    BY <1>a, <2>1 DEF Clients
  <2> QED BY <2>1, <2>2, <2>3 DEF BaseInv, Records, SizeOK, Connected, history
<1>4. CASE SpawnFails \/ RecvHelloAck \/ RecvExit \/ RecvEOF
  <2>1. UNCHANGED <<total, trim, dir, daemon, replay, conn, history>>
    BY <1>4 DEF SpawnFails, RecvHelloAck, RecvExit, RecvEOF
  <2>2. /\ client' \in Clients /\ client'.shown = client.shown
        /\ client'.phase \in {"hello", "live"} => client'.server \in Servers
    <3>1. CASE SpawnFails
      BY <1>a, <3>1 DEF SpawnFails, Clients
    <3>2. CASE RecvHelloAck
      BY <1>a, <3>2 DEF RecvHelloAck, Clients, Connected
    <3>3. CASE RecvExit
      <4>1. conn[client.server].code \in Codes
        BY <1>a, <1>c, <3>3 DEF RecvExit, Connected, Connections
      <4>2. client' = [client EXCEPT !.phase = "exited", !.code = conn[client.server].code]
        BY <3>3 DEF RecvExit, Line
      <4> QED BY <1>a, <4>1, <4>2 DEF Clients
    <3>4. CASE RecvEOF
      BY <1>a, <3>4, RetriedFacts DEF RecvEOF
    <3> QED BY <1>4, <3>1, <3>2, <3>3, <3>4
  <2> QED BY <2>1, <2>2 DEF BaseInv, Records, SizeOK, Connected, history
<1>5. CASE RecvOutput
  <2>1. /\ client' = [client EXCEPT !.shown = conn[client.server].sent]
        /\ conn[client.server].sent > client.shown /\ client.phase = "live"
        /\ UNCHANGED <<total, trim, dir, daemon, replay, conn, history>>
    BY <1>5 DEF RecvOutput, Line
  <2>2. /\ conn[client.server].sent \in Nat /\ conn[client.server].sent <= total
        /\ client.server \in Servers
    BY <1>a, <1>c, <2>1 DEF Connected, Connections
  <2>3. /\ client' \in Clients /\ client'.shown = conn[client.server].sent
        /\ client'.server = client.server
    BY <1>a, <2>1, <2>2 DEF Clients
  <2>4. trim <= client'.shown /\ client'.shown <= total
    BY <1>a, <2>1, <2>2, <2>3
  <2> QED BY <2>1, <2>2, <2>3, <2>4 DEF BaseInv, Records, SizeOK, Connected, history
<1> QED BY <1>1, <1>2, <1>3, <1>4, <1>5, Zenon DEF Client

\* The network and the user.
LEMMA BaseCut ==
  ASSUME BaseInv, Cut \/ Abort
  PROVE  BaseInv'
<1>1. /\ UNCHANGED <<total, trim, dir, replay, kills>>
      /\ client' \in Clients /\ client'.phase \notin {"hello", "live"}
      /\ client'.shown = client.shown /\ daemon' \in Daemons
      /\ conn' \in [Servers -> Connections]
      /\ \A t \in Servers : conn'[t].sent = conn[t].sent
  BY CutFacts
<1>2. spoiled' \in BOOLEAN /\ cuts' \in 0..MaxCuts
  <2>1. cuts' = cuts \/ (cuts' = cuts + 1 /\ cuts < MaxCuts)
    BY DEF Cut, Abort, history
  <2>2. spoiled' \in BOOLEAN
    BY Zenon DEF Cut, Abort, history, BaseInv, Records
  <2> QED BY <2>1, <2>2, Names DEF BaseInv
<1> QED BY <1>1, <1>2 DEF BaseInv, Records, SizeOK, Connected

\* Nothing breaks the types and the order of what is freed, shown and written.
LEMMA BaseStep ==
  ASSUME BaseInv, [Next]_vars
  PROVE  BaseInv'
<1>1. CASE Output \/ ReadAck \/ ShellExits \/ Signal \/ DiskCap \/ Attach
  BY <1>1, BaseDaemon
<1>2. CASE \E r \in Replays : AcceptTimeout(r)
  BY <1>2, BaseGivesUp DEF AcceptTimeout
<1>3. CASE vars' = vars
  BY <1>3 DEF BaseInv, Records, SizeOK, Connected, vars
<1> QED
  BY <1>1, <1>2, <1>3, BaseRun, BaseReplay, BaseKill, BaseClient, BaseCut DEF Next

\* It holds to begin with.
LEMMA BaseInit ==
  ASSUME Init
  PROVE  BaseInv
<1>1. dir \in Dirs /\ dir.last = 0 /\ daemon \in Daemons /\ client \in Clients /\ client.shown = 0
      /\ client.server = Daemon
  BY DEF Init, Dirs, NoDir, Daemons, Clients, Codes, NoCode, Servers
<1>2. /\ conn \in [Servers -> Connections]
      /\ \A s \in Servers : conn[s].sent = 0
  BY DEF Init, NoConn, Connections, Codes
<1>3. /\ replay \in [Replays -> ReplayDaemons]
      /\ \A r \in Replays : replay[r].last = 0
  BY DEF Init, ReplayDaemons
<1>4. total = 0 /\ trim = 0 /\ cuts = 0 /\ kills = 0 /\ spoiled = FALSE
  BY DEF Init
<1>5. Records
  BY <1>1, <1>2, <1>3, <1>4, Names DEF Records, Connected
<1>6. SizeOK /\ cuts \in 0..MaxCuts /\ kills \in 0..MaxKills
  BY <1>1, <1>2, <1>3, <1>4, Names DEF SizeOK
<1> QED BY <1>5, <1>6 DEF BaseInv

\* TypeOK: every variable has its type, and what is freed was shown, and what is
\* shown was written.
THEOREM TypeCorrect == Spec => []TypeOK
<1>1. Init => BaseInv
  BY BaseInit
<1>2. BaseInv /\ [Next]_vars => BaseInv'
  BY BaseStep
<1>3. BaseInv => TypeOK
  BY BaseIsTyped
<1> QED BY <1>1, <1>2, <1>3, PTL DEF Spec

-----------------------------------------------------------------------------
(* The end of a session *)

\* Where Run stands once the buffer is closed, and a replay daemon until a
\* client is connected to it.
Ending == {"closed", "tidied", "marked"}
Early == {"start", "scan", "bind", "listen"}

\* The codes that say that the client has it all.
GoodCodes == {ShellCode, 129, 133, 134}

\* The shell writes no more.
Frozen == ~Running \/ ~daemon.shell

\* Files that end there hold what is not acknowledged.
Covered(last) == last = total \/ trim = total

\* The daemon: what is done by the time Run gets somewhere, and whose the socket
\* is.
DaemonOK ==
  /\ daemon.phase = "serving" =>
       /\ dir.exists /\ dir.sock = Daemon
       /\ \A r \in Replays : replay[r].phase = "none"
  /\ dir.sock = Daemon => daemon.phase \in {"serving", "gone"}
  /\ daemon.phase \in Ending \cup {"waiting"} => daemon.exited
  /\ daemon.phase \in Ending \cup {"gone"} => daemon.attach = "none"
  /\ daemon.phase = "tidied" => daemon.preserve
  /\ daemon.exited => ~daemon.shell
  /\ daemon.attach = "drain" => daemon.exited

\* Replay daemons and the client: a replay daemon is spawned for one attach,
\* which waits for it, and serves no other connection.
WaitOK ==
  /\ client.phase \in {"idle", "hello", "live"} =>
       \A r \in Replays : /\ replay[r].phase \notin Early
                          /\ replay[r].phase = "hello" =>
                               client.phase = "hello" /\ client.server = r
  /\ client.phase = "spawned" =>
       \A r \in Replays : /\ replay[r].phase # "hello"
                          /\ replay[r].phase \in Early =>
                               \A q \in Replays : replay[q].phase \in Early => q = r
  /\ Connected => ~conn[client.server].cut
  /\ \A r \in Replays : replay[r].phase = "hello" => ~conn[r].acked

\* The directory: what a preserved session leaves in it, and that a client that
\* finds it gone cannot have attach make it anew while the daemon still ends.
DirOK ==
  /\ ~dir.exists => dir.sock = NoOne /\ ~dir.clean
  /\ ~dir.exists /\ daemon.phase \notin {"marked", "gone"} =>
       client.phase \notin {"idle", "hello", "live"}
  /\ dir.clean => daemon.phase \in {"marked", "gone"} /\ Covered(dir.last)
  /\ daemon.phase \in {"closed", "tidied"} /\ daemon.preserve /\ daemon.flushed /\ dir.exists
       => Covered(dir.last)

\* The replay daemons that saw the clean marker: what they serve is complete.
ReplayOK ==
  \A r \in Replays :
    /\ replay[r].clean => daemon.phase \in {"marked", "gone"}
    /\ replay[r].delivered => replay[r].clean
    /\ replay[r].phase \in {"none", "start"} => ~replay[r].clean
    /\ replay[r].phase = "stream" => replay[r].clean
    /\ replay[r].clean /\ replay[r].phase = "scan" => Covered(dir.last) \/ ~dir.exists
    /\ replay[r].clean /\ replay[r].phase = "bind" => Covered(replay[r].last) \/ ~dir.exists
    /\ replay[r].clean /\ replay[r].phase \in {"listen", "hello", "stream"} =>
         Covered(replay[r].last)

\* Exit codes, on their way and received.
CodeOK ==
  /\ \A s \in Servers : conn[s].code \in GoodCodes => Frozen /\ Covered(conn[s].sent)
  /\ client.code \in GoodCodes => Frozen /\ client.shown = total

EndInv == DaemonOK /\ WaitOK /\ DirOK /\ ReplayOK /\ CodeOK

\* EXIT of server s is on its way to the client.
OnItsWay(s) == Connected /\ client.server = s /\ conn[s].code # NoCode

\* The client has everything, or one of the excepted things has happened.
Excused == spoiled \/ client.phase = "aborted" \/ client.shown = total

\* A server believes what its connection lets it believe.
LineOK ==
  /\ \A s \in Servers : conn[s].open /\ ~conn[s].cut => Connected /\ client.server = s
  /\ \A s \in Servers : conn[s].code # NoCode => ~conn[s].open
  /\ conn[Daemon].code \in {NoCode, ShellCode, 129}

\* EXIT that counts as delivered is on its way, or its connection is known dead.
ToldOK ==
  /\ daemon.exitDelivered => daemon.exited /\ (OnItsWay(Daemon) \/ Excused)
  /\ \A r \in Replays : replay[r].delivered =>
       /\ replay[r].phase \in {"cleanup", "gone"} /\ conn[r].code \in {133, 134}
       /\ OnItsWay(r) \/ Excused

\* What Run has left behind, unless a process was killed.
LeftOK ==
  /\ daemon.shutdown => daemon.preserveOnExit \/ client.phase = "aborted"
  /\ ~dir.exists /\ daemon.phase \notin {"marked", "gone"} => spoiled
  /\ daemon.phase \in Ending \cup {"gone"} /\ kills = 0 =>
       \/ Excused
       \/ ~daemon.preserve /\ daemon.exitDelivered
       \/ daemon.preserve /\ ~daemon.flushed
       \/ daemon.preserve /\ (dir.last = total \/ \E r \in Replays : replay[r].delivered)

KeptInv == LineOK /\ ToldOK /\ LeftOK

-----------------------------------------------------------------------------
(* What the steps change *)

\* Output, an ACK: only the stream, and where the files end.
LEMMA StreamFacts ==
  ASSUME BaseInv, Output \/ ReadAck
  PROVE  /\ UNCHANGED <<daemon, replay, conn, client, history>>
         /\ dir'.exists = dir.exists /\ dir'.sock = dir.sock /\ dir'.clean = dir.clean
         /\ \/ total' > total /\ Running /\ daemon.shell /\ trim' = trim
            \/ /\ total' = total /\ dir' = dir
               /\ trim' \in Nat /\ trim < trim' /\ trim' <= total
               /\ daemon.attach = "live" /\ client.phase = "live" /\ client.server = Daemon
<1>a. dir \in Dirs /\ total \in Nat /\ trim \in Nat /\ client.shown \in Nat
      /\ client.shown <= total
  BY Sizes
<1>1. CASE Output
  BY <1>1, <1>a DEF Output, Dirs
<1>2. CASE ReadAck
  BY <1>2, <1>a DEF ReadAck
<1> QED BY <1>1, <1>2

\* The shell's exit, a signal, the disk cap: only flags of the daemon.
LEMMA FlagFacts ==
  ASSUME BaseInv, ShellExits \/ Signal \/ DiskCap
  PROVE  /\ UNCHANGED <<total, trim, dir, replay, conn, client, history>>
         /\ daemon'.phase = daemon.phase /\ daemon'.attach = daemon.attach
         /\ daemon'.preserve = daemon.preserve /\ daemon'.flushed = daemon.flushed
         /\ daemon'.exitDelivered = daemon.exitDelivered
         /\ daemon.exited => daemon'.exited
         /\ daemon'.shell => daemon.shell /\ daemon'.exited = daemon.exited
         /\ daemon.preserveOnExit => daemon'.preserveOnExit
         /\ daemon'.shutdown => daemon.shutdown \/ daemon'.preserveOnExit
<1>a. daemon \in Daemons
  BY Sizes
<1>1. CASE ShellExits
  BY <1>1, <1>a DEF ShellExits, Daemons
<1>2. CASE Signal
  BY <1>2, <1>a DEF Signal, Daemons
<1>3. CASE DiskCap
  BY <1>3, <1>a DEF DiskCap, Daemons
<1> QED BY <1>1, <1>2, <1>3

\* The attach: its state, and what is in its connection.
LEMMA AttachFacts ==
  ASSUME BaseInv, Attach
  PROVE  /\ UNCHANGED <<total, trim, dir, replay, client, cuts, kills>>
         /\ daemon'.phase = daemon.phase /\ daemon'.shell = daemon.shell
         /\ daemon'.preserve = daemon.preserve /\ daemon'.flushed = daemon.flushed
         /\ daemon'.exited = daemon.exited /\ daemon'.shutdown = daemon.shutdown
         /\ daemon'.preserveOnExit = daemon.preserveOnExit
         /\ daemon.attach # "none"
         /\ daemon'.attach = "drain" => daemon.attach = "drain" \/ daemon.exited
         /\ \A s \in Servers : /\ conn'[s].cut = conn[s].cut
                               /\ conn'[s].open => conn[s].open
                               /\ s # Daemon => conn'[s] = conn[s]
         /\ \/ /\ conn'[Daemon].code = conn[Daemon].code /\ UNCHANGED spoiled
               /\ daemon'.exitDelivered = daemon.exitDelivered
               /\ \/ conn'[Daemon].sent = conn[Daemon].sent
                  \/ /\ conn'[Daemon].sent = conn[Daemon].sent + 1
                     /\ conn[Daemon].sent < total
            \/ /\ daemon.attach = "drain" /\ conn[Daemon].open /\ ~conn'[Daemon].open
               /\ conn'[Daemon].sent = total /\ conn'[Daemon].code \in {ShellCode, 129}
               /\ spoiled' = (spoiled \/ conn[Daemon].cut) /\ daemon'.exitDelivered
<1>a. /\ daemon \in Daemons /\ conn \in [Servers -> Connections]
      /\ Daemon \in Servers /\ conn[Daemon] \in Connections
  BY Sizes, Names
<1>1. CASE AttachHello
  <2>1. conn' = [conn EXCEPT ![Daemon].acked = TRUE] \/ conn' = Closed(Daemon)
    BY <1>1 DEF AttachHello
  <2>2. /\ \A s \in Servers : /\ conn'[s].cut = conn[s].cut /\ conn'[s].sent = conn[s].sent
                              /\ conn'[s].code = conn[s].code
                              /\ conn'[s].open => conn[s].open
                              /\ s # Daemon => conn'[s] = conn[s]
    <3>1. CASE conn' = [conn EXCEPT ![Daemon].acked = TRUE]
      BY <1>a, <3>1 DEF Connections
    <3>2. CASE conn' = Closed(Daemon)
      BY <1>a, <3>2, ClosedFacts
    <3> QED BY <2>1, <3>1, <3>2
  <2>3. /\ UNCHANGED <<total, trim, dir, replay, client, history>>
        /\ daemon.attach = "hello"
        /\ daemon' \in {[daemon EXCEPT !.attach = "live"], [daemon EXCEPT !.attach = "none"]}
    BY <1>1 DEF AttachHello
  <2> QED BY <1>a, <2>2, <2>3 DEF Daemons, history
<1>2. CASE AttachStreams
  <2> DEFINE v == [conn[Daemon] EXCEPT !.sent = conn[Daemon].sent + 1]
  <2>1. /\ conn' = [conn EXCEPT ![Daemon] = v] /\ conn[Daemon].sent < total
        /\ UNCHANGED <<total, trim, dir, daemon, replay, client, history>>
        /\ daemon.attach \in {"live", "drain"}
    BY <1>2, Zenon DEF AttachStreams
  <2>2. /\ v.cut = conn[Daemon].cut /\ v.open = conn[Daemon].open
        /\ v.code = conn[Daemon].code /\ v.sent = conn[Daemon].sent + 1
    BY <1>a DEF Connections
  <2> HIDE DEF v
  <2> QED BY <1>a, <2>1, <2>2 DEF history
<1>3. CASE AttachDropped
  BY <1>a, <1>3, ClosedFacts DEF AttachDropped, Daemons, history
<1>4. CASE AttachDrains
  BY <1>a, <1>4 DEF AttachDrains, Daemons, history
<1>5. CASE AttachExits
  <2>1. /\ UNCHANGED <<total, trim, dir, replay, client, cuts, kills>>
        /\ daemon.attach = "drain"
    BY <1>5 DEF AttachExits
  <2>2. CASE /\ conn' = Closed(Daemon) /\ daemon' = [daemon EXCEPT !.attach = "none"]
             /\ UNCHANGED spoiled
    BY <1>a, <2>1, <2>2, ClosedFacts DEF Daemons
  <2>3. CASE /\ \E k \in {ShellCode, 129} : conn' = Told(Daemon, k)
             /\ conn[Daemon].open /\ conn[Daemon].sent = total
             /\ daemon' = [daemon EXCEPT !.attach = "none", !.exitDelivered = TRUE]
             /\ spoiled' = (spoiled \/ conn[Daemon].cut)
    <3>1. PICK k \in {ShellCode, 129} : conn' = Told(Daemon, k)
      BY <2>3
    <3>2. k \in Codes
      BY DEF Codes
    <3>3. /\ ~conn'[Daemon].open /\ conn'[Daemon].code = k
          /\ \A t \in Servers : /\ conn'[t].cut = conn[t].cut /\ conn'[t].sent = conn[t].sent
                                /\ t # Daemon => conn'[t] = conn[t]
      BY <1>a, <3>1, <3>2, ToldFacts
    <3> QED BY <1>a, <2>1, <2>3, <3>3 DEF Daemons
  <2>4. \/ /\ conn' = Closed(Daemon) /\ daemon' = [daemon EXCEPT !.attach = "none"]
           /\ UNCHANGED spoiled
        \/ /\ \E k \in {ShellCode, 129} : conn' = Told(Daemon, k)
           /\ conn[Daemon].open /\ conn[Daemon].sent = total
           /\ daemon' = [daemon EXCEPT !.attach = "none", !.exitDelivered = TRUE]
           /\ spoiled' = (spoiled \/ conn[Daemon].cut)
    BY <1>5, Zenon DEF AttachExits, Told, Writes
  <2> QED BY <2>2, <2>3, <2>4
<1> QED BY <1>1, <1>2, <1>3, <1>4, <1>5 DEF Attach

-----------------------------------------------------------------------------
(* The clean marker and the exit codes: each step keeps EndInv *)

\* Output, ACKs, signals.
LEMMA EndStream ==
  ASSUME BaseInv, EndInv, Output \/ ReadAck \/ ShellExits \/ Signal \/ DiskCap
  PROVE  EndInv'
<1> USE DEF EndInv
<1>a. /\ total \in Nat /\ trim \in Nat /\ trim <= client.shown /\ client.shown <= total
      /\ client.shown \in Nat /\ dir.last \in Nat /\ dir.last <= total
      /\ \A r \in Replays : replay[r].last \in Nat /\ replay[r].last <= total
      /\ \A s \in Servers : conn[s].sent \in Nat /\ conn[s].sent <= total
  BY Sizes
<1>1. CASE Output \/ ReadAck
  <2>1. DaemonOK' /\ WaitOK'
    BY <1>1, StreamFacts DEF DaemonOK, WaitOK, Connected
  <2>2. Frozen => Frozen' /\ total' = total /\ (trim = total => trim' = total)
    <3>1. UNCHANGED daemon
      BY <1>1, StreamFacts
    <3>2. (total' = total /\ (trim' = trim \/ (trim' \in Nat /\ trim < trim' /\ trim' <= total))) \/ ~Frozen
      BY <1>1, StreamFacts DEF Frozen
    <3>3. Frozen => total' = total /\ (trim = total => trim' = total)
      BY <1>a, <3>2
    <3> QED BY <3>1, <3>3 DEF Frozen, Running
  <2>3. daemon.phase \in Ending \cup {"gone"} => Frozen /\ UNCHANGED <<dir, total, trim>>
    BY <1>1, <1>a, StreamFacts DEF DaemonOK, Ending, Frozen, Running
  <2>4. DirOK'
    BY <1>1, <2>3, StreamFacts DEF DirOK, Ending, Covered
  <2>5. ReplayOK'
    BY <1>1, <2>3, StreamFacts DEF ReplayOK, Ending, Covered
  <2>6. CodeOK'
    <3>1. UNCHANGED <<conn, client>>
      BY <1>1, StreamFacts
    <3> QED BY <2>2, <3>1 DEF CodeOK, Covered
  <2> QED BY <2>1, <2>4, <2>5, <2>6
<1>2. CASE ShellExits \/ Signal \/ DiskCap
  <2>1. DaemonOK' /\ WaitOK'
    BY <1>2, FlagFacts DEF DaemonOK, WaitOK, Connected
  <2>2. DirOK' /\ ReplayOK'
    BY <1>2, FlagFacts DEF DirOK, ReplayOK, Covered
  <2>3. CodeOK'
    BY <1>2, FlagFacts DEF CodeOK, Covered, Frozen, Running
  <2> QED BY <2>1, <2>2, <2>3
<1> QED BY <1>1, <1>2

\* The daemon's attach.
LEMMA EndAttach ==
  ASSUME BaseInv, EndInv, Attach
  PROVE  EndInv'
<1> USE DEF EndInv
<1>a. /\ total \in Nat /\ trim \in Nat /\ Daemon \in Servers /\ Daemon \notin Replays
      /\ Replays \subseteq Servers
      /\ \A s \in Servers : conn[s].sent \in Nat /\ conn[s].sent <= total
      /\ Connected => client.server \in Servers
  BY Sizes, Names
<1>1. DaemonOK'
  BY AttachFacts DEF DaemonOK, Ending
<1>2. WaitOK'
  BY <1>a, AttachFacts DEF WaitOK, Connected
<1>3. DirOK' /\ ReplayOK'
  BY AttachFacts DEF DirOK, ReplayOK, Covered
<1>4. CodeOK'
  <2>1. Frozen' = Frozen /\ UNCHANGED <<total, trim, client>>
    BY AttachFacts DEF Frozen, Running
  <2>2. ASSUME NEW s \in Servers, conn'[s].code \in GoodCodes
        PROVE  Frozen /\ Covered(conn'[s].sent)
    <3>1. CASE conn'[s].code = conn[s].code
      BY <1>a, <2>2, <3>1, AttachFacts DEF CodeOK, Covered
    <3>2. CASE conn'[s].code # conn[s].code
      BY <1>a, <2>2, <3>2, AttachFacts DEF DaemonOK, Covered, Frozen
    <3> QED BY <3>1, <3>2
  <2> QED BY <2>1, <2>2 DEF CodeOK, Covered
<1> QED BY <1>1, <1>2, <1>3, <1>4

\* Run: where it gets, and what is then true of the directory.
LEMMA RunFacts ==
  ASSUME BaseInv, Run
  PROVE  /\ UNCHANGED <<total, trim, replay, conn, client, history>>
         /\ daemon'.attach = daemon.attach /\ daemon'.exitDelivered = daemon.exitDelivered
         /\ daemon'.shutdown = daemon.shutdown
         /\ daemon'.preserveOnExit = daemon.preserveOnExit
         /\ \/ /\ daemon.phase = "serving" /\ daemon'.phase = "killing"
               /\ dir'.sock = NoOne /\ dir'.exists = dir.exists /\ dir'.clean = dir.clean
               /\ dir'.last = dir.last /\ daemon'.shell = daemon.shell
               /\ daemon'.exited = daemon.exited /\ daemon'.preserve = daemon.preserve
               /\ daemon'.flushed = daemon.flushed
            \/ /\ daemon.phase = "killing" /\ daemon'.phase = "waiting" /\ dir' = dir
               /\ ~daemon'.shell /\ daemon'.exited /\ daemon'.preserve = daemon.preserve
               /\ daemon'.flushed = daemon.flushed
            \/ /\ daemon.phase = "waiting" /\ daemon'.phase = "closed"
               /\ daemon.attach = "none" /\ dir'.exists = dir.exists
               /\ dir'.sock = dir.sock /\ dir'.clean = dir.clean
               /\ daemon'.shell = daemon.shell /\ daemon'.exited = daemon.exited
               /\ daemon'.preserve <=> Preserves
               /\ daemon'.preserve /\ daemon'.flushed /\ dir.exists
                    => dir'.last = total \/ trim = total
            \/ /\ daemon.phase \in Ending /\ daemon'.phase \in {"tidied", "marked", "gone"}
               /\ daemon'.shell = daemon.shell /\ daemon'.exited = daemon.exited
               /\ daemon'.preserve = daemon.preserve /\ daemon'.flushed = daemon.flushed
               /\ \/ /\ daemon.phase = "closed" /\ daemon'.phase = "tidied"
                     /\ daemon.preserve
                     /\ dir'.sock = NoOne /\ dir'.exists = dir.exists
                     /\ dir'.clean = dir.clean /\ dir'.last = dir.last
                  \/ /\ daemon.phase = "tidied" /\ daemon'.phase \in {"marked", "gone"}
                     /\ dir'.clean <=> dir.exists /\ daemon.flushed
                     /\ dir'.sock = dir.sock /\ dir'.exists = dir.exists
                     /\ dir'.last = dir.last
                  \/ /\ daemon.phase = "marked" /\ daemon'.phase = "gone"
                     /\ dir'.sock = dir.sock /\ dir'.exists = dir.exists
                     /\ dir'.clean = dir.clean /\ dir'.last = dir.last
                  \/ /\ daemon.phase = "closed" /\ daemon'.phase = "gone"
                     /\ ~daemon.preserve
                     /\ ~dir'.exists /\ dir'.sock = NoOne /\ ~dir'.clean
<1>a. /\ dir \in Dirs /\ daemon \in Daemons /\ dir.last \in Nat /\ dir.last <= total
      /\ total \in Nat /\ trim \in Nat /\ trim <= total
  BY Sizes
<1>1. CASE AcceptStops \/ Killed
  BY <1>a, <1>1 DEF AcceptStops, Killed, Dirs, Daemons
<1>2. CASE CloseBuffer
  <2> DEFINE F(keep, ok, last) ==
        /\ daemon' = [daemon EXCEPT !.phase = "closed", !.preserve = keep, !.flushed = ok]
        /\ dir' = [dir EXCEPT !.last = IF dir.exists THEN last ELSE 0]
  <2>1. PICK keep \in BOOLEAN, ok \in BOOLEAN, last \in Int :
          /\ F(keep, ok, last)
          /\ keep <=> Preserves
          /\ keep /\ ok => last = total \/ (last = dir.last /\ ~(MemOffset < total))
    <3>1. Preserves \in BOOLEAN
      BY Zenon DEF Preserves
    <3>2. \/ Preserves /\ F(Preserves, TRUE, total)
          \/ \E last \in dir.last..(total - 1) : F(Preserves, FALSE, last)
          \/ Preserves /\ ~(Preserves /\ MemOffset < total) /\ F(Preserves, TRUE, dir.last)
          \/ ~Preserves /\ F(Preserves, TRUE, 0)
      BY <1>2, Zenon DEF CloseBuffer
    <3>3. total \in Int /\ dir.last \in Int /\ 0 \in Int
          /\ \A last \in dir.last..(total - 1) : last \in Int
      BY <1>a
    <3> HIDE DEF F, Preserves
    <3>4. CASE Preserves /\ F(Preserves, TRUE, total)
      BY <3>1, <3>3, <3>4, Zenon
    <3>5. CASE \E last \in dir.last..(total - 1) : F(Preserves, FALSE, last)
      BY <3>1, <3>3, <3>5, Zenon
    <3>6. CASE /\ Preserves /\ ~(Preserves /\ MemOffset < total)
               /\ F(Preserves, TRUE, dir.last)
      BY <3>1, <3>3, <3>6, Zenon
    <3>7. CASE ~Preserves /\ F(Preserves, TRUE, 0)
      BY <3>1, <3>3, <3>7, Zenon
    <3> QED BY <3>2, <3>4, <3>5, <3>6, <3>7
  <2>2. ~(MemOffset < total) => dir.last = total \/ trim = total
    BY <1>a DEF MemOffset, Greater
  <2>3. /\ daemon.phase = "waiting" /\ daemon.attach = "none"
        /\ UNCHANGED <<total, trim, replay, conn, client, history>>
    BY <1>2, Zenon DEF CloseBuffer
  <2>4. /\ dir'.exists = dir.exists /\ dir'.sock = dir.sock /\ dir'.clean = dir.clean
        /\ dir.exists => dir'.last = last
    BY <1>a, <2>1 DEF Dirs
  <2>5. /\ daemon'.phase = "closed" /\ daemon'.attach = daemon.attach
        /\ daemon'.exitDelivered = daemon.exitDelivered
        /\ daemon'.shutdown = daemon.shutdown /\ daemon'.exited = daemon.exited
        /\ daemon'.preserveOnExit = daemon.preserveOnExit
        /\ daemon'.shell = daemon.shell /\ daemon'.preserve = keep /\ daemon'.flushed = ok
    BY <1>a, <2>1 DEF Daemons
  <2>6. daemon'.preserve /\ daemon'.flushed /\ dir.exists => dir'.last = total \/ trim = total
    BY <2>1, <2>2, <2>4, <2>5
  <2>7. daemon'.preserve <=> Preserves
    BY <2>1, <2>5
  <2> QED BY <2>3, <2>4, <2>5, <2>6, <2>7
<1>3. CASE Tidy
  BY <1>a, <1>3 DEF Tidy, Dirs, Daemons, Ending
<1>4. CASE MarkClean
  <2>1. PICK p \in {"marked", "gone"}, b \in BOOLEAN :
          /\ daemon' = [daemon EXCEPT !.phase = p] /\ dir' = [dir EXCEPT !.clean = b]
          /\ b <=> dir.exists /\ daemon.flushed
    <3>1. (dir.exists /\ MarksClean) \in BOOLEAN
      BY Zenon
    <3> QED BY <1>4, <3>1, Zenon DEF MarkClean, MarksClean
  <2>2. /\ daemon.phase = "tidied"
        /\ UNCHANGED <<total, trim, replay, conn, client, history>>
    BY <1>4 DEF MarkClean
  <2> QED BY <1>a, <2>1, <2>2 DEF Dirs, Daemons, Ending
<1>5. CASE MarkDiskcap
  BY <1>a, <1>5 DEF MarkDiskcap, Dirs, Daemons, Ending
<1>6. CASE RemoveDir
  BY <1>a, <1>6 DEF RemoveDir, NoDir, Daemons, Ending
<1> QED BY <1>1, <1>2, <1>3, <1>4, <1>5, <1>6, Zenon DEF Run

\* A replay daemon that ends.
LEMMA GoneFacts ==
  ASSUME replay \in [Replays -> ReplayDaemons], NEW r \in Replays, NEW f,
         f = Moved(r, "gone")
  PROVE  /\ f[r].phase = "gone"
         /\ \A q \in Replays : /\ f[q].clean = replay[q].clean
                               /\ f[q].last = replay[q].last
                               /\ f[q].delivered = replay[q].delivered
                               /\ q # r => f[q].phase = replay[q].phase
BY MovedFacts

\* A process killed.
LEMMA KillFacts ==
  ASSUME BaseInv, NEW s \in Servers, Kill(s)
  PROVE  /\ UNCHANGED <<total, trim, dir, client, cuts, spoiled>>
         /\ kills' # 0
         /\ \A t \in Servers : /\ conn'[t].cut = conn[t].cut /\ conn'[t].sent = conn[t].sent
                               /\ conn'[t].code = conn[t].code
                               /\ conn'[t].acked = conn[t].acked
                               /\ conn'[t].open => conn[t].open
         /\ daemon'.exited = daemon.exited /\ daemon'.shell = daemon.shell
         /\ daemon'.preserve = daemon.preserve /\ daemon'.flushed = daemon.flushed
         /\ daemon'.exitDelivered = daemon.exitDelivered
         /\ daemon'.shutdown = daemon.shutdown
         /\ daemon'.preserveOnExit = daemon.preserveOnExit
         /\ \/ UNCHANGED daemon
            \/ daemon'.phase = "gone" /\ daemon'.attach = "none" /\ s = Daemon
         /\ \A r \in Replays : /\ replay'[r].clean = replay[r].clean
                               /\ replay'[r].last = replay[r].last
                               /\ replay'[r].delivered = replay[r].delivered
                               /\ \/ replay'[r].phase = replay[r].phase
                                  \/ /\ replay'[r].phase = "gone"
                                     /\ replay[r].phase \notin {"none", "gone"}
<1>a. /\ daemon \in Daemons /\ conn \in [Servers -> Connections] /\ kills \in Nat
      /\ replay \in [Replays -> ReplayDaemons]
  BY Sizes, Names DEF BaseInv
<1>1. /\ UNCHANGED <<total, trim, dir, client, cuts, spoiled>> /\ conn' = Closed(s)
      /\ kills' = kills + 1
  BY DEF Kill
<1>2. CASE s = Daemon /\ daemon' = [daemon EXCEPT !.phase = "gone", !.attach = "none"]
                      /\ UNCHANGED replay
  BY <1>a, <1>1, <1>2, ClosedFacts DEF Daemons
<1>3. CASE /\ s \in Replays /\ replay[s].phase \notin {"none", "gone"}
           /\ replay' = Moved(s, "gone") /\ UNCHANGED daemon
  <2>1. /\ replay'[s].phase = "gone"
        /\ \A q \in Replays : /\ replay'[q].clean = replay[q].clean
                              /\ replay'[q].last = replay[q].last
                              /\ replay'[q].delivered = replay[q].delivered
                              /\ q # s => replay'[q].phase = replay[q].phase
    BY <1>a, <1>3, GoneFacts
  <2> QED BY <1>a, <1>1, <1>3, <2>1, ClosedFacts
<1> QED BY <1>2, <1>3, Zenon DEF Kill, Moved

\* A replay daemon that gives up.
LEMMA GivesUpFacts ==
  ASSUME BaseInv, NEW r \in Replays, GivesUp(r)
  PROVE  /\ UNCHANGED <<total, trim, daemon, client, cuts, kills>> /\ spoiled'
         /\ ~dir'.exists /\ dir'.sock = NoOne /\ ~dir'.clean
         /\ \A t \in Servers : /\ conn'[t].cut = conn[t].cut /\ conn'[t].sent = conn[t].sent
                               /\ conn'[t].code = conn[t].code
                               /\ conn'[t].acked = conn[t].acked
                               /\ conn'[t].open => conn[t].open
         /\ replay'[r].phase = "gone"
         /\ \A q \in Replays : /\ replay'[q].clean = replay[q].clean
                               /\ replay'[q].last = replay[q].last
                               /\ replay'[q].delivered = replay[q].delivered
                               /\ q # r => replay'[q].phase = replay[q].phase
<1>a. /\ conn \in [Servers -> Connections] /\ r \in Servers
      /\ replay \in [Replays -> ReplayDaemons]
  BY Sizes, Names
<1>1. /\ UNCHANGED <<total, trim, daemon, client, cuts, kills>> /\ spoiled'
      /\ dir' = NoDir /\ conn' = Closed(r) /\ replay' = Moved(r, "gone")
  BY DEF GivesUp
<1>2. /\ replay'[r].phase = "gone"
      /\ \A q \in Replays : /\ replay'[q].clean = replay[q].clean
                            /\ replay'[q].last = replay[q].last
                            /\ replay'[q].delivered = replay[q].delivered
                            /\ q # r => replay'[q].phase = replay[q].phase
  BY <1>a, <1>1, GoneFacts
<1>3. ~NoDir.exists /\ NoDir.sock = NoOne /\ ~NoDir.clean
  BY DEF NoDir
<1> QED BY <1>a, <1>1, <1>2, <1>3, ClosedFacts

\* Run.
LEMMA EndRun ==
  ASSUME BaseInv, EndInv, Run
  PROVE  EndInv'
<1> USE DEF EndInv
<1>a. /\ total \in Nat /\ trim \in Nat /\ NoOne # Daemon /\ Daemon \notin Replays
      /\ UNCHANGED <<total, trim, replay, conn, client>>
  BY Sizes, Names, RunFacts DEF NoOne, Daemon
<1>1. DaemonOK'
  BY <1>a, RunFacts DEF DaemonOK, Ending
<1>2. WaitOK'
  BY <1>a DEF WaitOK, Connected
<1>3. DirOK'
  BY <1>a, RunFacts DEF DirOK, DaemonOK, Ending, Covered
<1>4. ReplayOK'
  <2>1. CASE daemon.phase \in {"marked", "gone"}
    <3>1. daemon'.phase \in {"marked", "gone"}
      BY <2>1, RunFacts DEF Ending
    <3>2. dir'.last = dir.last /\ dir'.exists = dir.exists
      BY <2>1, RunFacts DEF Ending
    <3> QED BY <1>a, <3>1, <3>2 DEF ReplayOK, Covered
  <2>2. CASE daemon.phase \notin {"marked", "gone"}
    BY <1>a, <2>2 DEF ReplayOK
  <2> QED BY <2>1, <2>2
<1>5. CodeOK'
  <2>1. Frozen => Frozen'
    BY RunFacts DEF Frozen, Running, Ending
  <2> QED BY <1>a, <2>1 DEF CodeOK, Covered
<1> QED BY <1>1, <1>2, <1>3, <1>4, <1>5

\* A kill.
LEMMA EndKill ==
  ASSUME BaseInv, EndInv, NEW s \in Servers, Kill(s)
  PROVE  EndInv'
<1> USE DEF EndInv
<1>a. /\ UNCHANGED <<total, trim, dir, client>>
      /\ Connected => client.server \in Servers
      /\ Replays \subseteq Servers
  BY Sizes, Names, KillFacts
<1>1. DaemonOK'
  BY <1>a, KillFacts DEF DaemonOK, Ending
<1>2. WaitOK'
  BY <1>a, KillFacts DEF WaitOK, Connected, Early
<1>3. DirOK'
  BY <1>a, KillFacts DEF DirOK, Covered
<1>4. ReplayOK'
  BY <1>a, KillFacts DEF ReplayOK, Covered
<1>5. CodeOK'
  <2>1. Frozen => Frozen'
    BY KillFacts DEF Frozen, Running
  <2> QED BY <1>a, <2>1, KillFacts DEF CodeOK, Covered
<1> QED BY <1>1, <1>2, <1>3, <1>4, <1>5

\* A replay daemon that gives up: nobody is connected to it, or about to be.
LEMMA EndGivesUp ==
  ASSUME BaseInv, EndInv, NEW r \in Replays, AcceptTimeout(r) \/ ReplayHandshakeFails(r)
  PROVE  EndInv'
<1> USE DEF EndInv
<1>a. /\ UNCHANGED <<total, trim, daemon, client>>
      /\ Connected => client.server \in Servers
      /\ Replays \subseteq Servers
      /\ NoOne # Daemon /\ GivesUp(r)
  BY Sizes, Names, GivesUpFacts DEF AcceptTimeout, ReplayHandshakeFails, NoOne, Daemon
<1>b. replay[r].phase = "listen" \/ (replay[r].phase = "hello" /\ conn[r].cut)
  BY DEF AcceptTimeout, ReplayHandshakeFails, Fails
<1>c. client.phase \notin {"idle", "hello", "live"}
  BY <1>b DEF WaitOK, Early, Connected
<1>1. DaemonOK'
  BY <1>a, <1>b, GivesUpFacts DEF DaemonOK
<1>2. WaitOK'
  BY <1>a, <1>b, GivesUpFacts DEF WaitOK, Connected, Early
<1>3. DirOK'
  BY <1>a, <1>c, GivesUpFacts DEF DirOK
<1>4. ReplayOK'
  BY <1>a, GivesUpFacts DEF ReplayOK, Covered
<1>5. CodeOK'
  BY <1>a, GivesUpFacts DEF CodeOK, Covered, Frozen, Running
<1> QED BY <1>1, <1>2, <1>3, <1>4, <1>5

\* A replay daemon, step by step.
LEMMA ReplayFacts ==
  ASSUME BaseInv, NEW r \in Replays, ReplayRun(r), ~ReplayHandshakeFails(r)
  PROVE  /\ UNCHANGED <<total, trim, daemon, client, cuts, kills>>
         /\ \A q \in Replays \ {r} : replay'[q] = replay[q]
         /\ \A t \in Servers : /\ conn'[t].cut = conn[t].cut
                               /\ conn'[t].open => conn[t].open
                               /\ t # r => conn'[t] = conn[t]
         /\ \/ /\ replay[r].phase \in {"start", "bind"} /\ replay'[r].phase = "gone"
               /\ replay'[r].clean = replay[r].clean /\ replay'[r].last = replay[r].last
               /\ replay'[r].delivered = replay[r].delivered
               /\ UNCHANGED <<dir, conn, spoiled>>
            \/ /\ replay[r].phase = "start" /\ replay'[r].phase = "scan" /\ dir.exists
               /\ replay'[r].clean = dir.clean /\ replay'[r].last = replay[r].last
               /\ replay'[r].delivered = replay[r].delivered
               /\ UNCHANGED <<dir, conn, spoiled>>
            \/ /\ replay[r].phase = "scan" /\ replay'[r].phase = "bind"
               /\ replay'[r].clean = replay[r].clean /\ replay'[r].last = dir.last
               /\ replay'[r].delivered = replay[r].delivered
               /\ UNCHANGED <<dir, conn, spoiled>>
            \/ /\ replay[r].phase = "bind" /\ replay'[r].phase = "listen" /\ dir.exists
               /\ replay'[r].clean = replay[r].clean /\ replay'[r].last = replay[r].last
               /\ replay'[r].delivered = replay[r].delivered
               /\ dir'.sock = r /\ dir'.exists /\ dir'.clean = dir.clean
               /\ dir'.last = dir.last
               /\ UNCHANGED <<conn, spoiled>>
            \/ /\ replay[r].phase = "hello"
               /\ replay'[r].phase \in {"stream", "refuse"}
               /\ replay'[r].phase = "stream" => replay[r].clean
               /\ replay'[r].clean = replay[r].clean /\ replay'[r].last = replay[r].last
               /\ replay'[r].delivered = replay[r].delivered
               /\ conn'[r].sent = conn[r].sent /\ conn'[r].code = conn[r].code
               /\ UNCHANGED <<dir, spoiled>>
            \/ /\ replay[r].phase = "stream" /\ conn[r].sent < replay[r].last
               /\ conn'[r].sent = conn[r].sent + 1 /\ conn'[r].code = conn[r].code
               /\ conn[r].open
               /\ UNCHANGED <<replay, dir, spoiled>>
            \/ /\ replay[r].phase \in {"stream", "refuse"} /\ replay'[r].phase = "cleanup"
               /\ replay'[r].clean = replay[r].clean /\ replay'[r].last = replay[r].last
               /\ ~conn'[r].open /\ conn'[r].sent = conn[r].sent /\ UNCHANGED dir
               /\ conn[r].open
               /\ \/ /\ conn'[r].code \in {1, 130, 133, 134}
                     /\ conn'[r].code \in {133, 134} =>
                          replay[r].phase = "stream" /\ conn[r].sent >= replay[r].last
                     /\ replay'[r].delivered <=> conn'[r].code \in {133, 134}
                     /\ spoiled' = (spoiled \/ conn[r].cut)
                  \/ /\ conn'[r].code = conn[r].code /\ UNCHANGED spoiled
                     /\ replay'[r].delivered = replay[r].delivered
            \/ /\ replay[r].phase = "cleanup" /\ replay'[r].phase = "gone"
               /\ replay'[r].clean = replay[r].clean /\ replay'[r].last = replay[r].last
               /\ replay'[r].delivered = replay[r].delivered
               /\ UNCHANGED <<conn, spoiled>>
               /\ \/ UNCHANGED dir
                  \/ /\ replay[r].delivered
                     /\ ~dir'.exists /\ dir'.sock = NoOne /\ ~dir'.clean
<1>a. /\ dir \in Dirs /\ r \in Servers
      /\ replay \in [Replays -> ReplayDaemons] /\ conn \in [Servers -> Connections]
  BY Sizes, Names
<1>b. UNCHANGED <<total, trim, daemon, client, cuts, kills>>
  BY Zenon DEF ReplayRun, ReplayStarts, ReplayScans, ReplayListens, ReplayHello,
    ReplayStreams, ReplayExits, ReplayCleansUp, history
<1>1. CASE ReplayStarts(r) /\ dir.exists
  <2>1. replay[r].phase = "start" /\ UNCHANGED <<dir, conn, spoiled>>
    BY <1>1, Zenon DEF ReplayStarts, history
  <2> QED BY <1>a, <1>b, <1>1, <2>1, StartsFacts
<1>2. CASE ReplayStarts(r) /\ ~dir.exists
  <2>1. /\ replay[r].phase = "start" /\ UNCHANGED <<dir, conn, spoiled>>
        /\ replay' = Moved(r, "gone")
    BY <1>2, Zenon DEF ReplayStarts, history
  <2> QED BY <1>a, <1>b, <2>1, MovedFacts
<1>3. CASE ReplayScans(r)
  <2>1. replay[r].phase = "scan" /\ UNCHANGED <<dir, conn, spoiled>>
    BY <1>3, Zenon DEF ReplayScans, history
  <2> QED BY <1>a, <1>b, <1>3, <2>1, ScansFacts
<1>4. CASE ReplayListens(r)
  <2>1. /\ replay[r].phase = "bind" /\ UNCHANGED <<conn, spoiled>>
        /\ \/ /\ dir.exists /\ dir' = [dir EXCEPT !.sock = r]
              /\ replay' = Moved(r, "listen")
           \/ replay' = Moved(r, "gone") /\ UNCHANGED dir
    BY <1>4, Zenon DEF ReplayListens, history
  <2>2. CASE replay' = Moved(r, "gone") /\ UNCHANGED dir
    BY <1>a, <1>b, <2>1, <2>2, MovedFacts
  <2>3. CASE /\ dir.exists /\ dir' = [dir EXCEPT !.sock = r]
             /\ replay' = Moved(r, "listen")
    <3>1. dir'.sock = r /\ dir'.exists /\ dir'.clean = dir.clean /\ dir'.last = dir.last
      BY <1>a, <2>3 DEF Dirs
    <3> QED BY <1>a, <1>b, <2>1, <2>3, <3>1, MovedFacts
  <2> QED BY <2>1, <2>2, <2>3
<1>5. CASE ReplayHello(r)
  <2>1. PICK p \in {"stream", "refuse"} :
          /\ replay[r].phase = "hello" /\ UNCHANGED <<dir, spoiled>>
          /\ replay' = Moved(r, p)
          /\ p = "stream" => replay[r].clean
          /\ conn' = [conn EXCEPT ![r] = [conn[r] EXCEPT !.acked = TRUE]]
    BY <1>5, Zenon DEF ReplayHello, history
  <2>2. /\ \A t \in Servers : /\ conn'[t].cut = conn[t].cut
                              /\ conn'[t].open => conn[t].open
                              /\ t # r => conn'[t] = conn[t]
        /\ conn'[r].sent = conn[r].sent /\ conn'[r].code = conn[r].code
    BY <1>a, <2>1 DEF Connections
  <2>3. /\ replay'[r].phase = p
        /\ \A q \in Replays : /\ replay'[q].clean = replay[q].clean
                              /\ replay'[q].last = replay[q].last
                              /\ replay'[q].delivered = replay[q].delivered
                              /\ q # r => replay'[q] = replay[q]
    <3>1. p \in {"start", "listen", "hello", "stream", "refuse", "cleanup", "gone"}
      BY <2>1
    <3>2. replay' = Moved(r, p) /\ replay \in [Replays -> ReplayDaemons]
      BY <1>a, <2>1
    <3> QED BY <3>1, <3>2, MovedFacts
  <2>4. /\ replay[r].phase = "hello" /\ UNCHANGED <<dir, spoiled>>
        /\ replay'[r].phase \in {"stream", "refuse"}
        /\ replay'[r].phase = "stream" => replay[r].clean
    BY <2>1, <2>3
  <2> QED BY <1>b, <2>2, <2>3, <2>4
<1>6. CASE ReplayStreams(r)
  <2>1. /\ replay[r].phase = "stream" /\ conn[r].sent < replay[r].last /\ conn[r].open
        /\ UNCHANGED <<replay, dir, spoiled>>
        /\ conn' = [conn EXCEPT ![r] = [conn[r] EXCEPT !.sent = conn[r].sent + 1]]
    BY <1>6, Zenon DEF ReplayStreams, history, Writes
  <2>2. /\ \A t \in Servers : /\ conn'[t].cut = conn[t].cut
                              /\ conn'[t].open => conn[t].open
                              /\ t # r => conn'[t] = conn[t]
        /\ conn'[r].sent = conn[r].sent + 1 /\ conn'[r].code = conn[r].code
    BY <1>a, <2>1 DEF Connections
  <2> QED BY <1>a, <1>b, <2>1, <2>2
<1>7. CASE ReplayExits(r)
  <2>1. UNCHANGED dir
    BY <1>7, Zenon DEF ReplayExits
  <2>2. PICK code \in {1, 130, 133, 134} :
         /\ MaySend(r, code)
         /\ \/ /\ conn' = Told(r, code) /\ spoiled' = (spoiled \/ conn[r].cut)
               /\ replay'[r].delivered <=> code \in {133, 134}
            \/ /\ conn' = Closed(r) /\ UNCHANGED spoiled
               /\ replay'[r].delivered = replay[r].delivered
    BY <1>a, <1>7, ExitsFacts
  <2>3. /\ replay'[r].phase = "cleanup" /\ replay'[r].clean = replay[r].clean
        /\ replay'[r].last = replay[r].last /\ conn[r].open
        /\ \A q \in Replays \ {r} : replay'[q] = replay[q]
    BY <1>a, <1>7, ExitsFacts
  <2>4. /\ replay[r].phase \in {"stream", "refuse"}
        /\ code \in {133, 134} => replay[r].phase = "stream" /\ conn[r].sent >= replay[r].last
    BY <2>2 DEF MaySend
  <2>5. CASE /\ conn' = Told(r, code) /\ spoiled' = (spoiled \/ conn[r].cut)
             /\ replay'[r].delivered <=> code \in {133, 134}
    <3>1. code \in Codes
      BY DEF Codes
    <3>2. /\ \A t \in Servers : /\ conn'[t].cut = conn[t].cut
                                /\ t # r => conn'[t] = conn[t]
          /\ conn'[r].sent = conn[r].sent /\ conn'[r].code = code /\ ~conn'[r].open
      BY <1>a, <2>5, <3>1, ToldFacts
    <3> QED BY <1>b, <2>1, <2>3, <2>4, <2>5, <3>2
  <2>6. CASE /\ conn' = Closed(r) /\ UNCHANGED spoiled
             /\ replay'[r].delivered = replay[r].delivered
    <3>2. /\ \A t \in Servers : /\ conn'[t].cut = conn[t].cut
                                /\ t # r => conn'[t] = conn[t]
          /\ conn'[r].sent = conn[r].sent /\ conn'[r].code = conn[r].code /\ ~conn'[r].open
      BY <1>a, <2>6, ClosedFacts
    <3> QED BY <1>b, <2>1, <2>3, <2>4, <2>6, <3>2
  <2> QED BY <2>2, <2>5, <2>6
<1>8. CASE ReplayCleansUp(r)
  <2>1. /\ replay[r].phase = "cleanup" /\ replay' = Moved(r, "gone")
        /\ UNCHANGED <<conn, spoiled>>
        /\ (UNCHANGED dir) \/ (replay[r].delivered /\ dir' = NoDir)
    BY <1>8, Zenon DEF ReplayCleansUp, Served, history
  <2>2. ~NoDir.exists /\ NoDir.sock = NoOne /\ ~NoDir.clean
    BY DEF NoDir
  <2> QED BY <1>a, <1>b, <2>1, <2>2, MovedFacts
<1> QED
  BY <1>1, <1>2, <1>3, <1>4, <1>5, <1>6, <1>7, <1>8, Zenon DEF ReplayRun

\* A replay daemon that reads the markers, scans, listens, serves and cleans up.
LEMMA EndReplay ==
  ASSUME BaseInv, EndInv, NEW r \in Replays, ReplayRun(r), ~ReplayHandshakeFails(r)
  PROVE  EndInv'
<1> USE DEF EndInv
<1>a. /\ UNCHANGED <<total, trim, daemon, client>>
      /\ Connected => client.server \in Servers
      /\ Replays \subseteq Servers /\ r \in Servers
      /\ NoOne # Daemon /\ r # Daemon
      /\ total \in Nat /\ trim \in Nat
      /\ \A q \in Replays : replay[q].last \in Nat /\ replay[q].last <= total
      /\ \A t \in Servers : conn[t].sent \in Nat /\ conn[t].sent <= total
  BY Sizes, Names, ReplayFacts DEF NoOne, Daemon
<1>b. /\ \A q \in Replays \ {r} : replay'[q] = replay[q]
      /\ \A t \in Servers : /\ conn'[t].cut = conn[t].cut
                            /\ t # r => conn'[t] = conn[t]
  BY ReplayFacts
<1>1. DaemonOK'
  BY <1>a, ReplayFacts DEF DaemonOK
<1>2. WaitOK'
  BY <1>a, <1>b, ReplayFacts DEF WaitOK, Connected, Early
<1>3. DirOK'
  BY <1>a, ReplayFacts DEF DirOK, ReplayOK, Covered
<1>4. ReplayOK'
  <2>1. \A last : Covered(last)' <=> Covered(last)
    BY <1>a DEF Covered
  <2>2. /\ dir.clean => daemon.phase \in {"marked", "gone"} /\ Covered(dir.last)
        /\ (dir'.exists = dir.exists /\ dir'.last = dir.last) \/ ~dir'.exists
    BY <1>a, ReplayFacts DEF DirOK
  <2>3. ASSUME NEW q \in Replays
        PROVE  /\ replay'[q].clean => daemon.phase \in {"marked", "gone"}
               /\ replay'[q].delivered => replay'[q].clean
               /\ replay'[q].phase \in {"none", "start"} => ~replay'[q].clean
               /\ replay'[q].phase = "stream" => replay'[q].clean
               /\ replay'[q].clean /\ replay'[q].phase = "scan"
                    => Covered(dir'.last) \/ ~dir'.exists
               /\ replay'[q].clean /\ replay'[q].phase = "bind"
                    => Covered(replay'[q].last) \/ ~dir'.exists
               /\ replay'[q].clean /\ replay'[q].phase \in {"listen", "hello", "stream"} =>
                    Covered(replay'[q].last)
    <3>1. CASE q = r
      BY <2>2, <3>1, ReplayFacts DEF ReplayOK
    <3>2. CASE q # r
      BY <1>b, <2>2, <3>2 DEF ReplayOK
    <3> QED BY <3>1, <3>2
  <2> QED BY <1>a, <2>1, <2>3 DEF ReplayOK
<1>5. CodeOK'
  <2>1. replay[r].clean => Frozen
    BY DEF ReplayOK, DaemonOK, Frozen, Running, Ending
  <2>2. ASSUME conn'[r].code \in GoodCodes
        PROVE  Frozen /\ Covered(conn'[r].sent)
    <3>1. CASE conn'[r].code = conn[r].code
      BY <1>a, <2>2, <3>1, ReplayFacts DEF CodeOK, Covered
    <3>2. CASE conn'[r].code # conn[r].code
      <4>1. /\ replay[r].phase = "stream" /\ conn[r].sent >= replay[r].last
            /\ conn'[r].sent = conn[r].sent
        BY <2>2, <3>2, ReplayFacts DEF GoodCodes, ShellCode
      <4>2. replay[r].clean /\ Covered(replay[r].last)
        BY <4>1 DEF ReplayOK
      <4> QED BY <1>a, <2>1, <4>1, <4>2 DEF Covered
    <3> QED BY <3>1, <3>2
  <2>3. Frozen' = Frozen
    BY <1>a DEF Frozen, Running
  <2> QED BY <1>a, <1>b, <2>2, <2>3 DEF CodeOK, Covered
<1> QED BY <1>1, <1>2, <1>3, <1>4, <1>5

\* A client that gets through, to the daemon or to the replay daemon it waits for.
LEMMA EndDial ==
  ASSUME BaseInv, EndInv, NEW s \in Servers, Dial(s)
  PROVE  EndInv'
<1> USE DEF EndInv
<1>a. /\ UNCHANGED <<total, trim>>
      /\ client'.phase = "hello" /\ client'.server = s
      /\ client'.shown = client.shown /\ client'.code = client.code
      /\ client.phase \in {"idle", "spawned"} /\ Listens(s)
      /\ conn'[s].open /\ ~conn'[s].cut /\ ~conn'[s].acked
      /\ conn'[s].sent = client.shown /\ conn'[s].code = NoCode
      /\ \A t \in Servers \ {s} : conn'[t] = conn[t]
  BY DialFacts
<1>b. /\ Replays \subseteq Servers /\ Daemon \notin Replays /\ NoOne \notin Servers
      /\ Daemon \in Servers /\ NoOne # Daemon
      /\ replay \in [Replays -> ReplayDaemons] /\ dir \in Dirs /\ daemon \in Daemons
  BY Sizes, Names
<1>c. NoCode \notin GoodCodes
  BY DEF NoCode, GoodCodes, ShellCode
<1>1. CASE s = Daemon
  <2>1. UNCHANGED <<replay, dir>> /\ daemon.phase = "serving"
    BY <1>a, <1>1, DialFacts DEF Listens
  <2>2. /\ daemon'.phase = daemon.phase /\ daemon'.exited = daemon.exited
        /\ daemon'.shell = daemon.shell /\ daemon'.preserve = daemon.preserve
        /\ daemon'.flushed = daemon.flushed /\ daemon'.attach = "hello"
    BY <1>b, <1>1, DialFacts DEF Daemons
  <2>3. DaemonOK'
    BY <2>1, <2>2 DEF DaemonOK, Ending
  <2>4. WaitOK'
    BY <1>a, <1>b, <1>1, <2>1 DEF WaitOK, DaemonOK, Connected, Early
  <2>5. DirOK' /\ ReplayOK'
    BY <1>a, <2>1, <2>2 DEF DirOK, ReplayOK, DaemonOK, Covered
  <2>6. CodeOK'
    BY <1>a, <1>c, <2>2 DEF CodeOK, Covered, Frozen, Running
  <2> QED BY <2>3, <2>4, <2>5, <2>6
<1>2. CASE s # Daemon
  <2>1. /\ s \in Replays /\ replay' = Moved(s, "hello") /\ replay[s].phase = "listen"
        /\ UNCHANGED daemon /\ dir.sock = s
    BY <1>a, <1>2, DialFacts DEF Listens
  <2>2. /\ dir'.sock = NoOne /\ dir'.exists = dir.exists /\ dir'.clean = dir.clean
        /\ dir'.last = dir.last
    BY <1>b, <1>2, DialFacts DEF Dirs
  <2>3. /\ replay'[s].phase = "hello"
        /\ \A q \in Replays : /\ replay'[q].clean = replay[q].clean
                              /\ replay'[q].last = replay[q].last
                              /\ replay'[q].delivered = replay[q].delivered
                              /\ q # s => replay'[q] = replay[q]
    BY <1>b, <2>1, MovedFacts
  <2>4. DaemonOK'
    BY <1>b, <2>1, <2>2 DEF DaemonOK
  <2>5. WaitOK'
    BY <1>a, <1>b, <2>1, <2>3 DEF WaitOK, Connected, Early
  <2>6. DirOK'
    BY <1>a, <1>b, <2>1, <2>2 DEF DirOK, Covered
  <2>7. ReplayOK'
    BY <1>a, <2>1, <2>2, <2>3 DEF ReplayOK, Covered
  <2>8. CodeOK'
    BY <1>a, <1>c, <2>1 DEF CodeOK, Covered, Frozen, Running
  <2> QED BY <2>4, <2>5, <2>6, <2>7, <2>8
<1> QED BY <1>1, <1>2

\* A client that gets nowhere: a replay daemon is spawned, or nothing is left.
LEMMA EndSpawn ==
  ASSUME BaseInv, EndInv, SpawnReplay \/ NothingLeft \/ SpawnFails
  PROVE  EndInv'
<1> USE DEF EndInv
<1>a. /\ client \in Clients /\ dir \in Dirs /\ replay \in [Replays -> ReplayDaemons]
      /\ Daemon \in Servers /\ NoOne # Daemon
  BY Sizes, Names
<1>b. 136 \notin GoodCodes
  BY DEF GoodCodes, ShellCode
<1>1. CASE SpawnReplay
  <2>1. /\ UNCHANGED <<total, trim, dir, daemon, conn>>
        /\ DialFails /\ client.phase = "idle" /\ client'.phase = "spawned"
        /\ client'.shown = client.shown /\ client'.code = client.code
    BY <1>1, SpawnFacts
  <2>2. PICK r \in Replays : replay[r].phase = "none" /\ replay' = Moved(r, "start")
    BY <1>1, SpawnFacts
  <2>3. /\ replay'[r].phase = "start"
        /\ \A q \in Replays : /\ replay'[q].clean = replay[q].clean
                              /\ replay'[q].last = replay[q].last
                              /\ replay'[q].delivered = replay[q].delivered
                              /\ q # r => replay'[q] = replay[q]
    BY <1>a, <2>2, MovedFacts
  <2>4. daemon.phase # "serving"
    BY <1>a, <2>1 DEF DialFails, Listens, DaemonOK
  <2>5. DaemonOK'
    BY <2>1, <2>4 DEF DaemonOK
  <2>6. WaitOK'
    BY <2>1, <2>3 DEF WaitOK, Connected, Early
  <2>7. DirOK'
    BY <2>1 DEF DirOK, Covered
  <2>8. ReplayOK'
    BY <2>1, <2>2, <2>3 DEF ReplayOK, Covered
  <2>9. CodeOK'
    BY <2>1 DEF CodeOK, Covered, Frozen, Running
  <2> QED BY <2>5, <2>6, <2>7, <2>8, <2>9
<1>2. CASE NothingLeft
  <2>1. /\ UNCHANGED <<total, trim, daemon, replay, conn>>
        /\ DialFails /\ client.phase = "idle" /\ client'.phase = "exited"
        /\ client'.code = 136
        /\ dir'.exists /\ dir'.sock = dir.sock /\ dir'.clean = dir.clean
        /\ dir'.last = dir.last
    BY <1>2, <1>a DEF NothingLeft, DialFails, Clients, Dirs
  <2>5. DaemonOK'
    BY <2>1 DEF DaemonOK
  <2>6. WaitOK'
    BY <2>1 DEF WaitOK, Connected, Early
  <2>7. DirOK'
    BY <2>1 DEF DirOK, Covered
  <2>8. ReplayOK'
    BY <2>1 DEF ReplayOK, Covered, WaitOK, Early
  <2>9. CodeOK'
    BY <1>b, <2>1 DEF CodeOK, Covered, Frozen, Running
  <2> QED BY <2>5, <2>6, <2>7, <2>8, <2>9
<1>3. CASE SpawnFails
  <2>1. /\ UNCHANGED <<total, trim, dir, daemon, replay, conn>>
        /\ client'.phase = "failed"
        /\ client'.shown = client.shown /\ client'.code = client.code
    BY <1>3, <1>a DEF SpawnFails, Clients
  <2>2. DaemonOK' /\ WaitOK'
    BY <2>1 DEF DaemonOK, WaitOK, Connected
  <2>3. DirOK' /\ ReplayOK' /\ CodeOK'
    BY <2>1 DEF DirOK, ReplayOK, CodeOK, Covered, Frozen, Running
  <2> QED BY <2>2, <2>3
<1> QED BY <1>1, <1>2, <1>3

\* What a client reads from its connection, and what it makes of the end of it.
LEMMA EndReceive ==
  ASSUME BaseInv, EndInv, RecvHelloAck \/ RecvOutput \/ RecvExit \/ RecvEOF
  PROVE  EndInv'
<1> USE DEF EndInv
<1>a. /\ client \in Clients /\ client.shown \in Nat /\ total \in Nat /\ trim \in Nat
      /\ trim <= client.shown /\ client.shown <= total
      /\ \A s \in Servers : conn[s].sent \in Nat /\ conn[s].sent <= total
      /\ Connected => client.server \in Servers
      /\ UNCHANGED <<total, trim, dir, daemon, replay, conn>>
  BY Sizes DEF RecvHelloAck, RecvOutput, RecvExit, RecvEOF
<1>b. DaemonOK' /\ ReplayOK' /\ Frozen' = Frozen
  BY <1>a DEF DaemonOK, ReplayOK, Covered, Frozen, Running
<1>1. CASE RecvHelloAck
  <2>1. /\ client.phase = "hello" /\ client'.phase = "live" /\ conn[client.server].acked
        /\ client'.server = client.server /\ client'.shown = client.shown
        /\ client'.code = client.code
    BY <1>1, <1>a DEF RecvHelloAck, Line, Clients
  <2>2. WaitOK'
    BY <1>a, <2>1 DEF WaitOK, Connected
  <2>3. DirOK' /\ CodeOK'
    BY <1>a, <1>b, <2>1 DEF DirOK, CodeOK, Covered
  <2> QED BY <1>b, <2>2, <2>3
<1>2. CASE RecvOutput
  <2>1. /\ client.phase = "live" /\ client'.phase = "live"
        /\ client'.server = client.server /\ client'.shown = conn[client.server].sent
        /\ conn[client.server].sent > client.shown /\ client'.code = client.code
    BY <1>2, <1>a DEF RecvOutput, Line, Clients
  <2>2. WaitOK'
    BY <1>a, <2>1 DEF WaitOK, Connected
  <2>3. DirOK' /\ CodeOK'
    BY <1>a, <1>b, <2>1 DEF DirOK, CodeOK, Covered, Connected
  <2> QED BY <1>b, <2>2, <2>3
<1>3. CASE RecvExit
  <2>1. /\ client.phase = "live" /\ client'.phase = "exited"
        /\ client'.shown = client.shown /\ client'.code = conn[client.server].code
        /\ conn[client.server].sent <= client.shown
    BY <1>3, <1>a DEF RecvExit, Line, Clients
  <2>2. WaitOK'
    BY <1>a, <2>1 DEF WaitOK, Connected
  <2>3. DirOK' /\ CodeOK'
    BY <1>a, <1>b, <2>1 DEF DirOK, CodeOK, Covered, Connected
  <2> QED BY <1>b, <2>2, <2>3
<1>4. CASE RecvEOF
  <2>1. /\ Connected /\ client'.phase \in {"idle", "failed"}
        /\ client'.phase = "idle" => client.phase = "live"
        /\ client'.shown = client.shown /\ client'.code = client.code
    BY <1>4, <1>a, RetriedFacts DEF RecvEOF, Connected
  <2>2. WaitOK'
    BY <1>a, <2>1 DEF WaitOK, Connected
  <2>3. DirOK' /\ CodeOK'
    BY <1>a, <1>b, <2>1 DEF DirOK, CodeOK, Covered
  <2> QED BY <1>b, <2>2, <2>3
<1> QED BY <1>1, <1>2, <1>3, <1>4

\* The network and the user.
LEMMA EndCut ==
  ASSUME BaseInv, EndInv, Cut \/ Abort
  PROVE  EndInv'
<1> USE DEF EndInv
<1>1. /\ UNCHANGED <<total, trim, dir, replay>>
      /\ client'.phase \in {"idle", "failed", "aborted"}
      /\ client'.phase = "idle" => client.phase = "live"
      /\ client'.shown = client.shown /\ client'.code = client.code
      /\ \A t \in Servers : /\ conn'[t].acked = conn[t].acked
                            /\ conn'[t].sent = conn[t].sent
                            /\ conn'[t].code = conn[t].code
  BY CutFacts
<1>2. /\ daemon'.phase = daemon.phase /\ daemon'.attach = daemon.attach
      /\ daemon'.shell = daemon.shell /\ daemon'.exited = daemon.exited
      /\ daemon'.preserve = daemon.preserve /\ daemon'.flushed = daemon.flushed
  BY Sizes, CutFacts DEF Daemons
<1>3. DaemonOK' /\ Frozen' = Frozen
  BY <1>1, <1>2 DEF DaemonOK, Frozen, Running
<1>4. WaitOK'
  BY <1>1, Names DEF WaitOK, Connected
<1>5. DirOK' /\ ReplayOK'
  BY <1>1, <1>2 DEF DirOK, ReplayOK, Covered
<1>6. CodeOK'
  BY <1>1, <1>3 DEF CodeOK, Covered
<1> QED BY <1>3, <1>4, <1>5, <1>6

\* To begin with the daemon serves, and nothing has been left in the directory.
LEMMA EndInit ==
  ASSUME Init
  PROVE  EndInv
<1>1. /\ dir.exists /\ dir.sock = Daemon /\ ~dir.clean
      /\ daemon.phase = "serving" /\ daemon.attach = "live" /\ ~daemon.exited
      /\ client.phase = "live" /\ client.server = Daemon /\ client.code = NoCode
  BY DEF Init, NoDir
<1>2. \A r \in Replays : /\ replay[r].phase = "none" /\ ~replay[r].clean
                         /\ ~replay[r].delivered
  BY DEF Init
<1>3. \A s \in Servers : conn[s].code = NoCode /\ ~conn[s].cut
  BY DEF Init, NoConn
<1>4. NoCode \notin GoodCodes /\ Daemon \in Servers
  BY Names DEF GoodCodes, NoCode, ShellCode
<1>5. DaemonOK /\ DirOK
  BY <1>1, <1>2 DEF DaemonOK, DirOK, Ending
<1>6. WaitOK
  BY <1>1, <1>2, <1>3, <1>4 DEF WaitOK, Connected, Early
<1>7. ReplayOK /\ CodeOK
  BY <1>1, <1>2, <1>3, <1>4 DEF ReplayOK, CodeOK
<1> QED BY <1>5, <1>6, <1>7 DEF EndInv

\* No step breaks it.
LEMMA EndStep ==
  ASSUME BaseInv, EndInv, [Next]_vars
  PROVE  EndInv'
<1>1. CASE Output \/ ReadAck \/ ShellExits \/ Signal \/ DiskCap
  BY <1>1, EndStream
<1>2. CASE \E r \in Replays : ReplayRun(r) \/ AcceptTimeout(r)
  BY <1>2, EndReplay, EndGivesUp
<1>3. CASE Client
  BY <1>3, EndDial, EndSpawn, EndReceive DEF Client
<1>4. CASE vars' = vars
  BY <1>4 DEF vars, EndInv, DaemonOK, WaitOK, DirOK, ReplayOK, CodeOK, Connected, Frozen,
    Running, Covered
<1> QED
  BY <1>1, <1>2, <1>3, <1>4, EndAttach, EndRun, EndKill, EndCut DEF Next

\* The invariant holds in every behaviour.
LEMMA EndAlways == Spec => [](BaseInv /\ EndInv)
<1>1. Init => BaseInv /\ EndInv
  BY BaseInit, EndInit
<1>2. BaseInv /\ EndInv /\ [Next]_vars => BaseInv' /\ EndInv'
  BY BaseStep, EndStep
<1> QED BY <1>1, <1>2, PTL DEF Spec

\* CleanIsComplete: as long as the clean marker is there, every byte that is not
\* acknowledged is in the segment files.
THEOREM MarkerTellsTruth == Spec => []CleanIsComplete
<1>1. BaseInv /\ EndInv => CleanIsComplete
  BY DEF EndInv, DirOK, Covered, CleanIsComplete
<1> QED BY <1>1, EndAlways, PTL

\* ExitTellsAll: a client that exits with a code that says it has everything has
\* been shown everything.
THEOREM CodeTellsTruth == Spec => []ExitTellsAll
<1>1. BaseInv /\ EndInv => ExitTellsAll
  BY DEF EndInv, CodeOK, GoodCodes, ExitTellsAll
<1> QED BY <1>1, EndAlways, PTL

-----------------------------------------------------------------------------
(* What was not shown is kept: each step keeps KeptInv *)

\* Output, ACKs, signals.
LEMMA KeptStream ==
  ASSUME BaseInv, EndInv, KeptInv, Output \/ ReadAck \/ ShellExits \/ Signal \/ DiskCap
  PROVE  KeptInv'
<1> USE DEF KeptInv
<1>1. CASE Output \/ ReadAck
  <2>1. /\ UNCHANGED <<daemon, replay, conn, client, kills, spoiled>>
        /\ dir'.exists = dir.exists
        /\ UNCHANGED <<total, dir>> \/ (Running /\ daemon.shell)
    BY <1>1, StreamFacts DEF history
  <2>2. LineOK' /\ (OnItsWay(Daemon)' <=> OnItsWay(Daemon))
        /\ \A r \in Replays : OnItsWay(r)' <=> OnItsWay(r)
    BY <2>1 DEF LineOK, OnItsWay, Connected
  <2>3. CASE UNCHANGED <<total, dir>>
    BY <2>1, <2>2, <2>3 DEF ToldOK, LeftOK, Excused
  <2>4. CASE Running /\ daemon.shell
    <3>1. /\ daemon.phase \notin Ending \cup {"gone"} /\ ~daemon.exited
          /\ \A r \in Replays : ~replay[r].delivered
      BY <2>4 DEF EndInv, DaemonOK, ReplayOK, Running, Ending
    <3> QED BY <2>1, <2>2, <3>1 DEF ToldOK, LeftOK
  <2> QED BY <2>1, <2>3, <2>4
<1>2. CASE ShellExits \/ Signal \/ DiskCap
  <2>1. /\ UNCHANGED <<total, dir, replay, conn, client, kills, spoiled>>
        /\ daemon'.phase = daemon.phase
        /\ daemon'.preserve = daemon.preserve /\ daemon'.flushed = daemon.flushed
        /\ daemon'.exitDelivered = daemon.exitDelivered
        /\ daemon.exited => daemon'.exited
        /\ daemon.preserveOnExit => daemon'.preserveOnExit
        /\ daemon'.shutdown => daemon.shutdown \/ daemon'.preserveOnExit
    BY <1>2, FlagFacts DEF history
  <2>2. LineOK' /\ ToldOK'
    BY <2>1 DEF LineOK, ToldOK, OnItsWay, Excused, Connected
  <2>3. LeftOK'
    BY <2>1 DEF LeftOK, Excused
  <2> QED BY <2>2, <2>3
<1> QED BY <1>1, <1>2

\* The daemon's attach: an EXIT it writes is on its way to the client, unless the
\* connection is dead.
LEMMA KeptAttach ==
  ASSUME BaseInv, EndInv, KeptInv, Attach
  PROVE  KeptInv'
<1> USE DEF KeptInv
<1>a. /\ UNCHANGED <<total, dir, replay, client, kills>> /\ Daemon \in Servers
      /\ Replays \subseteq Servers /\ Daemon \notin Replays
      /\ daemon'.phase = daemon.phase
      /\ daemon'.exited = daemon.exited /\ daemon'.shutdown = daemon.shutdown
      /\ daemon'.preserveOnExit = daemon.preserveOnExit
      /\ daemon.attach # "none"
      /\ \A s \in Servers : /\ conn'[s].cut = conn[s].cut
                            /\ conn'[s].open => conn[s].open
                            /\ s # Daemon => conn'[s] = conn[s]
  BY AttachFacts, Names
<1>b. daemon.phase \notin Ending \cup {"gone"}
  BY <1>a DEF EndInv, DaemonOK
<1>1. CASE /\ conn'[Daemon].code = conn[Daemon].code /\ UNCHANGED spoiled
           /\ daemon'.exitDelivered = daemon.exitDelivered
  <2>1. LineOK'
    BY <1>a, <1>1 DEF LineOK, Connected
  <2>2. ToldOK'
    BY <1>a, <1>1 DEF ToldOK, OnItsWay, Excused, Connected
  <2>3. LeftOK'
    BY <1>a, <1>b, <1>1 DEF LeftOK
  <2> QED BY <2>1, <2>2, <2>3
<1>2. CASE /\ daemon.attach = "drain" /\ conn[Daemon].open /\ ~conn'[Daemon].open
           /\ conn'[Daemon].code \in {ShellCode, 129}
           /\ spoiled' = (spoiled \/ conn[Daemon].cut)
  <2>1. (spoiled => spoiled') /\ (conn[Daemon].cut => spoiled')
    BY <1>2
  <2>2. conn'[Daemon].code # NoCode
    BY <1>2 DEF NoCode, ShellCode
  <2>3. LineOK'
    BY <1>a, <1>2 DEF LineOK, Connected
  <2>4. daemon.exited /\ (OnItsWay(Daemon)' \/ spoiled')
    BY <1>a, <1>2, <2>1, <2>2 DEF EndInv, DaemonOK, LineOK, OnItsWay, Connected
  <2>5. ToldOK'
    BY <1>a, <2>1, <2>4 DEF ToldOK, OnItsWay, Excused, Connected
  <2>6. LeftOK'
    BY <1>a, <1>b, <2>1 DEF LeftOK
  <2> QED BY <2>3, <2>5, <2>6
<1> QED BY <1>1, <1>2, AttachFacts

\* Run: the buffer is flushed if the session is preserved, and removed only if
\* EXIT was written or the user aborted.
LEMMA KeptRun ==
  ASSUME BaseInv, EndInv, KeptInv, Run
  PROVE  KeptInv'
<1> USE DEF KeptInv
<1>a. /\ UNCHANGED <<total, trim, replay, conn, client, kills, spoiled>>
      /\ daemon'.exitDelivered = daemon.exitDelivered
      /\ daemon'.shutdown = daemon.shutdown
      /\ daemon'.preserveOnExit = daemon.preserveOnExit
      /\ daemon.exited => daemon'.exited
  BY RunFacts DEF history
<1>b. /\ total \in Nat /\ trim \in Nat /\ client.shown \in Nat
      /\ trim <= client.shown /\ client.shown <= total
  BY Sizes
<1>1. LineOK' /\ ToldOK'
  BY <1>a DEF LineOK, ToldOK, OnItsWay, Excused, Connected
<1>2. LeftOK'
  <2>1. CASE daemon.phase \in {"serving", "killing"}
    BY <1>a, <2>1, RunFacts DEF LeftOK, Ending
  <2>2. CASE daemon.phase = "waiting"
    <3>1. /\ daemon'.phase = "closed" /\ dir'.exists = dir.exists
          /\ daemon'.preserve <=> Preserves
          /\ daemon'.preserve /\ daemon'.flushed /\ dir.exists
               => dir'.last = total \/ trim = total
      BY <2>2, RunFacts DEF Ending
    <3>2. daemon.exited
      BY <2>2 DEF EndInv, DaemonOK
    <3>3. daemon'.preserve \/ Excused \/ daemon.exitDelivered
      BY <3>1, <3>2 DEF Preserves, LeftOK, Excused
    <3>4. trim = total => client.shown = total
      BY <1>b
    <3> QED BY <1>a, <2>2, <3>1, <3>3, <3>4 DEF LeftOK, Excused
  <2>3. CASE daemon.phase \in Ending
    BY <1>a, <2>3, RunFacts DEF LeftOK, Excused, Ending
  <2> QED BY <2>1, <2>2, <2>3, RunFacts
<1> QED BY <1>1, <1>2

\* A kill: kills are excepted.
LEMMA KeptKill ==
  ASSUME BaseInv, EndInv, KeptInv, NEW s \in Servers, Kill(s)
  PROVE  KeptInv'
<1> USE DEF KeptInv
<1>a. /\ UNCHANGED <<total, dir, client, spoiled>> /\ Replays \subseteq Servers
      /\ Daemon \in Servers
  BY KillFacts, Names
<1>1. LineOK'
  BY <1>a, KillFacts DEF LineOK, Connected
<1>2. ToldOK'
  BY <1>a, KillFacts DEF ToldOK, OnItsWay, Excused, Connected
<1>3. LeftOK'
  BY <1>a, KillFacts DEF LeftOK
<1> QED BY <1>1, <1>2, <1>3

\* A directory given up unserved is excepted.
LEMMA KeptGivesUp ==
  ASSUME BaseInv, EndInv, KeptInv, NEW r \in Replays, GivesUp(r)
  PROVE  KeptInv'
<1> USE DEF KeptInv
<1>a. /\ UNCHANGED <<total, daemon, client, kills>> /\ Replays \subseteq Servers
      /\ Daemon \in Servers
  BY GivesUpFacts, Names
<1>1. LineOK'
  BY <1>a, GivesUpFacts DEF LineOK, Connected
<1>2. ToldOK'
  BY <1>a, GivesUpFacts DEF ToldOK, Excused
<1>3. LeftOK'
  BY <1>a, GivesUpFacts DEF LeftOK, Excused
<1> QED BY <1>1, <1>2, <1>3

\* A replay daemon: an EXIT it writes after the whole stream is on its way to the
\* client, unless the connection is dead.
LEMMA KeptReplay ==
  ASSUME BaseInv, EndInv, KeptInv, NEW r \in Replays, ReplayRun(r), ~ReplayHandshakeFails(r)
  PROVE  KeptInv'
<1> USE DEF KeptInv
<1>a. /\ UNCHANGED <<total, daemon, client, kills>>
      /\ Replays \subseteq Servers /\ r \in Servers /\ Daemon \in Servers /\ r # Daemon
      /\ \A q \in Replays \ {r} : replay'[q] = replay[q]
      /\ \A t \in Servers : /\ conn'[t].cut = conn[t].cut
                            /\ conn'[t].open => conn[t].open
                            /\ t # r => conn'[t] = conn[t]
  BY ReplayFacts, Names
<1>b. /\ spoiled => spoiled'
      /\ conn'[r].code # NoCode => conn[r].code # NoCode \/ ~conn'[r].open
  BY ReplayFacts
<1>1. LineOK'
  BY <1>a, <1>b DEF LineOK, Connected
<1>2. CASE replay[r].delivered
  <2>1. replay[r].phase = "cleanup"
    BY <1>2, ReplayFacts DEF ToldOK
  <2>2. /\ replay'[r].delivered /\ replay'[r].phase = "gone" /\ UNCHANGED <<conn, spoiled>>
        /\ UNCHANGED dir \/ ~dir'.exists
    BY <1>2, <2>1, ReplayFacts
  <2>3. ToldOK'
    BY <1>a, <1>2, <2>2 DEF ToldOK, OnItsWay, Excused, Connected
  <2>4. daemon.phase \in {"marked", "gone"}
    BY <1>2 DEF EndInv, ReplayOK
  <2>5. LeftOK'
    BY <1>a, <1>2, <2>2, <2>4 DEF LeftOK, Excused
  <2> QED BY <1>1, <2>3, <2>5
<1>3. CASE ~replay[r].delivered
  <2>1. dir'.last = dir.last /\ (dir.exists => dir'.exists)
    BY <1>3, ReplayFacts
  <2>2. replay'[r].delivered =>
          /\ replay'[r].phase = "cleanup" /\ conn'[r].code \in {133, 134}
          /\ conn[r].open /\ (conn[r].cut => spoiled')
    BY <1>3, ReplayFacts
  <2>3. 133 # NoCode /\ 134 # NoCode
    BY DEF NoCode
  <2>4. replay'[r].delivered => OnItsWay(r)' \/ spoiled'
    BY <1>a, <2>2, <2>3 DEF LineOK, OnItsWay, Connected
  <2>5. ASSUME NEW q \in Replays, replay'[q].delivered
        PROVE  /\ replay'[q].phase \in {"cleanup", "gone"} /\ conn'[q].code \in {133, 134}
               /\ OnItsWay(q)' \/ Excused'
    BY <1>a, <1>b, <2>2, <2>4, <2>5 DEF ToldOK, OnItsWay, Excused, Connected
  <2>6. daemon.exitDelivered => daemon.exited /\ (OnItsWay(Daemon)' \/ Excused')
    BY <1>a, <1>b DEF ToldOK, OnItsWay, Excused, Connected
  <2>7. ToldOK'
    BY <1>a, <2>5, <2>6 DEF ToldOK
  <2>8. \A q \in Replays : replay[q].delivered => replay'[q].delivered
    BY <1>a, <1>3
  <2>9. LeftOK'
    BY <1>a, <1>b, <2>1, <2>8 DEF LeftOK, Excused
  <2> QED BY <1>1, <2>7, <2>9
<1> QED BY <1>2, <1>3

\* A client without a connection that gets one, or has attach spawn a replay
\* daemon, or is told that there is nothing.
LEMMA KeptDial ==
  ASSUME BaseInv, EndInv, KeptInv,
         (\E s \in Servers : Dial(s)) \/ SpawnReplay \/ NothingLeft \/ SpawnFails
  PROVE  KeptInv'
<1> USE DEF KeptInv
<1>a. /\ client \in Clients /\ dir \in Dirs /\ daemon \in Daemons
      /\ replay \in [Replays -> ReplayDaemons]
      /\ Daemon \in Servers /\ Daemon \notin Replays /\ Replays \subseteq Servers
  BY Sizes, Names
<1>1. /\ UNCHANGED <<total, kills, spoiled>>
      /\ client.phase \in {"idle", "spawned"} /\ client'.shown = client.shown
      /\ dir'.last = dir.last /\ (dir.exists => dir'.exists)
      /\ daemon'.phase = daemon.phase /\ daemon'.exited = daemon.exited
      /\ daemon'.exitDelivered = daemon.exitDelivered
      /\ daemon'.shutdown = daemon.shutdown
      /\ daemon'.preserveOnExit = daemon.preserveOnExit
      /\ daemon'.preserve = daemon.preserve /\ daemon'.flushed = daemon.flushed
      /\ \A r \in Replays : /\ replay'[r].delivered = replay[r].delivered
                            /\ replay[r].phase \in {"cleanup", "gone"}
                                 => replay'[r] = replay[r] /\ conn'[r] = conn[r]
      /\ \A t \in Servers :
           \/ conn'[t] = conn[t]
           \/ /\ client'.phase = "hello" /\ client'.server = t /\ conn'[t].code = NoCode
  <2>1. CASE \E s \in Servers : Dial(s)
    <3>1. PICK s \in Servers : Dial(s)
      BY <2>1
    <3>2. CASE s = Daemon
      BY <1>a, <3>1, <3>2, DialFacts, Names DEF Daemons, BaseInv
    <3>3. CASE s # Daemon
      <4>1. replay[s].phase = "listen"
        BY <3>1, <3>3, DialFacts DEF Listens
      <4>2. /\ s \in Replays /\ replay' = Moved(s, "hello")
            /\ dir' = [dir EXCEPT !.sock = NoOne] /\ UNCHANGED daemon
        BY <3>1, <3>3, DialFacts
      <4>3. \A r \in Replays : /\ replay'[r].delivered = replay[r].delivered
                               /\ r # s => replay'[r] = replay[r]
        BY <1>a, <4>2, MovedFacts
      <4>4. dir'.last = dir.last /\ dir'.exists = dir.exists
        BY <1>a, <4>2 DEF Dirs
      <4> QED BY <1>a, <3>1, <4>1, <4>2, <4>3, <4>4, DialFacts
    <3> QED BY <3>2, <3>3
  <2>2. CASE SpawnReplay
    <3>1. PICK r \in Replays : replay[r].phase = "none" /\ replay' = Moved(r, "start")
      BY <2>2, SpawnFacts
    <3>2. \A q \in Replays : /\ replay'[q].delivered = replay[q].delivered
                             /\ q # r => replay'[q] = replay[q]
      BY <1>a, <3>1, MovedFacts
    <3> QED BY <2>2, <3>1, <3>2, SpawnFacts
  <2>3. CASE NothingLeft
    BY <1>a, <2>3 DEF NothingLeft, DialFails, Clients, Dirs, history
  <2>4. CASE SpawnFails
    BY <1>a, <2>4 DEF SpawnFails, Clients, history
  <2> QED BY <2>1, <2>2, <2>3, <2>4
<1>2. ~Connected /\ (Excused => Excused')
  BY <1>1 DEF Connected, Excused
<1>3. LineOK'
  BY <1>1, <1>2, <1>a DEF LineOK, Connected
<1>4. ToldOK'
  BY <1>1, <1>2 DEF ToldOK, OnItsWay
<1>5. LeftOK'
  BY <1>1, <1>2 DEF LeftOK
<1> QED BY <1>3, <1>4, <1>5

\* What a client reads: an EXIT that says so means that everything was shown.
LEMMA KeptReceive ==
  ASSUME BaseInv, EndInv, KeptInv, RecvHelloAck \/ RecvOutput \/ RecvExit \/ RecvEOF
  PROVE  KeptInv'
<1> USE DEF KeptInv
<1>a. /\ client \in Clients /\ client.shown \in Nat /\ total \in Nat /\ trim \in Nat
      /\ trim <= client.shown /\ client.shown <= total
      /\ \A s \in Servers : conn[s].sent \in Nat /\ conn[s].sent <= total
      /\ Daemon \in Servers /\ Replays \subseteq Servers
      /\ client.phase \in {"hello", "live"} /\ client.server \in Servers
      /\ UNCHANGED <<total, trim, dir, daemon, replay, conn, kills, spoiled>>
  BY Sizes, Names DEF RecvHelloAck, RecvOutput, RecvExit, RecvEOF, history, Connected
<1>1. CASE RecvHelloAck \/ RecvOutput
  <2>1. /\ client'.phase \in {"hello", "live"} /\ client'.server = client.server
        /\ (client'.shown = client.shown) \/ (client.shown < conn[client.server].sent)
    BY <1>1, <1>a DEF RecvHelloAck, RecvOutput, Line, Clients
  <2>2. Excused => Excused'
    BY <1>a, <2>1 DEF Excused
  <2>3. LineOK' /\ ToldOK'
    BY <1>a, <2>1, <2>2 DEF LineOK, ToldOK, OnItsWay, Connected
  <2>4. LeftOK'
    BY <1>a, <2>2 DEF LeftOK
  <2> QED BY <2>3, <2>4
<1>2. CASE RecvExit \/ RecvEOF
  <2>1. client'.shown = client.shown
    <3>1. CASE RecvExit
      BY <3>1, <1>a DEF RecvExit, Clients
    <3>2. CASE RecvEOF
      BY <3>2, <1>a, RetriedFacts DEF RecvEOF
    <3> QED BY <1>2, <3>1, <3>2
  <2>2. ~conn[client.server].open
    BY <1>2, <1>a DEF RecvExit, RecvEOF, Line, LineOK
  <2>3. ASSUME NEW s \in Servers, OnItsWay(s), conn[s].code \in GoodCodes
        PROVE  client.shown = total
    <3>1. RecvExit /\ s = client.server
      BY <1>2, <2>3 DEF RecvEOF, Line, OnItsWay
    <3>2. conn[s].sent <= client.shown
      BY <3>1 DEF RecvExit, Line
    <3> QED BY <1>a, <2>3, <3>2 DEF EndInv, CodeOK, Covered
  <2>4. Excused => Excused'
    BY <1>a, <2>1 DEF Excused
  <2>5. LineOK'
    BY <1>a, <2>2 DEF LineOK
  <2>6. daemon.exitDelivered => daemon.exited /\ Excused
    <3>1. OnItsWay(Daemon) => conn[Daemon].code \in GoodCodes
      BY DEF LineOK, OnItsWay, GoodCodes
    <3> QED BY <1>a, <2>3, <3>1 DEF ToldOK, Excused
  <2>7. \A r \in Replays : replay[r].delivered =>
          /\ replay[r].phase \in {"cleanup", "gone"} /\ conn[r].code \in {133, 134}
          /\ Excused
    BY <1>a, <2>3 DEF ToldOK, Excused, GoodCodes
  <2>8. ToldOK'
    BY <1>a, <2>4, <2>6, <2>7 DEF ToldOK
  <2>9. LeftOK'
    BY <1>a, <2>4 DEF LeftOK, Excused
  <2> QED BY <2>5, <2>8, <2>9
<1> QED BY <1>1, <1>2

\* The network and the user: an EXIT that a cut loses was spoken into a dead line.
LEMMA KeptCut ==
  ASSUME BaseInv, EndInv, KeptInv, Cut \/ Abort
  PROVE  KeptInv'
<1> USE DEF KeptInv
<1>a. /\ UNCHANGED <<total, dir, replay, kills>> /\ client'.shown = client.shown
      /\ client'.phase \in {"idle", "failed", "aborted"}
      /\ \A t \in Servers : /\ conn'[t].open = conn[t].open
                            /\ conn'[t].code = conn[t].code
                            /\ conn[t].cut => conn'[t].cut
      /\ Connected => conn'[client.server].cut
  BY CutFacts
<1>b. /\ Daemon \in Servers /\ Replays \subseteq Servers
      /\ client.phase \in {"spawned", "hello", "live"}
  BY Names DEF Cut, Abort
<1>c. /\ daemon'.phase = daemon.phase /\ daemon'.exited = daemon.exited
      /\ daemon'.exitDelivered = daemon.exitDelivered
      /\ daemon'.preserveOnExit = daemon.preserveOnExit
      /\ daemon'.preserve = daemon.preserve /\ daemon'.flushed = daemon.flushed
      /\ daemon'.shutdown => daemon.shutdown \/ client'.phase = "aborted"
  BY Sizes, CutFacts DEF Daemons
<1>1. Excused => Excused'
  <2>1. spoiled => spoiled'
    BY DEF Cut, Abort, history
  <2> QED BY <1>a, <1>b, <2>1 DEF Excused
<1>2. \A s \in Servers : OnItsWay(s) => Excused'
  <2>1. CASE Abort
    BY <2>1, <1>a, Sizes DEF Abort, Excused, Clients
  <2>2. CASE Cut
    <3>1. Connected => spoiled' = (spoiled \/ conn[client.server].code # NoCode)
      BY <2>2, Zenon DEF Cut, Connected, Line
    <3>2. Connected /\ conn[client.server].code # NoCode => spoiled'
      BY <3>1
    <3> QED BY <3>2 DEF OnItsWay, Excused
  <2> QED BY <2>1, <2>2
<1>3. LineOK'
  BY <1>a, <1>b DEF LineOK
<1>4. ToldOK'
  BY <1>a, <1>b, <1>c, <1>1, <1>2 DEF ToldOK
<1>5. LeftOK'
  <2>1. spoiled => spoiled'
    BY DEF Cut, Abort, history
  <2> QED BY <1>a, <1>b, <1>c, <1>1, <2>1 DEF LeftOK
<1> QED BY <1>3, <1>4, <1>5

\* To begin with nothing was said and nothing was decided.
LEMMA KeptInit ==
  ASSUME Init
  PROVE  KeptInv
<1>1. /\ dir.exists /\ daemon.phase = "serving" /\ ~daemon.exitDelivered
      /\ ~daemon.shutdown /\ client.phase = "live" /\ client.server = Daemon
  BY DEF Init, NoDir
<1>2. \A r \in Replays : ~replay[r].delivered
  BY DEF Init
<1>3. \A s \in Servers : conn[s].code = NoCode /\ (s # Daemon => ~conn[s].open)
  BY DEF Init, NoConn
<1>4. Daemon \in Servers
  BY Names
<1> QED BY <1>1, <1>2, <1>3, <1>4 DEF KeptInv, LineOK, ToldOK, LeftOK, Connected, Ending

\* No step breaks it.
LEMMA KeptStep ==
  ASSUME BaseInv, EndInv, KeptInv, [Next]_vars
  PROVE  KeptInv'
<1>1. CASE Output \/ ReadAck \/ ShellExits \/ Signal \/ DiskCap
  BY <1>1, KeptStream
<1>2. CASE \E r \in Replays : ReplayRun(r) \/ AcceptTimeout(r)
  BY <1>2, KeptReplay, KeptGivesUp DEF AcceptTimeout, ReplayHandshakeFails
<1>3. CASE Client
  BY <1>3, KeptDial, KeptReceive DEF Client
<1>4. CASE vars' = vars
  BY <1>4 DEF vars, KeptInv, LineOK, ToldOK, LeftOK, OnItsWay, Excused, Connected
<1> QED
  BY <1>1, <1>2, <1>3, <1>4, KeptAttach, KeptRun, KeptKill, KeptCut DEF Next

\* KeptUntilShown: until the client was shown everything, the rest of the stream
\* is with the daemon, in the directory or on its way, unless one of the
\* excepted things happened: a kill, a failed flush, ~., an EXIT lost with its
\* connection, whoever ended that, or a directory given up unserved.
THEOREM NothingIsLost == Spec => []KeptUntilShown
<1>1. Init => BaseInv /\ EndInv /\ KeptInv
  BY BaseInit, EndInit, KeptInit
<1>2. BaseInv /\ EndInv /\ KeptInv /\ [Next]_vars => BaseInv' /\ EndInv' /\ KeptInv'
  BY BaseStep, EndStep, KeptStep
<1>3. ASSUME BaseInv, EndInv, KeptInv
      PROVE  KeptUntilShown
  <2>1. kills = 0 \/ kills > 0
    BY Names, <1>3 DEF BaseInv
  <2>2. Excused => KeptUntilShown
    BY DEF Excused, KeptUntilShown
  <2>3. \A s \in Servers : OnItsWay(s) => KeptUntilShown
    BY DEF OnItsWay, KeptUntilShown, Connected, Line
  <2>4. CASE daemon.phase = "gone" /\ kills = 0
    <3>1. \/ Excused
          \/ daemon.exitDelivered
          \/ daemon.preserve /\ ~daemon.flushed
          \/ dir.last = total
          \/ \E r \in Replays : replay[r].delivered
      BY <1>3, <2>4 DEF KeptInv, LeftOK
    <3>2. daemon.exitDelivered \/ (\E r \in Replays : replay[r].delivered) =>
            Excused \/ \E s \in Servers : OnItsWay(s)
      BY <1>3, Names DEF KeptInv, ToldOK
    <3>3. (daemon.preserve /\ ~daemon.flushed) \/ dir.last = total => KeptUntilShown
      BY DEF KeptUntilShown
    <3> QED BY <2>2, <2>3, <3>1, <3>2, <3>3
  <2>5. CASE daemon.phase # "gone" \/ kills > 0
    BY <2>5 DEF KeptUntilShown, Running
  <2> QED BY <2>1, <2>4, <2>5
<1> QED BY <1>1, <1>2, <1>3, PTL DEF Spec

=============================================================================
