--------------------------- MODULE SessionsProofs ---------------------------
(***************************************************************************)
(* For any number of sessions: what their directories, pid files and sizes *)
(* have to do with each other, whom the disk cap spares however old the    *)
(* listings and torn the counts are it decides on, and from whom xssh      *)
(* takes the directory.                                                    *)
(***************************************************************************)
EXTENDS Sessions, FiniteSetTheorems, TLAPS

Many == Cardinality(Ids)

\* A session as others find it: only a process with a directory is named by a
\* pid file, and one that is up is, as long as it has its directory.
Found ==
  {r \in [proc : {"none", "starting", "live", "ending", "closing", "scanning", "replay"},
          dir : BOOLEAN, pid : BOOLEAN, client : BOOLEAN,
          marked : BOOLEAN, size : 0..MaxSize, capped : BOOLEAN] :
     /\ r.pid => r.dir /\ r.proc \in Up
     /\ r.dir /\ r.proc \in Up => r.pid
     /\ ~r.dir => r.size = 0}

\* What a sweeper knows: a listing counts no more sessions than there are, the
\* count of its own bytes exceeds nothing that was there to be counted, and it
\* stops its session only for more than the smallest share.
Known ==
  {v \in [pc : {"none", "full", "room", "listed", "counting", "stopping"},
          growing : 0..Many, mine : 0..MaxSize, most : 0..MaxSize] :
     /\ v.pc \in {"listed", "counting"} => v.growing > 0
     /\ v.pc = "counting" => v.mine <= v.most
     /\ v.pc = "stopping" => v.most > Share(Many)}

ViewOK == view \in [Ids -> Known]

\* A command acts on a session; and what is to be removed was not seen to be up.
CliOK ==
  /\ cli \in [pc : {"idle", "remove", "signal", "waiting"}, id : Ids \cup {""}, up : {FALSE}]
  /\ cli.pc # "idle" => cli.id \in Ids

HostInv == session \in [Ids -> Found] /\ ViewOK /\ CliOK

-----------------------------------------------------------------------------
(* Listings *)

\* The number of sessions is a number, and so is every constant.
LEMMA Numbers ==
  /\ Many \in Nat /\ MaxSize \in Nat
  /\ Raw \in Nat /\ Reserve \in Nat
BY SessionsAssumption, FS_CardinalityType DEF SessionsAssumption, Many

\* A listing counts at most all of them.
LEMMA GrowingBounded == Growing \in 0..Many
<1> DEFINE G == {s \in Listed : Status(s) \in {"active", "stale"}}
<1>1. G \subseteq Ids
  BY DEF Listed
<1>2. IsFiniteSet(Ids)
  BY SessionsAssumption DEF SessionsAssumption
<1>3. IsFiniteSet(G) /\ Cardinality(G) <= Cardinality(Ids)
  BY <1>1, <1>2, FS_Subset
<1>4. Cardinality(G) \in Nat
  BY <1>3, FS_CardinalityType
<1> QED BY <1>3, <1>4, Numbers DEF Growing, Many

\* A share is a number.
LEMMA ShareIsNumber ==
  ASSUME NEW g \in 1..Many
  PROVE  Share(g) \in Int /\ Share(Many) \in Int
<1>0. Many \in Nat \ {0} /\ g \in Nat \ {0} /\ Raw \in Nat /\ Reserve \in Nat
  BY Numbers
<1> HIDE DEF Many
<1>1. Reserve * g \in Nat /\ Reserve * Many \in Nat
  BY <1>0
<1>2. DiskBudget(g) \in Nat /\ DiskBudget(Many) \in Nat
  BY <1>0, <1>1 DEF DiskBudget
<1> QED BY <1>0, <1>2 DEF Share

\* The more sessions share a budget, the smaller it is and each one's share.
LEMMA ShareShrinks ==
  ASSUME NEW g \in 1..Many
  PROVE  Share(Many) <= Share(g)
<1> DEFINE B(n) == DiskBudget(n)
<1>0. /\ Many \in Nat \ {0} /\ g \in Nat \ {0} /\ g <= Many
      /\ Raw \in Nat /\ Reserve \in Nat
  BY Numbers
<1> HIDE DEF Many
<1>1. Reserve * g \in Nat /\ Reserve * Many \in Nat /\ Reserve * g <= Reserve * Many
  BY <1>0
<1>2. B(g) \in Nat /\ B(Many) \in Nat /\ B(Many) <= B(g)
  BY <1>0, <1>1 DEF DiskBudget
<1> DEFINE b == B(Many)  c == B(g)  p == b \div Many  q == c \div g
<1> HIDE DEF B
<1>3. /\ p \in Int /\ p * Many <= b /\ p >= 0
      /\ q \in Int /\ c < (q + 1) * g
  BY <1>0, <1>2
<1> HIDE DEF b, c, p, q
<1>4. SUFFICES ASSUME p > q PROVE FALSE
  BY <1>3 DEF Share, p, q, b, c, B
<1>5. (q + 1) * g <= p * g
  BY <1>0, <1>3, <1>4
<1>6. p * g <= p * Many
  BY <1>0, <1>3
<1> QED BY <1>0, <1>2, <1>3, <1>5, <1>6 DEF b, c

\* What a sweeper knows after a step of its own, or about its session.
LEMMA SeesKept ==
  ASSUME ViewOK, NEW s \in Ids, NEW v \in Known, Sees(s, v)
  PROVE  ViewOK'
BY DEF ViewOK, Sees

\* Nothing is known to begin with.
LEMMA NothingKnown == NoView \in Known
<1>1. 0 \in 0..Many /\ 0 \in 0..MaxSize
  BY Numbers
<1> QED BY <1>1 DEF Known, NoView

\* While files are unlinked and written, the count stays below what was there.
LEMMA CountKept ==
  ASSUME ViewOK, NEW s \in Ids, NEW unlinked, NEW written \in {0, 1},
         view[s].pc = "counting" /\ written = 1 => view[s].most < MaxSize,
         CountGoesOn(s, unlinked, written)
  PROVE  ViewOK'
<1>1. CASE view[s].pc # "counting"
  BY <1>1 DEF CountGoesOn, ViewOK
<1>2. CASE view[s].pc = "counting"
  <2>1. PICK n \in (view[s].mine - unlinked)..(view[s].mine + written) :
          n >= 0 /\ Sees(s, [view[s] EXCEPT !.mine = n, !.most = view[s].most + written])
    BY <1>2, Zenon DEF CountGoesOn
  <2> DEFINE v == [view[s] EXCEPT !.mine = n, !.most = view[s].most + written]
  <2>2. view[s] \in Known /\ MaxSize \in Nat
    BY Numbers DEF ViewOK
  <2>3. /\ view[s].most + written \in 0..MaxSize
        /\ n \in 0..MaxSize /\ n <= view[s].most + written
    BY <1>2, <2>1, <2>2 DEF Known
  <2>4. v \in Known
    BY <1>2, <2>2, <2>3 DEF Known
  <2> QED BY <2>1, <2>4, SeesKept, Zenon
<1> QED BY <1>1, <1>2

-----------------------------------------------------------------------------
(* The steps *)

\* A session that becomes something that can be found.
LEMMA BecomesFound ==
  ASSUME session \in [Ids -> Found], NEW s \in Ids, NEW r \in Found, Becomes(s, r)
  PROVE  session' \in [Ids -> Found]
BY DEF Becomes

\* Nothing, and a directory taken away, can be found too.
LEMMA GoneFound ==
  ASSUME session \in [Ids -> Found], NEW s \in Ids
  PROVE  Nowhere \in Found /\ Unlinked(s) \in Found /\ Terminated(s) \in Found
<1>0. session[s] \in Found /\ 0 \in 0..MaxSize
  BY Numbers
<1>1. Nowhere \in Found
  BY <1>0 DEF Nowhere, Found, Up
<1>2. Unlinked(s) \in Found
  BY <1>0 DEF Unlinked, Found, Up
<1>3. Terminated(s) \in Found
  <2>1. [session[s] EXCEPT !.proc = "ending"] \in Found \/ session[s].proc # "live"
    BY <1>0 DEF Found, Up
  <2>2. [session[s] EXCEPT !.proc = "none", !.pid = FALSE, !.client = FALSE] \in Found
    BY <1>0 DEF Found, Up
  <2> QED BY <1>0, <2>1, <2>2 DEF Terminated
<1> QED BY <1>1, <1>2, <1>3

\* A session's own steps.
LifeOf(s) ==
  \/ NewDecides(s) \/ Starts(s) \/ Connects(s) \/ Disconnects(s) \/ Marks(s)
  \/ Spills(s) \/ Trims(s) \/ Stops(s) \/ Delivers(s) \/ Preserves(s) \/ Exits(s)
  \/ Dies(s) \/ ReplayStarts(s) \/ ReplayListens(s) \/ ReplayServes(s)

\* What they make of the session can be found; none of them sets capped, and
\* the directory goes only with the process.
LEMMA LifeFacts ==
  ASSUME HostInv, NEW s \in Ids, LifeOf(s)
  PROVE  \/ UNCHANGED session
         \/ \E r \in Found :
              /\ Becomes(s, r)
              /\ r.capped => session[s].capped
              /\ r.dir \/ ~session[s].dir \/ r.proc # session[s].proc
<1>0. session[s] \in Found /\ Nowhere \in Found /\ MaxSize \in Nat
  BY GoneFound, Numbers DEF HostInv
<1> DEFINE Fit(r) == /\ r \in Found
                     /\ r.capped => session[s].capped
                     /\ r.dir \/ ~session[s].dir \/ r.proc # session[s].proc
           Goal == UNCHANGED session \/ \E r \in Found : Fit(r) /\ Becomes(s, r)
<1>s. SUFFICES Goal
  OBVIOUS
<1>w. ASSUME NEW r, Fit(r), Becomes(s, r) PROVE Goal
  BY <1>w, Zenon
<1>1. CASE Starts(s)
  <2> DEFINE v == [session[s] EXCEPT !.proc = "live", !.dir = TRUE, !.pid = TRUE]
  <2>1. Becomes(s, v)
    BY <1>1, Zenon DEF Starts, Live
  <2>2. Fit(v)
    BY <1>0 DEF Found, Up
  <2> HIDE DEF v, Fit
  <2> QED BY <2>1, <2>2, <1>w
<1>2. CASE Connects(s)
  <2> DEFINE v == [session[s] EXCEPT !.client = TRUE, !.marked = FALSE]
  <2>1. Becomes(s, v)
    BY <1>2, Zenon DEF Connects
  <2>2. Fit(v)
    BY <1>0 DEF Found, Up
  <2> HIDE DEF v, Fit
  <2> QED BY <2>1, <2>2, <1>w
<1>3. CASE Disconnects(s)
  <2> DEFINE v == [session[s] EXCEPT !.client = FALSE, !.marked = FALSE]
  <2>1. Becomes(s, v)
    BY <1>3, Zenon DEF Disconnects, Live
  <2>2. Fit(v)
    BY <1>0 DEF Found, Up
  <2> HIDE DEF v, Fit
  <2> QED BY <2>1, <2>2, <1>w
<1>4. CASE Spills(s)
  <2> DEFINE v == [session[s] EXCEPT !.size = session[s].size + 1]
  <2>1. Becomes(s, v) /\ session[s].size < MaxSize /\ session[s].dir
    BY <1>4, Zenon DEF Spills, Live
  <2>2. Fit(v)
    BY <1>0, <2>1 DEF Found, Up
  <2> HIDE DEF v, Fit
  <2> QED BY <2>1, <2>2, <1>w
<1>5. CASE Stops(s)
  <2> DEFINE v == [session[s] EXCEPT !.proc = "ending"]
  <2>1. Becomes(s, v) /\ session[s].proc = "live"
    BY <1>5, Zenon DEF Stops, Live
  <2>2. Fit(v)
    BY <1>0, <2>1 DEF Found, Up
  <2> HIDE DEF v, Fit
  <2> QED BY <2>1, <2>2, <1>w
<1>6. CASE Delivers(s)
  <2> DEFINE v == Nowhere
  <2>1. Becomes(s, v) /\ session[s].proc = "ending"
    BY <1>6, Zenon DEF Delivers, Live
  <2>2. Fit(v)
    BY <1>0, <2>1 DEF Found, Up, Nowhere
  <2> HIDE DEF v, Fit
  <2> QED BY <2>1, <2>2, <1>w
<1>7. CASE Preserves(s)
  <2>1. PICK n \in session[s].size..MaxSize :
          /\ ~session[s].dir => n = 0
          /\ Becomes(s, [session[s] EXCEPT !.proc = "closing", !.pid = FALSE, !.size = n,
                                           !.client = FALSE, !.marked = FALSE])
    BY <1>7, Zenon DEF Preserves
  <2> DEFINE v == [session[s] EXCEPT !.proc = "closing", !.pid = FALSE, !.size = n,
                                     !.client = FALSE, !.marked = FALSE]
  <2>2. Fit(v)
    <3>1. n \in 0..MaxSize
      BY <1>0, <2>1 DEF Found
    <3> QED BY <1>0, <2>1, <3>1 DEF Found, Up
  <2> HIDE DEF Fit
  <2> QED BY <2>1, <2>2, <1>w, Zenon
<1>8. CASE Exits(s)
  <2> DEFINE v == [session[s] EXCEPT !.proc = "none", !.capped = FALSE]
  <2>1. Becomes(s, v) /\ session[s].proc = "closing"
    BY <1>8, Zenon DEF Exits, Live
  <2>2. Fit(v)
    BY <1>0, <2>1 DEF Found, Up
  <2> HIDE DEF v, Fit
  <2> QED BY <2>1, <2>2, <1>w
<1>9. CASE Dies(s)
  <2> DEFINE v == [session[s] EXCEPT !.proc = "none", !.pid = FALSE, !.client = FALSE,
                                     !.marked = FALSE, !.capped = FALSE]
  <2>1. Becomes(s, v) /\ session[s].pid
    BY <1>9, Zenon DEF Dies, Live
  <2>2. Fit(v)
    BY <1>0, <2>1 DEF Found, Up
  <2> HIDE DEF v, Fit
  <2> QED BY <2>1, <2>2, <1>w
<1>10. CASE ReplayStarts(s)
  <2> DEFINE v == [session[s] EXCEPT !.proc = "scanning"]
  <2>1. Becomes(s, v) /\ session[s].proc = "none"
    BY <1>10, Zenon DEF ReplayStarts, Live
  <2>2. Fit(v)
    BY <1>0, <2>1 DEF Found, Up
  <2> HIDE DEF v, Fit
  <2> QED BY <2>1, <2>2, <1>w
<1>11. CASE ReplayServes(s)
  <2> DEFINE v == Nowhere
  <2>1. Becomes(s, v) /\ session[s].proc = "replay"
    BY <1>11, Zenon DEF ReplayServes, Live
  <2>2. Fit(v)
    BY <1>0, <2>1 DEF Found, Up, Nowhere
  <2> HIDE DEF v, Fit
  <2> QED BY <2>1, <2>2, <1>w
<1>12. CASE NewDecides(s)
  <2> DEFINE v == [Nowhere EXCEPT !.proc = "starting", !.dir = TRUE]
  <2>1. (Becomes(s, v) \/ UNCHANGED session) /\ session[s] = Nowhere
    BY <1>12, Zenon DEF NewDecides
  <2>2. Fit(v)
    BY <1>0, <2>1 DEF Found, Up, Nowhere
  <2> HIDE DEF v, Fit
  <2> QED BY <2>1, <2>2, <1>w
<1>13. CASE ReplayListens(s)
  <2> DEFINE v == [session[s] EXCEPT !.proc = "replay", !.pid = TRUE, !.client = TRUE]
  <2>1. (session[s].dir /\ Becomes(s, v)) \/ (~session[s].dir /\ Becomes(s, Nowhere))
    BY <1>13, Zenon DEF ReplayListens
  <2>2. session[s].dir => Fit(v)
    BY <1>0 DEF Found, Up
  <2>3. ~session[s].dir => Fit(Nowhere)
    BY <1>0 DEF Nowhere
  <2> HIDE DEF v, Fit
  <2> QED BY <2>1, <2>2, <2>3, <1>w
<1>14. CASE Marks(s)
  <2>1. PICK b \in BOOLEAN : Becomes(s, [session[s] EXCEPT !.marked = b])
    <3>1. (~session[s].marked) \in BOOLEAN
      BY Zenon
    <3> QED BY <1>14, <3>1, Zenon DEF Marks
  <2> DEFINE v == [session[s] EXCEPT !.marked = b]
  <2>2. Fit(v)
    BY <1>0 DEF Found, Up
  <2> HIDE DEF Fit
  <2> QED BY <2>1, <2>2, <1>w, Zenon
<1>15. CASE Trims(s)
  <2> DEFINE v == [session[s] EXCEPT !.size = session[s].size - 1]
  <2>1. Becomes(s, v) /\ session[s].size > 0
    BY <1>15, Zenon DEF Trims
  <2>2. Fit(v)
    <3>1. session[s].size - 1 \in 0..MaxSize /\ session[s].dir
      BY <1>0, <2>1 DEF Found
    <3> QED BY <1>0, <3>1 DEF Found, Up
  <2> HIDE DEF v, Fit
  <2> QED BY <2>1, <2>2, <1>w
<1> QED
  BY <1>1, <1>2, <1>3, <1>4, <1>5, <1>6, <1>7, <1>8, <1>9, <1>10, <1>11, <1>12, <1>13, <1>14, <1>15 DEF LifeOf

\* What a session's own steps leave of what its sweeper knows.
LEMMA LifeViews ==
  ASSUME HostInv, NEW s \in Ids, LifeOf(s)
  PROVE  ViewOK' /\ UNCHANGED cli
<1>0. ViewOK
  BY DEF HostInv
<1>1. CASE Spills(s)
  <2>1. /\ view[s].pc = "counting" => view[s].most < MaxSize
        /\ CountGoesOn(s, 0, 1) /\ UNCHANGED cli
    BY <1>1, Zenon DEF Spills
  <2> QED BY <1>0, <2>1, CountKept
<1>2. CASE Trims(s)
  <2>1. CountGoesOn(s, 1, 0) /\ UNCHANGED cli
    BY <1>2, Zenon DEF Trims
  <2> QED BY <1>0, <2>1, CountKept
<1>3. CASE NewDecides(s) \/ Stops(s) \/ Dies(s)
  <2>1. Sees(s, NoView) /\ UNCHANGED cli
    BY <1>3, Zenon DEF NewDecides, Stops, Dies
  <2> QED BY <1>0, <2>1, SeesKept, NothingKnown
<1>4. CASE UNCHANGED <<view, cli>>
  BY <1>0, <1>4 DEF ViewOK
<1>5. Spills(s) \/ Trims(s) \/ NewDecides(s) \/ Stops(s) \/ Dies(s) \/ UNCHANGED <<view, cli>>
  BY Zenon DEF LifeOf, Starts, Connects, Disconnects, Marks, Delivers, Preserves, Exits,
    ReplayStarts, ReplayListens, ReplayServes
<1> QED BY <1>1, <1>2, <1>3, <1>4, <1>5

\* Listing, counting and comparing: no session changes, and what is known when
\* the sweeper goes on to stop is that the count, and all the more what there was
\* to count, exceeds the smallest share.
LEMMA LooksFacts ==
  ASSUME HostInv, NEW s \in Ids,
         NewLists(s) \/ SweepLists(s) \/ SweepCounts(s) \/ SweepCompares(s)
  PROVE  ViewOK' /\ UNCHANGED <<session, cli>>
<1>0. /\ ViewOK /\ view[s] \in Known /\ NoView \in Known /\ session[s].size \in 0..MaxSize
      /\ MaxSize \in Nat
  BY NothingKnown, Numbers DEF HostInv, ViewOK, Found
<1>1. CASE NewLists(s)
  <2>1. PICK pc \in {"full", "room"} :
          Sees(s, [NoView EXCEPT !.pc = pc]) /\ UNCHANGED <<session, cli>>
    BY <1>1, Zenon DEF NewLists
  <2>2. [NoView EXCEPT !.pc = pc] \in Known
    BY <1>0 DEF Known
  <2> QED BY <1>0, <2>1, <2>2, SeesKept
<1>2. CASE SweepLists(s)
  <2>1. /\ Growing > 0 /\ UNCHANGED <<session, cli>>
        /\ Sees(s, [NoView EXCEPT !.pc = "listed", !.growing = Growing])
    BY <1>2, Zenon DEF SweepLists
  <2>2. [NoView EXCEPT !.pc = "listed", !.growing = Growing] \in Known
    BY <1>0, <2>1, GrowingBounded DEF Known
  <2> QED BY <1>0, <2>1, <2>2, SeesKept
<1>3. CASE SweepCounts(s)
  <2>1. /\ view[s].pc = "listed" /\ UNCHANGED <<session, cli>>
        /\ Sees(s, [view[s] EXCEPT !.pc = "counting", !.mine = session[s].size,
                                   !.most = session[s].size])
    BY <1>3, Zenon DEF SweepCounts, MySize
  <2> DEFINE n == session[s].size
             v == [view[s] EXCEPT !.pc = "counting", !.mine = n, !.most = n]
  <2>2. n \in 0..MaxSize /\ Sees(s, v)
    BY <1>0, <2>1
  <2> HIDE DEF n
  <2>3. /\ view[s] \in [pc : {"none", "full", "room", "listed", "counting", "stopping"},
                       growing : 0..Many, mine : 0..MaxSize, most : 0..MaxSize]
        /\ view[s].growing > 0
    BY <1>0, <2>1 DEF Known
  <2>4. /\ v \in [pc : {"none", "full", "room", "listed", "counting", "stopping"},
                 growing : 0..Many, mine : 0..MaxSize, most : 0..MaxSize]
        /\ v.pc = "counting" /\ v.growing > 0 /\ v.mine = n /\ v.most = n
    BY <2>2, <2>3
  <2> HIDE DEF v
  <2>5. v \in Known
    <3>1. v.mine <= v.most
      BY <1>0, <2>2, <2>4
    <3>2. ~(v.pc = "stopping")
      BY <2>4
    <3> QED BY <2>4, <3>1, <3>2, Zenon DEF Known
  <2> QED BY <1>0, <2>1, <2>2, <2>5, SeesKept
<1>4. CASE SweepCompares(s)
  <2>1. view[s].pc = "counting" /\ UNCHANGED <<session, cli>>
    BY <1>4, Zenon DEF SweepCompares
  <2>2. CASE ~Exceeds(s)
    <3>1. Sees(s, NoView)
      BY <1>4, <2>2, Zenon DEF SweepCompares
    <3> QED BY <1>0, <2>1, <3>1, SeesKept
  <2>3. CASE Exceeds(s)
    <3> DEFINE v == [NoView EXCEPT !.pc = "stopping", !.most = view[s].most]
    <3>1. Sees(s, v)
      BY <1>4, <2>3, Zenon DEF SweepCompares
    <3>2. /\ view[s].growing \in 1..Many /\ view[s].mine <= view[s].most
          /\ view[s].mine \in Int /\ view[s].most \in 0..MaxSize
          /\ view[s].mine > Share(view[s].growing)
      BY <1>0, <2>1, <2>3, Numbers DEF Known, Exceeds
    <3>3. /\ Share(Many) <= Share(view[s].growing)
          /\ Share(Many) \in Int /\ Share(view[s].growing) \in Int
      BY <3>2, ShareShrinks, ShareIsNumber
    <3>4. view[s].most > Share(Many)
      BY <3>2, <3>3
    <3>5. v \in Known
      BY <1>0, <3>2, <3>4 DEF Known, NoView
    <3> QED BY <1>0, <2>1, <3>1, <3>5, SeesKept
  <2> QED BY <2>2, <2>3
<1> QED BY <1>1, <1>2, <1>3, <1>4

\* The end of a sweeper's check.
LEMMA StopFacts ==
  ASSUME HostInv, NEW s \in Ids, SweepStops(s)
  PROVE  /\ ViewOK' /\ UNCHANGED cli
         /\ \E r \in Found : Becomes(s, r) /\ r.dir = session[s].dir
         /\ view[s].most > Share(Many)
<1> DEFINE v == [session[s] EXCEPT !.proc = "ending", !.capped = TRUE]
<1>1. /\ view[s].pc = "stopping" /\ session[s].proc = "live"
      /\ Sees(s, NoView) /\ Becomes(s, v) /\ UNCHANGED cli
  BY Zenon DEF SweepStops, Live
<1>2. session[s] \in Found /\ view[s] \in Known /\ ViewOK
  BY DEF HostInv, ViewOK
<1>3. v \in Found /\ v.dir = session[s].dir
  BY <1>1, <1>2 DEF Found, Up
<1>4. ViewOK'
  BY <1>1, <1>2, SeesKept, NothingKnown
<1> HIDE DEF v
<1>5. view[s].most > Share(Many)
  BY <1>1, <1>2 DEF Known
<1> QED BY <1>1, <1>3, <1>4, <1>5

\* xssh.
LEMMA CliFacts ==
  ASSUME HostInv, (\E s \in Ids : CliLists(s)) \/ CliRemovesDead \/ CliSignals \/ CliRemoves
  PROVE  /\ CliOK' /\ ViewOK'
         /\ \/ UNCHANGED session
            \/ /\ cli.id \in Ids
               /\ \E r \in Found :
                    /\ Becomes(cli.id, r) /\ (r.capped => session[cli.id].capped)
                    /\ \/ r.dir \/ ~session[cli.id].dir \/ r.proc # session[cli.id].proc
                       \/ cli.pc \in {"waiting", "remove"}
<1>0. session \in [Ids -> Found] /\ CliOK /\ ViewOK
  BY DEF HostInv
<1>c. NoCommand.pc = "idle" /\ NoCommand \in [pc : {"idle"}, id : {""}, up : {FALSE}]
  BY DEF NoCommand
<1>1. CASE \E s \in Ids : CliLists(s)
  <2>1. PICK s \in Ids : CliLists(s)
    BY <1>1
  <2>2. /\ session[s].dir /\ UNCHANGED <<session, view>>
        /\ cli' = IF Status(s) = "dead"
                  THEN [pc |-> "remove", id |-> s, up |-> session[s].proc \in Up]
                  ELSE [pc |-> "signal", id |-> s, up |-> FALSE]
    BY <2>1, Zenon DEF CliLists
  <2>3. Status(s) = "dead" => (session[s].proc \in Up) = FALSE
    <3>1. session[s] \in Found
      BY <1>0
    <3>2. Status(s) = "dead" => ~session[s].pid
      BY <3>1 DEF Status, Found
    <3> QED BY <2>2, <3>1, <3>2 DEF Found
  <2>4. \/ cli' = [pc |-> "remove", id |-> s, up |-> FALSE]
        \/ cli' = [pc |-> "signal", id |-> s, up |-> FALSE]
    BY <2>2, <2>3, Zenon
  <2>5. /\ cli'.pc \in {"remove", "signal"} /\ cli'.id = s
        /\ cli' \in [pc : {"remove", "signal"}, id : {s}, up : {FALSE}]
    <3>1. CASE cli' = [pc |-> "remove", id |-> s, up |-> FALSE]
      BY <3>1
    <3>2. CASE cli' = [pc |-> "signal", id |-> s, up |-> FALSE]
      BY <3>2
    <3> QED BY <2>4, <3>1, <3>2
  <2>6. CliOK'
    BY <2>5 DEF CliOK
  <2> QED BY <1>0, <2>2, <2>6 DEF ViewOK
<1>2. CASE CliRemovesDead
  <2>1. /\ cli.pc = "remove" /\ Becomes(cli.id, Unlinked(cli.id)) /\ cli' = NoCommand
        /\ CountGoesOn(cli.id, session[cli.id].size, 0)
    BY <1>2 DEF CliRemovesDead
  <2>2. cli.id \in Ids /\ Unlinked(cli.id) \in Found
    <3>1. cli.id \in Ids
      BY <1>0, <2>1 DEF CliOK
    <3> QED BY <1>0, <3>1, GoneFound
  <2>c. Unlinked(cli.id).capped = session[cli.id].capped
    <3>1. session[cli.id] \in Found
      BY <1>0, <2>2
    <3> QED BY <3>1 DEF Unlinked, Found
  <2>3. ViewOK'
    BY <1>0, <2>1, <2>2, CountKept
  <2> QED BY <1>0, <1>c, <2>1, <2>2, <2>c, <2>3 DEF CliOK
<1>3. CASE CliSignals
  <2>1. /\ cli.pc = "signal" /\ Becomes(cli.id, Terminated(cli.id))
        /\ view' = view \/ Sees(cli.id, NoView)
        /\ cli' = NoCommand \/ cli' = [cli EXCEPT !.pc = "waiting"]
    BY <1>3, Zenon DEF CliSignals
  <2>2. cli.id \in Ids /\ Terminated(cli.id) \in Found
    BY <1>0, <2>1, GoneFound DEF CliOK
  <2>3. /\ Terminated(cli.id).capped = session[cli.id].capped
        /\ Terminated(cli.id).dir = session[cli.id].dir
    BY <1>0, <2>2 DEF Terminated, Found
  <2>4. ViewOK'
    <3>1. CASE view' = view
      BY <1>0, <3>1 DEF ViewOK
    <3>2. CASE Sees(cli.id, NoView)
      BY <1>0, <2>2, <3>2, SeesKept, NothingKnown
    <3> QED BY <2>1, <3>1, <3>2
  <2>5. CliOK'
    BY <1>0, <1>c, <2>1 DEF CliOK
  <2>6. \E r \in Found :
          /\ Becomes(cli.id, r) /\ (r.capped => session[cli.id].capped)
          /\ r.dir \/ ~session[cli.id].dir
    BY <2>1, <2>2, <2>3
  <2> QED BY <2>2, <2>4, <2>5, <2>6
<1>4. CASE CliRemoves
  <2>1. /\ cli.pc = "waiting" /\ cli' = NoCommand
        /\ \/ Becomes(cli.id, Nowhere) /\ UNCHANGED view
           \/ Becomes(cli.id, Unlinked(cli.id)) /\ CountGoesOn(cli.id, session[cli.id].size, 0)
    BY <1>4, Zenon DEF CliRemoves
  <2>2. /\ cli.id \in Ids /\ Unlinked(cli.id) \in Found /\ Nowhere \in Found
        /\ Unlinked(cli.id).capped = session[cli.id].capped /\ ~Nowhere.capped
    BY <1>0, <2>1, GoneFound DEF CliOK, Unlinked, Found, Nowhere
  <2>3. CliOK'
    BY <1>0, <1>c, <2>1 DEF CliOK
  <2>4. ViewOK'
    <3>1. CASE UNCHANGED view
      BY <1>0, <3>1 DEF ViewOK
    <3>2. CASE CountGoesOn(cli.id, session[cli.id].size, 0)
      BY <1>0, <2>2, <3>2, CountKept
    <3> QED BY <2>1, <3>1, <3>2
  <2> QED BY <2>1, <2>2, <2>3, <2>4
<1> QED BY <1>1, <1>2, <1>3, <1>4

\* No step breaks the invariant; capped is set only by a sweeper that finds its
\* session to exceed its share; and the directory goes without its process only
\* if xssh takes it.
LEMMA HostStep ==
  ASSUME HostInv, Next
  PROVE  /\ HostInv'
         /\ \A s \in Ids : ~session[s].capped /\ session'[s].capped
                => view[s].most > Share(Many)
         /\ \A s \in Ids : session[s].dir /\ ~session'[s].dir
                              /\ session'[s].proc = session[s].proc
                => cli.id = s /\ cli.pc \in {"waiting", "remove"}
<1>0. session \in [Ids -> Found] /\ CliOK /\ ViewOK
  BY DEF HostInv
<1>t. \A s \in Ids : /\ session[s].dir \in BOOLEAN /\ session[s].capped \in BOOLEAN
  BY <1>0 DEF Found
<1>b. ASSUME NEW t \in Ids, NEW r \in Found, Becomes(t, r)
      PROVE  /\ session' \in [Ids -> Found] /\ session'[t] = r
             /\ \A s \in Ids \ {t} : session'[s] = session[s]
  BY <1>0, <1>b DEF Becomes
<1>1. CASE \E s \in Ids : LifeOf(s)
  <2>1. PICK s \in Ids : LifeOf(s)
    BY <1>1
  <2>3. ViewOK' /\ CliOK'
    BY <1>0, <2>1, LifeViews DEF CliOK
  <2>4. CASE UNCHANGED session
    BY <1>0, <1>t, <2>3, <2>4 DEF HostInv
  <2>5. CASE \E r \in Found :
              /\ Becomes(s, r)
              /\ r.capped => session[s].capped
              /\ r.dir \/ ~session[s].dir \/ r.proc # session[s].proc
    BY <1>b, <2>3, <2>5 DEF HostInv
  <2> QED BY <2>1, <2>4, <2>5, LifeFacts
<1>2. CASE \E s \in Ids : NewLists(s) \/ SweepLists(s) \/ SweepCounts(s) \/ SweepCompares(s)
  <2>1. PICK s \in Ids : NewLists(s) \/ SweepLists(s) \/ SweepCounts(s) \/ SweepCompares(s)
    BY <1>2
  <2>2. ViewOK' /\ UNCHANGED <<session, cli>>
    BY <2>1, LooksFacts
  <2> QED BY <1>0, <1>t, <2>2 DEF HostInv, CliOK
<1>3. CASE \E s \in Ids : SweepStops(s)
  <2>1. PICK s \in Ids : SweepStops(s)
    BY <1>3
  <2>2. ViewOK' /\ CliOK' /\ view[s].most > Share(Many)
    BY <1>0, <2>1, StopFacts DEF CliOK
  <2>3. PICK r \in Found : Becomes(s, r) /\ r.dir = session[s].dir
    BY <2>1, StopFacts
  <2>4. \A t \in Ids : ~session[t].capped /\ session'[t].capped => t = s
    BY <1>b, <2>3
  <2> QED BY <1>b, <2>2, <2>3, <2>4 DEF HostInv
<1>4. CASE (\E s \in Ids : CliLists(s)) \/ CliRemovesDead \/ CliSignals \/ CliRemoves
  <2>1. CliOK' /\ ViewOK'
    BY <1>4, CliFacts
  <2>2. CASE UNCHANGED session
    BY <1>0, <1>t, <2>1, <2>2 DEF HostInv
  <2>3. CASE /\ cli.id \in Ids
             /\ \E r \in Found :
                  /\ Becomes(cli.id, r) /\ (r.capped => session[cli.id].capped)
                  /\ \/ r.dir \/ ~session[cli.id].dir \/ r.proc # session[cli.id].proc
                     \/ cli.pc \in {"waiting", "remove"}
    BY <1>b, <2>1, <2>3 DEF HostInv
  <2> QED BY <1>4, <2>2, <2>3, CliFacts
<1> QED BY <1>1, <1>2, <1>3, <1>4, Zenon DEF Next, LifeOf, Sweep

\* No session has begun.
LEMMA HostInit ==
  ASSUME Init
  PROVE  HostInv
<1>1. Nowhere \in Found
  BY Numbers DEF Nowhere, Found, Up
<1>2. session \in [Ids -> Found]
  BY <1>1 DEF Init
<1>3. ViewOK
  BY NothingKnown DEF Init, ViewOK
<1>6. CliOK
  BY DEF Init, NoCommand, CliOK
<1> QED BY <1>2, <1>3, <1>6 DEF HostInv

\* The invariant holds in every behaviour.
LEMMA HostAlways == Spec => []HostInv
<1>1. HostInv /\ UNCHANGED vars => HostInv'
  BY DEF vars, HostInv, ViewOK, CliOK
<1> QED BY <1>1, HostInit, HostStep, PTL DEF Spec

\* TypeOK: the pid file names a process that is up and has its directory, and
\* without a directory there are no segments.
THEOREM TypeCorrect == Spec => []TypeOK
<1>1. HostInv => TypeOK
  <2> SUFFICES ASSUME HostInv PROVE TypeOK
    OBVIOUS
  <2>1. session \in [Ids -> [proc : {"none", "starting", "live", "ending", "closing",
                                  "scanning", "replay"},
                          dir : BOOLEAN, pid : BOOLEAN, client : BOOLEAN,
                          marked : BOOLEAN, size : 0..MaxSize, capped : BOOLEAN]]
    BY DEF HostInv, Found
  <2>2. \A s \in Ids : /\ session[s].pid => session[s].dir /\ session[s].proc \in Up
                       /\ ~session[s].dir => session[s].size = 0
    BY DEF HostInv, Found
  <2>3. \A s \in Ids :
          /\ view[s].pc \in {"none", "full", "room", "listed", "counting", "stopping"}
          /\ view[s].growing \in 0..Cardinality(Ids) /\ view[s].most \in 0..MaxSize
    BY DEF HostInv, ViewOK, Known, Many
  <2> QED BY <2>1, <2>2, <2>3 DEF HostInv, CliOK, TypeOK
<1> QED BY <1>1, HostAlways, PTL

\* SmallIsSpared: however old the listing is that a sweeper decides on, and
\* whatever is written and unlinked while it counts its bytes, it stops its session
\* only if there was more to count than the share that each has of a full house.
THEOREM SmallSpared == Spec => SmallIsSpared
<1>1. ASSUME HostInv, [Next]_vars
      PROVE  [\A s \in Ids : (~session[s].capped /\ session'[s].capped)
                => view[s].most > Share(Cardinality(Ids))]_vars
  BY <1>1, HostStep DEF Many
<1> QED BY <1>1, HostAlways, PTL DEF Spec, SmallIsSpared

\* DirKeptWhileUp: xssh takes the directory from a session whose process is up
\* only for rm --kill, or if it was not up when it was listed; nobody else does.
THEOREM DirectoryKept == Spec => DirKeptWhileUp
<1>1. ASSUME HostInv, [Next]_vars
      PROVE  [\A s \in Ids :
                (session[s].pid /\ session[s].dir /\ session'[s].proc = session[s].proc
                   /\ ~session'[s].dir)
                => /\ cli.id = s
                   /\ cli.pc = "waiting" \/ (cli.pc = "remove" /\ ~cli.up)]_vars
  BY <1>1, HostStep DEF HostInv, CliOK
<1> QED BY <1>1, HostAlways, PTL DEF Spec, DirKeptWhileUp

=============================================================================
