------------------------------ MODULE Filters ------------------------------
(***************************************************************************)
(* The three byte filters of the program: the alt-screen scanner of client *)
(* and daemon (internal/altscreen), the client's ~ escapes on standard     *)
(* input, and its CR LF translation of what goes to the terminal.  Each    *)
(* loops over the bytes of one read or write and keeps state for the next: *)
(* a step is one byte of such a loop, or the end of the loop, which may    *)
(* come between any two bytes.                                             *)
(*                                                                         *)
(* Bytes are one-letter strings; "esc" is 0x1B, "cr" and "lf" the line     *)
(* ends.  All letters that end a sequence unrecognised are alike.          *)
(***************************************************************************)
EXTENDS Integers, Sequences, FiniteSets

CONSTANTS
  ParmMax,    \* how many bytes of parameters the scanner keeps (32)
  Writes,     \* what the program behind the pty may write at a time
  Keys,       \* what may be typed
  Shows,      \* what may be sent to the terminal
  MaxWrites,  \* bound: writes to the pty
  MaxKeys     \* bound: keys typed, and bytes shown

ASSUME FiltersAssumption ==
  /\ ParmMax \in Nat \ {0}
  /\ Writes \subseteq Seq(STRING)

VARIABLES
  coming,    \* written to the pty and not yet scanned
  writes,    \* how many Writes there were
  output,    \* history: the bytes scanned
  scanner,   \* the Scanner, and the event of the Scan under way
  inAlt,     \* inAltScreen
  keys,      \* history: the keys readStdinForever has looked at
  stdin,     \* its local variables
  sent,      \* the keys it has put in stdinCh
  text,      \* history: the bytes given to the crlfTranslator
  terminal,  \* its last byte, and what it has translated of one Write
  screen     \* what it has written

scanVars == <<coming, writes, output, scanner, inAlt>>
stdinVars == <<keys, stdin, sent>>
terminalVars == <<text, terminal, screen>>
filterVars == <<scanVars, stdinVars, terminalVars>>

-----------------------------------------------------------------------------
(* altscreen.Scanner *)

ParmBytes == {"4", "7", ";"}

\* One of the parameters that strings.Split finds is the alt-screen mode
\* (here 47 stands for 47, 1047 and 1049).
NamesAltScreen(parm) ==
  \E i \in 1..(Len(parm) - 1) :
    /\ parm[i] = "4" /\ parm[i + 1] = "7"
    /\ i = 1 \/ parm[i - 1] = ";"
    /\ i + 1 = Len(parm) \/ parm[i + 2] = ";"

NewScanner == [state |-> "idle", parm |-> <<>>, ev |-> "none"]

Moved(a, state) == [a EXCEPT !.state = state]

\* One byte in the automaton.  A byte that does not continue the sequence
\* ends it, whatever it is: an ESC there does not begin another.
ScanByte(a, b) ==
  CASE a.state = "idle" -> IF b = "esc" THEN Moved(a, "esc") ELSE a
    [] a.state = "esc" -> Moved(a, IF b = "[" THEN "csi" ELSE "idle")
    [] a.state = "csi" ->
         IF b = "?" THEN [a EXCEPT !.state = "parm", !.parm = <<>>]
                    ELSE Moved(a, "idle")
    [] a.state = "parm" /\ b \in ParmBytes ->
         IF Len(a.parm) < ParmMax THEN [a EXCEPT !.parm = Append(@, b)] ELSE a
    [] a.state = "parm" /\ b \notin ParmBytes ->
         IF b \in {"h", "l"} /\ NamesAltScreen(a.parm)
         THEN [a EXCEPT !.state = "idle", !.ev = b]
         ELSE Moved(a, "idle")

\* Mutant of NextScan: the automaton starts anew with every read.
NextScanAnew(a) == NewScanner

\* The next Scan goes on where this one ended, with no event yet.
NextScan(a) == [a EXCEPT !.ev = "none"]

\* What inAltScreen is once this Scan has returned: pumpPTY and
\* handleOutputFrame change it only when there was an event, the last one.
InAltAfter == IF scanner.ev = "none" THEN inAlt ELSE scanner.ev = "h"

Write ==
  /\ coming = <<>> /\ writes < MaxWrites
  /\ \E p \in Writes : coming' = p
  /\ writes' = writes + 1
  /\ UNCHANGED <<output, scanner, inAlt>>

ScanNext ==
  /\ coming # <<>>
  /\ scanner' = ScanByte(scanner, Head(coming))
  /\ output' = Append(output, Head(coming))
  /\ coming' = Tail(coming)
  /\ UNCHANGED <<writes, inAlt>>

ScanReturns ==
  /\ inAlt' = InAltAfter
  /\ scanner' = NextScan(scanner)
  /\ UNCHANGED <<coming, writes, output>>

ScanInit ==
  /\ coming = <<>> /\ writes = 0 /\ output = <<>>
  /\ scanner = NewScanner /\ inAlt = FALSE

ScanSteps == Write \/ ScanNext \/ ScanReturns

-----------------------------------------------------------------------------
(* client.readStdinForever *)

LineEnds == {"cr", "lf"}

NewStdin == [atStart |-> TRUE, pending |-> FALSE, aborted |-> FALSE, out |-> <<>>]

Sends(k, typed, b) ==
  [k EXCEPT !.out = @ \o typed, !.pending = FALSE, !.atStart = b \in LineEnds]

\* One key.
TypedKey(k, b) ==
  CASE k.pending ->
         CASE b = "." -> [k EXCEPT !.pending = FALSE, !.aborted = TRUE]
           [] b = "~" -> Sends(k, <<"~">>, b)
           [] OTHER   -> Sends(k, <<"~", b>>, b)
    [] ~k.pending /\ k.atStart /\ b = "~" -> [k EXCEPT !.pending = TRUE]
    [] OTHER -> Sends(k, <<b>>, b)

\* Mutant of NextRead: every read is taken for the start of a line.
NextReadAnew(k) == [k EXCEPT !.out = <<>>, !.atStart = TRUE]

\* The next read goes on where this one ended, with nothing to send yet.
NextRead(k) == [k EXCEPT !.out = <<>>]

\* After ~. the rest of the read is not looked at, and nothing more is read.
KeyTyped ==
  /\ ~stdin.aborted
  /\ Len(keys) < MaxKeys
  /\ \E b \in Keys : /\ keys' = Append(keys, b)
                     /\ stdin' = TypedKey(stdin, b)
  /\ UNCHANGED sent

\* The end of a read: what it leaves to be sent goes to stdinCh as one slice,
\* and not at all when the read holds the abort.
ReadEnds ==
  /\ ~stdin.aborted
  /\ stdin.out # <<>>
  /\ sent' = sent \o stdin.out
  /\ stdin' = NextRead(stdin)
  /\ UNCHANGED keys

StdinInit == keys = <<>> /\ stdin = NewStdin /\ sent = <<>>

StdinSteps == KeyTyped \/ ReadEnds

-----------------------------------------------------------------------------
(* crlfTranslator.Write *)

NewTerminal == [last |-> "none", out |-> <<>>]

ShownByte(t, b) ==
  [last |-> b,
   out  |-> t.out \o IF b = "lf" /\ t.last # "cr" THEN <<"cr", "lf">>
                                                  ELSE <<b>>]

\* Mutant of NextWrite: the last byte of the previous write is forgotten.
NextWriteAnew(t) == NewTerminal

\* The next Write remembers the last byte of this one.
NextWrite(t) == [t EXCEPT !.out = <<>>]

ByteShown ==
  /\ Len(text) < MaxKeys
  /\ \E b \in Shows : /\ text' = Append(text, b)
                      /\ terminal' = ShownByte(terminal, b)
  /\ UNCHANGED screen

WriteEnds ==
  /\ terminal.out # <<>>
  /\ screen' = screen \o terminal.out
  /\ terminal' = NextWrite(terminal)
  /\ UNCHANGED text

TerminalInit == text = <<>> /\ terminal = NewTerminal /\ screen = <<>>

TerminalSteps == ByteShown \/ WriteEnds

-----------------------------------------------------------------------------
FilterInit == ScanInit /\ StdinInit /\ TerminalInit

FilterNext ==
  \/ ScanSteps /\ UNCHANGED <<stdinVars, terminalVars>>
  \/ StdinSteps /\ UNCHANGED <<scanVars, terminalVars>>
  \/ TerminalSteps /\ UNCHANGED <<scanVars, stdinVars>>

FilterSpec == FilterInit /\ [][FilterNext]_filterVars

-----------------------------------------------------------------------------
(* The alt-screen *)

Opens(s, i) == s[i] = "esc" /\ s[i + 1] = "[" /\ s[i + 2] = "?"

\* As much of the parameters as the scanner keeps.
Kept(parm) == SubSeq(parm, 1, IF Len(parm) < ParmMax THEN Len(parm) ELSE ParmMax)

\* s[i..j] is one of the recognised sequences, as the package lists them.
Switches(s, i, j) ==
  /\ j > i + 3
  /\ Opens(s, i)
  /\ \A k \in (i + 3)..(j - 1) : s[k] \in ParmBytes
  /\ s[j] \in {"h", "l"}
  /\ NamesAltScreen(Kept(SubSeq(s, i + 3, j - 1)))

Switched(s) == {ij \in (1..Len(s)) \X (1..Len(s)) : Switches(s, ij[1], ij[2])}

\* Nothing that could be part of a sequence stands in front of s[i].
Fresh(s, i) == i = 1 \/ s[i - 1] \notin {"esc", "[", "?"} \union ParmBytes

\* No sequence is begun in the middle of another one.
Plain(s) == \A ij \in Switched(s) : Fresh(s, ij[1])

\* The last sequence of the output switches the alt-screen on.
SwitchedOn(s) ==
  \E ij \in Switched(s) : /\ s[ij[2]] = "h"
                          /\ \A other \in Switched(s) : other[2] <= ij[2]

\* Package comment of altscreen: "a sequence split across two writes is still
\* recognised correctly".  Wherever the output is cut into reads, the client's
\* and the daemon's inAltScreen is what the last sequence of the whole output
\* says, and no switch is seen that is not there.  (An ESC that interrupts
\* another sequence is swallowed by the automaton: that output is not Plain.)
AltScreenTracked == Plain(output) => InAltAfter = SwitchedOn(output)

-----------------------------------------------------------------------------
(* Standard input *)

\* Key i of s is a ~ that begins a line.
EscapeAt(s, i) == s[i] = "~" /\ (i = 1 \/ s[i - 1] \in LineEnds)

AbortAt(s, i) == i < Len(s) /\ EscapeAt(s, i) /\ s[i + 1] = "."

\* The keys the remote should have got of s: all but the first of two ~, an
\* abort, and a ~ whose follower has not been typed.
Meant(s) ==
  {i \in 1..Len(s) :
     /\ EscapeAt(s, i) => i < Len(s) /\ s[i + 1] \notin {"~", "."}
     /\ i > 1 => ~AbortAt(s, i - 1)}

\* out is what the set `places` selects of s, in order.
Selects(out, s, places) ==
  /\ Len(out) = Cardinality(places)
  /\ \A i \in places : out[Cardinality({j \in places : j <= i})] = s[i]

\* The ~ escapes are found whatever the reads: ~. aborts exactly when it
\* begins a line, and the remote gets every key meant for it once and in
\* order, less the escaping ~.  Keys that the read of a ~. holds in front of it
\* count here as got although they stay in stdin.out: with the abort that ends
\* the loop they are never sent.
EscapesFound ==
  /\ stdin.aborted <=> \E i \in 1..Len(keys) : AbortAt(keys, i)
  /\ Selects(sent \o stdin.out, keys, Meant(keys))

-----------------------------------------------------------------------------
(* The terminal *)

BareAt(s, i) == s[i] = "lf" /\ (i = 1 \/ s[i - 1] # "cr")

\* Where byte i of s stands on the terminal: behind a CR for every bare LF
\* so far.
PlaceOnScreen(s, i) == i + Cardinality({j \in 1..i : BareAt(s, j)})

\* shown has no LF without its CR, no CR that s does not need, and everything
\* else as it is in s.
Translates(shown, s) ==
  /\ \A i \in 1..Len(shown) :
       shown[i] = "lf" => i > 1 /\ shown[i - 1] = "cr"
  /\ Len(shown) = PlaceOnScreen(s, Len(s))
  /\ \A i \in 1..Len(s) :
       /\ shown[PlaceOnScreen(s, i)] = s[i]
       /\ BareAt(s, i) => shown[PlaceOnScreen(s, i) - 1] = "cr"

\* Comment of crlfTranslator: each bare LF becomes CR LF, however the output
\* is cut into writes.
NoBareNewline == Translates(screen \o terminal.out, text)

\* Both filters of text do to split reads what they would do to the whole, the
\* keys excepted that an abort leaves unsent.
TextFiltered == EscapesFound /\ NoBareNewline

=============================================================================
