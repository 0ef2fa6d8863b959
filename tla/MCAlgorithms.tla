--------------------------- MODULE MCAlgorithms ---------------------------
(***************************************************************************)
(* The program's pure algorithms over bounded inputs: ResendFrom over      *)
(* pairs of histories (MCChunk) and the byte filters (Filters).  They have *)
(* nothing to do with each other, and one is at work at a time.            *)
(***************************************************************************)
EXTENDS MCChunk, Filters

allVars == <<vars, filterVars>>

\* Writes: the parts of escape sequences.  Two whole sequences are six of them.
Pieces ==
  {<<"esc">>, <<"[", "?">>, <<"esc", "[", "?">>, <<"4", "7">>, <<"4">>,
   <<";">>, <<"h">>, <<"l">>}

AllInit == Init /\ FilterInit

\* Nothing has been done to the histories, or by one of the filters.
NoHistories == own = <<>> /\ peer = <<>>
NoWrites == writes = 0
NoKeys == keys = <<>>
NoText == text = <<>>

AllNext ==
  \/ NoWrites /\ NoKeys /\ NoText /\ Next /\ UNCHANGED filterVars
  \/ /\ NoHistories /\ NoKeys /\ NoText
     /\ ScanSteps /\ UNCHANGED <<vars, stdinVars, terminalVars>>
  \/ /\ NoHistories /\ NoWrites /\ NoText
     /\ StdinSteps /\ UNCHANGED <<vars, scanVars, terminalVars>>
  \/ /\ NoHistories /\ NoWrites /\ NoKeys
     /\ TerminalSteps /\ UNCHANGED <<vars, scanVars, stdinVars>>

AllSpec == AllInit /\ [][AllNext]_allVars

=============================================================================
