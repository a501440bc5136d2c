------------------------------ MODULE MicroCalc -----------------------------
(***************************************************************************)
(* MicroCalc, an instance for TLC.  run() serves one key at a time, and    *)
(* each part of the program - the parser, the window on the sheet, and the *)
(* sheet - keeps its state to itself: a behaviour runs one of them, and    *)
(* what the others would hand it (a cell, a width, a tree) is any.         *)
(***************************************************************************)
EXTENDS CalcParser, CalcScreen, CalcSheet

VARIABLE part

(* Texts that fill three columns, and formulas with names that grow. *)
MCTyped == {Text(3), Value(1), Formula(<<1, 0>>, 0), Formula(<<1, 1>>, 0)}

(* Texts alone. *)
MCTexts == {Text(3)}

MCTypedCells == {<<"at", 0, 0>>, <<"at", 1, 0>>, <<"at", 1, 1>>}

(* A sheet saved where there was more memory. *)
MCFiles ==
  {[cell |-> [p \in At |-> IF p \in {<<0, 0>>, <<1, 0>>} THEN Value(2)
                           ELSE IF p = <<1, 1>> THEN Text(3) ELSE Blank],
    width |-> [c \in 0 .. MaxCol |-> DefaultWidth], lastcol |-> 1, lastrow |-> 1]}

Init == part \in {"parser", "screen", "sheet"} /\ ParserIdle /\ ScreenInit /\ SheetInit

Next ==
  /\ UNCHANGED part
  /\ \/ part = "parser" /\ ParserNext /\ UNCHANGED <<screenVars, sheetVars>>
     \/ part = "screen" /\ ScreenNext /\ UNCHANGED <<parserVars, sheetVars>>
     \/ part = "sheet" /\ SheetNext /\ UNCHANGED <<parserVars, screenVars>>

vars == <<part, parserVars, screenVars, sheetVars>>

(* The loop of parse runs on by itself; nobody has to press a key. *)
Turn == part = "parser" /\ ParserTurn /\ UNCHANGED <<part, screenVars, sheetVars>>
Spec == Init /\ [][Next]_vars /\ WF_vars(Turn)
=============================================================================
