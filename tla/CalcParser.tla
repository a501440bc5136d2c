----------------------------- MODULE CalcParser -----------------------------
(***************************************************************************)
(* MicroCalc's parser (mcparser.c): the tables of an LALR parser and the   *)
(* loop that drives them.  A token is what nexttoken makes of the next     *)
(* characters; the value of a token is the tree of the operations that     *)
(* computed it.  The input is chosen token by token, as the parser asks,   *)
(* and when one input is parsed the next may be typed.                     *)
(***************************************************************************)
EXTENDS Integers, SequencesExt

CONSTANTS
  PARSERSTACKSIZE,
  TypedCells,      \* the cells that occur in what is typed, <<"at", col, row>>
  MaxTokens        \* bound on the tokens of one input before its end

ASSUME ParserAssumption ==
  /\ PARSERSTACKSIZE \in Nat \ {0} /\ MaxTokens \in Nat
  /\ TypedCells \subseteq {"at"} \X Nat \X Nat

VARIABLES
  stack,       \* tokens, the last on top: their state and value
  tokentype,   \* the token looked at
  read,        \* the tokens of the input so far, tokentype the last of them
  errno,       \* errno is ERANGE
  att          \* the attribute parse returns, "none" while it runs

parserVars == <<stack, tokentype, read, errno, att>>

Token(type, x) == [type |-> type, x |-> x]
Plain == {"+", "-", "*", "/", "^", ":", "(", ")", "FUNC", "EOLN"}
Bad == Token("BAD", << >>)

(* What the next characters may be; "HUGE" is a number too large for atof. *)
Inputs == {Token(s, << >>) : s \in Plain \cup {"NUM", "HUGE", "BAD"}}
            \cup {Token("CELL", c) : c \in TypedCells}

(* nexttoken: errno is set and never cleared, so that after one number out of
   range all numbers are bad. *)
nexttoken(before) ==
  \E tok \in IF Len(before) = MaxTokens THEN {Token("EOLN", << >>)} ELSE Inputs :
    /\ errno' = (errno \/ tok.type = "HUGE")
    /\ tokentype' = IF tok.type = "HUGE" \/ (tok.type = "NUM" /\ errno) THEN Bad ELSE tok
    /\ read' = Append(before, tok)

ParserIdle ==
  /\ stack = << >> /\ read = << >>
  /\ tokentype = Bad
  /\ errno = FALSE
  /\ att = "TEXT"

-----------------------------------------------------------------------------
(* The tables: shifts by state and token, reductions by state, and the state
   that a production leads to from the one below it. *)
Expecting == {0, 9, 12, 13, 14, 15, 16, 20}

(* Mutant: after the '-' of a difference a product is not waited for. *)
ShiftsLoose ==
  {<<Expecting \cup {5}, "NUM", 10>>, <<Expecting \cup {5}, "CELL", 7>>,
   <<Expecting \cup {5}, "FUNC", 11>>, <<Expecting \cup {5}, "(", 9>>, <<Expecting, "-", 5>>,
   <<{1, 19, 28}, "+", 12>>, <<{1, 19, 28}, "-", 13>>, <<{19}, ")", 27>>, <<{28}, ")", 29>>,
   <<{2, 21}, "*", 14>>, <<{2, 21, 22}, "/", 15>>, <<{4}, "^", 16>>,
   <<{7}, ":", 18>>, <<{18}, "CELL", 26>>, <<{11}, "(", 20>>}

Shifts ==
  {<<Expecting \cup {5}, "NUM", 10>>, <<Expecting \cup {5}, "CELL", 7>>,
   <<Expecting \cup {5}, "FUNC", 11>>, <<Expecting \cup {5}, "(", 9>>, <<Expecting, "-", 5>>,
   <<{1, 19, 28}, "+", 12>>, <<{1, 19, 28}, "-", 13>>, <<{19}, ")", 27>>, <<{28}, ")", 29>>,
   <<{2, 21, 22}, "*", 14>>, <<{2, 21, 22}, "/", 15>>, <<{4}, "^", 16>>,
   <<{7}, ":", 18>>, <<{18}, "CELL", 26>>, <<{11}, "(", 20>>}

Reductions ==
  {<<2, 3>>, <<3, 6>>, <<4, 8>>, <<6, 10>>, <<7, 13>>, <<8, 12>>, <<10, 15>>, <<17, 9>>,
   <<21, 1>>, <<22, 2>>, <<23, 4>>, <<24, 5>>, <<25, 7>>, <<26, 11>>, <<27, 14>>, <<29, 16>>}

(* Mutant: production 3, of e, taken with those of t. *)
GotosShort ==
  {<<1 .. 2, {0}, 1>>, <<1 .. 2, {9}, 19>>, <<1 .. 2, {20}, 28>>,
   <<3 .. 6, {0, 9, 20}, 2>>, <<3 .. 6, {12}, 21>>, <<3 .. 6, {13}, 22>>,
   <<7 .. 8, {0, 9, 12, 13, 20}, 3>>, <<7 .. 8, {14}, 23>>, <<7 .. 8, {15}, 24>>,
   <<7 .. 8, {16}, 25>>, <<9 .. 10, Expecting, 4>>, <<11 .. 12, Expecting, 6>>,
   <<11 .. 12, {5}, 17>>, <<13 .. 16, Expecting \cup {5}, 8>>}

Gotos ==
  {<<1 .. 3, {0}, 1>>, <<1 .. 3, {9}, 19>>, <<1 .. 3, {20}, 28>>,
   <<4 .. 6, {0, 9, 20}, 2>>, <<4 .. 6, {12}, 21>>, <<4 .. 6, {13}, 22>>,
   <<7 .. 8, {0, 9, 12, 13, 20}, 3>>, <<7 .. 8, {14}, 23>>, <<7 .. 8, {15}, 24>>,
   <<7 .. 8, {16}, 25>>, <<9 .. 10, Expecting, 4>>, <<11 .. 12, Expecting, 6>>,
   <<11 .. 12, {5}, 17>>, <<13 .. 16, Expecting \cup {5}, 8>>}

gotostate(production, s) ==
  LET rows == {g \in Gotos : production \in g[1] /\ s \in g[2]}
  IN  IF rows = {} THEN 30 ELSE (CHOOSE g \in rows : TRUE)[3]

-----------------------------------------------------------------------------
(* Productions 3, 6, 8, 10, 12 and 15 pass the value on. *)
popped(production) ==
  CASE production \in {1, 2, 4, 5, 7, 11, 14} -> 3 [] production = 9 -> 2
    [] production = 16 -> 4 [] OTHER -> 1

valueOf(production) ==
  LET x(i) == stack[Len(stack) + 1 - i].x
  IN  CASE production = 1 -> <<"+", x(3), x(1)>>
        [] production = 2 -> <<"-", x(3), x(1)>>
        [] production = 4 -> <<"*", x(3), x(1)>>
        [] production = 5 -> <<"/", x(3), x(1)>>
        [] production = 7 -> <<"^", x(3), x(1)>>
        [] production = 9 -> <<"-", x(1)>>
        [] production = 11 -> <<"sum", x(3), x(1)>>
        [] production = 13 -> <<"cell", x(1)>>
        [] production = 14 -> x(2)
        [] production = 16 -> <<"func", x(2)>>
        [] OTHER -> x(1)

(* reduction 11 adds cells along a row or down a column. *)
Summable(from, to) ==
  \/ to[3] = from[3] /\ to[2] >= from[2]
  \/ to[3] # from[3] /\ to[2] = from[2] /\ to[3] >= from[3]

(* push, which refuses when the stack is full. *)
Overflows(st) == Len(st) = PARSERSTACKSIZE
push(st, state, x) == IF Overflows(st) THEN st ELSE Append(st, [state |-> state, x |-> x])

state == Last(stack).state
Failed(error) == att' = IF error THEN "TEXT" ELSE "none"

shift(s) ==
  /\ stack' = push(stack, s, IF tokentype.type = "NUM" THEN <<"num">> ELSE tokentype.x)
  /\ nexttoken(read)
  /\ Failed(Overflows(stack))

reduce(production) ==
  LET rest == SubSeq(stack, 1, Len(stack) - popped(production))
  IN  /\ stack' = push(rest, gotostate(production, Last(rest).state), valueOf(production))
      /\ Failed(\/ Overflows(rest)
                \/ production = 11 /\ ~Summable(stack[Len(stack) - 2].x, Last(stack).x))
      /\ UNCHANGED <<tokentype, read, errno>>

(* parse, up to its loop. *)
StartParse ==
  /\ att # "none"
  /\ stack' = <<[state |-> 0, x |-> <<"num">>]>>
  /\ nexttoken(<< >>)
  /\ att' = "none"

(* A turn of its loop: shift, reduce, accept or refuse. *)
Shiftable == {row \in Shifts : state \in row[1] /\ tokentype.type = row[2]}
Reducible == {row \in Reductions : state = row[1]}
Accepts == state = 1 /\ tokentype.type = "EOLN"

Finish ==
  /\ att' = IF ~Accepts THEN "TEXT"
            ELSE IF \E i \in DOMAIN read : read[i].type = "CELL" THEN "FORMULA"
            ELSE "VALUE"
  /\ UNCHANGED <<stack, tokentype, read, errno>>

ParserTurn ==
  /\ att = "none"
  /\ \/ \E row \in Shiftable : shift(row[3])
     \/ Shiftable = {} /\ \E row \in Reducible : reduce(row[2])
     \/ Shiftable = {} /\ Reducible = {} /\ Finish

ParserNext == StartParse \/ ParserTurn
ParserSpec == ParserIdle /\ [][ParserNext]_parserVars /\ WF_parserVars(ParserTurn)
-----------------------------------------------------------------------------
Grammar == INSTANCE CalcGrammar

(* Whether w begins a formula.  What does can be ended by an operand, by the
   last cell again if it is a sum that was begun, and by parentheses. *)
Begins(w) ==
  LET lastCell == IF Len(w) < 2 THEN << >> ELSE w[Len(w) - 1].x
      num == Token("NUM", << >>)
  IN  \E operand \in {<< >>, <<num>>, <<Token("(", << >>), num>>, <<Token("CELL", lastCell)>>},
         closing \in 0 .. Len(w) + 1 :
        Grammar!e(w \o operand \o [i \in 1 .. closing |-> Token(")", << >>)]) # {}

(* parse finds just the formulas: an input it accepts has one tree in the
   grammar of mcalc.doc, the one it computed by; the tokens read of an input it
   refuses begin no formula.  A stack that is full and a number after one out
   of range also end in text (parse, gotostate, reduce). *)
ParsesTheGrammar ==
  att # "none" /\ stack # << >> =>
    IF att # "TEXT" THEN Grammar!e(Front(read)) = {Last(stack).x}
    ELSE \/ Overflows(stack) \/ errno
         \/ ~Begins(read) /\ (Last(read) = Token("EOLN", << >>) => Grammar!e(Front(read)) = {})

(* Every input is parsed to the end: the loop reduces only finitely often
   between two shifts (parse). *)
ParseEnds == att = "none" ~> att # "none"
=============================================================================
