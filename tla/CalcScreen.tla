----------------------------- MODULE CalcScreen -----------------------------
(***************************************************************************)
(* MicroCalc's window on the sheet (mcalc.c, mcommand.c, mcutil.c): the    *)
(* columns and rows on the screen, the cell the user is at and the keys    *)
(* and commands that move them.  What the cells show is left out.          *)
(***************************************************************************)
EXTENDS Integers, FiniteSets, FiniteSetsExt

CONSTANTS
  MAXCOLS, MAXROWS,          \* the sheet
  ScreenWidth, SCREENROWS,   \* 80 and 20 in the code
  LEFTMARGIN,
  ColWidths,                 \* the widths a user can set, the least MINCOLWIDTH
  DEFAULTWIDTH,
  NamedCols                  \* the columns of the cell names typed at goto

SCREENCOLS == (ScreenWidth - LEFTMARGIN) \div Min(ColWidths) + 1

ASSUME ScreenAssumption ==
  /\ MAXCOLS \in Nat \ {0} /\ SCREENROWS \in Nat \ {0}
  /\ MAXROWS \in Nat /\ MAXROWS >= SCREENROWS
  /\ LEFTMARGIN \in Nat /\ ScreenWidth \in Nat
  /\ ColWidths \subseteq 1 .. ScreenWidth - LEFTMARGIN     \* MAXCOLWIDTH
  /\ DEFAULTWIDTH \in ColWidths
  /\ NamedCols \subseteq Int

VARIABLES
  colwidth,
  leftcol, rightcol, curcol,     \* the columns shown, and the user's
  toprow, bottomrow, currow      \* the rows

colVars == <<colwidth, leftcol, rightcol, curcol>>
rowVars == <<toprow, bottomrow, currow>>
screenVars == <<colVars, rowVars>>

Cols == 0 .. MAXCOLS - 1
Rows == 0 .. MAXROWS - 1

-----------------------------------------------------------------------------
(* Where column c begins on a screen with room for all columns. *)
edges(w) ==
  LET edge[c \in 0 .. MAXCOLS] == IF c = 0 THEN 0 ELSE edge[c - 1] + w[c - 1]
  IN  edge

(* What the columns from a to b take. *)
Width(w, a, b) == edges(w)[b + 1] - edges(w)[a]

(* setrightcol: the last of the columns from left on that fit the screen. *)
rightFrom(w, left) ==
  Max({c \in left - 1 .. MAXCOLS - 1 : LEFTMARGIN + Width(w, left, c) <= ScreenWidth})

(* setleftcol: the first of the columns up to right that leave the margin. *)
leftFrom(w, right) ==
  Min({c \in 0 .. right + 1 : ScreenWidth - Width(w, c, right) >= LEFTMARGIN})

setrightcol(left) == leftcol' = left /\ rightcol' = rightFrom(colwidth', left)

(* setleftcol and then setrightcol, and the other way round. *)
setBothTo(right) ==
  /\ leftcol' = leftFrom(colwidth', right)
  /\ rightcol' = rightFrom(colwidth', leftcol')
setBothFrom(left) ==
  /\ rightcol' = rightFrom(colwidth', left)
  /\ leftcol' = leftFrom(colwidth', rightcol')

setbottomrow(top) ==
  /\ toprow' = IF top + SCREENROWS > MAXROWS THEN MAXROWS - SCREENROWS ELSE top
  /\ bottomrow' = toprow' + SCREENROWS - 1

settoprow(bottom) ==
  /\ bottomrow' = IF bottom - SCREENROWS < -1 THEN SCREENROWS - 1 ELSE bottom
  /\ toprow' = bottomrow' - (SCREENROWS - 1)

ScreenInit ==
  /\ colwidth = [c \in Cols |-> DEFAULTWIDTH]
  /\ leftcol = 0 /\ curcol = 0 /\ rightcol = rightFrom(colwidth, 0)
  /\ toprow = 0 /\ currow = 0 /\ bottomrow = SCREENROWS - 1

-----------------------------------------------------------------------------
(* The keys of run(). *)
moverowup ==
  /\ IF currow > toprow THEN currow' = currow - 1 /\ UNCHANGED <<toprow, bottomrow>>
     ELSE /\ toprow # 0
          /\ currow' = currow - 1
          /\ setbottomrow(toprow - 1)
  /\ UNCHANGED colVars

moverowdown ==
  /\ IF currow < bottomrow THEN currow' = currow + 1 /\ UNCHANGED <<toprow, bottomrow>>
     ELSE /\ bottomrow < MAXROWS - 1
          /\ currow' = currow + 1
          /\ setbottomrow(toprow + 1)
  /\ UNCHANGED colVars

movecolleft ==
  /\ curcol > leftcol \/ leftcol # 0
  /\ curcol' = curcol - 1
  /\ UNCHANGED <<colwidth, rowVars>>
  /\ IF curcol > leftcol THEN UNCHANGED <<leftcol, rightcol>>
     ELSE setBothFrom(leftcol - 1)

movecolright ==
  /\ curcol < rightcol \/ rightcol < MAXCOLS - 1
  /\ curcol' = curcol + 1
  /\ UNCHANGED <<colwidth, rowVars>>
  /\ IF curcol < rightcol THEN UNCHANGED <<leftcol, rightcol>>
     ELSE setBothTo(rightcol + 1)

PageUp ==
  LET cur == currow - SCREENROWS
      top == toprow - SCREENROWS
  IN  /\ currow' = IF cur < 0 THEN 0 ELSE IF top < 0 THEN cur - top ELSE cur
      /\ setbottomrow(IF cur < 0 \/ top < 0 THEN 0 ELSE top)
      /\ UNCHANGED colVars

PageDown ==
  LET cur == currow + SCREENROWS
      top == toprow + SCREENROWS
      past == top - (MAXROWS - SCREENROWS)
  IN  /\ currow' = IF cur >= MAXROWS /\ top >= MAXROWS THEN MAXROWS - 1
                   ELSE IF past > 0 THEN cur - past ELSE cur
      /\ setbottomrow(IF past > 0 THEN MAXROWS - SCREENROWS ELSE top)
      /\ UNCHANGED colVars

CtrlLeft ==
  /\ UNCHANGED <<colwidth, rowVars>>
  /\ IF leftcol = 0 THEN curcol' = 0 /\ UNCHANGED <<leftcol, rightcol>>
     ELSE curcol' = leftcol - 1 /\ setBothTo(leftcol - 1)

CtrlRight ==
  /\ UNCHANGED <<colwidth, rowVars>>
  /\ IF rightcol = MAXCOLS - 1 THEN curcol' = rightcol /\ UNCHANGED <<leftcol, rightcol>>
     ELSE curcol' = rightcol + 1 /\ setBothFrom(rightcol + 1)

Home ==
  /\ UNCHANGED colwidth
  /\ curcol' = 0 /\ currow' = 0
  /\ setrightcol(0)
  /\ setbottomrow(0)

(* ENDKEY: to the last column and row of the sheet. *)
End(lastcol, lastrow) ==
  /\ UNCHANGED colwidth
  /\ curcol' = lastcol /\ currow' = lastrow
  /\ settoprow(lastrow)
  /\ setBothTo(lastcol)

(* The same from a column before the first.  The widths there are bytes that are
   no widths, zeros among them, so setrightcol may stop at any column; what it
   writes past colstart is left out. *)
setBothBefore(left) ==
  \E right \in left - 1 .. MAXCOLS - 1 :
    /\ right >= 0 => LEFTMARGIN + Width(colwidth', 0, right) <= ScreenWidth
    /\ rightcol' = right
    /\ leftcol' = IF right < 0 THEN right + 1 ELSE leftFrom(colwidth', right)

(* getcell takes the first character of a name for the column whatever it is,
   and refuses only what lies past the sheet: a digit or a sign gives a negative
   column. *)
getcell(col) == col < MAXCOLS

(* gotocell: a cell that is typed. *)
gotocell(col, row) ==
  /\ getcell(col)
  /\ UNCHANGED colwidth
  /\ curcol' = col /\ currow' = row
  /\ setbottomrow(row)
  /\ IF col >= 0 THEN setBothFrom(col) ELSE setBothBefore(col)

(* clearsheet, and loadsheet with the widths of the file. *)
NewSheet(widths) ==
  /\ colwidth' = widths
  /\ curcol' = 0 /\ currow' = 0
  /\ setrightcol(0)
  /\ setbottomrow(0)

-----------------------------------------------------------------------------
(* The commands that change widths, at the user's column. *)
setcolwidth(width) ==
  /\ colwidth' = [colwidth EXCEPT ![curcol] = width]
  /\ IF rightFrom(colwidth', leftcol) < curcol THEN setBothTo(curcol)
     ELSE setrightcol(leftcol)
  /\ UNCHANGED <<curcol, rowVars>>

(* Mutant: the user's column may be left outside the window. *)
MoveWidthsOnly(widths) ==
  /\ colwidth' = widths
  /\ setrightcol(leftcol)
  /\ UNCHANGED <<curcol, rowVars>>

(* deletecol and insertcol: if the user's column no longer fits, the window
   moves right by one column. *)
MoveWidths(widths) ==
  /\ colwidth' = widths
  /\ IF curcol > rightFrom(widths, leftcol)
     THEN /\ rightcol' = rightFrom(widths, leftcol) + 1
          /\ leftcol' = leftFrom(widths, rightcol')
     ELSE setrightcol(leftcol)
  /\ UNCHANGED <<curcol, rowVars>>

deletecol ==
  MoveWidths([c \in Cols |-> IF c < curcol THEN colwidth[c]
                             ELSE IF c = MAXCOLS - 1 THEN DEFAULTWIDTH
                             ELSE colwidth[c + 1]])
insertcol ==
  MoveWidths([c \in Cols |-> IF c < curcol THEN colwidth[c]
                             ELSE IF c = curcol THEN DEFAULTWIDTH
                             ELSE colwidth[c - 1]])

(* At a column that is none the program reads and writes memory that is not the
   sheet's: the model follows it no further. *)
ScreenNext ==
  /\ curcol \in Cols
  /\ \/ moverowup \/ moverowdown \/ movecolleft \/ movecolright
     \/ PageUp \/ PageDown \/ CtrlLeft \/ CtrlRight \/ Home
     \/ \E col \in Cols, row \in Rows : End(col, row)
     \/ \E col \in NamedCols, row \in Rows : gotocell(col, row)
     \/ \E width \in ColWidths : setcolwidth(width) \/ NewSheet([c \in Cols |-> width])
     \/ deletecol \/ insertcol

ScreenSpec == ScreenInit /\ [][ScreenNext]_screenVars
-----------------------------------------------------------------------------
(* Every name typed at goto begins with a letter, which getcell does not see to. *)
LettersFirst == \A col \in NamedCols : col >= 0

(* Whatever keys are pressed and widths set, the user's cell is in the window,
   the window lies in the sheet, its columns fit the screen, its rows fill it,
   and the loops that place the columns write no more than the SCREENCOLS
   places of colstart, one of them for a column that does not fit - as long as
   LettersFirst: `11` at goto puts the user at column -16 (mcommand.c:485). *)
CursorShown ==
  /\ 0 <= leftcol /\ leftcol <= curcol /\ curcol <= rightcol /\ rightcol < MAXCOLS
  /\ 0 <= toprow /\ toprow <= currow /\ currow <= bottomrow /\ bottomrow < MAXROWS
  /\ LEFTMARGIN + Width(colwidth, leftcol, rightcol) <= ScreenWidth
  /\ bottomrow = toprow + SCREENROWS - 1
  /\ rightcol - leftcol + 2 <= SCREENCOLS
=============================================================================
