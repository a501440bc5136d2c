----------------------------- MODULE CalcSheet ------------------------------
(***************************************************************************)
(* MicroCalc's sheet (mcutil.c, mcommand.c): the cells, the memory they    *)
(* take, the last column and row in use, and the flags of blank cells over *)
(* which a text to their left is shown.  A formula is the name of one      *)
(* cell; each operator takes a sheet and returns the sheet after it, and   *)
(* reads lastcol and lastrow where the code does, loops included.          *)
(***************************************************************************)
EXTENDS Integers, FiniteSets, FiniteSetsExt, SequencesExt

CONSTANTS
  MaxCol, MaxRow,     \* MAXCOLS - 1 and MAXROWS - 1
  Letters, Tens,      \* 26 columns have one letter, rows before the 10th one digit
  MAXINPUT,           \* length of the longest input
  Memory,             \* memleft at the start
  Typed,              \* what users type, as contents of cells
  Widths,             \* widths of columns users set
  DefaultWidth,
  Files,              \* sheets that were saved elsewhere
  Careless,           \* whether users insert and delete columns and rows where
                      \* fixformula is known to go wrong (Harmless, below)
  Splitting           \* and columns where insertcol is known to part flags from
                      \* their text (Unsplit, below)

ASSUME SheetAssumption ==
  /\ {MaxCol, MaxRow, Letters, Tens, MAXINPUT, Memory} \subseteq Nat
  /\ Widths \cup {DefaultWidth} \subseteq Nat \ {0}
  /\ {Careless, Splitting} \subseteq BOOLEAN

VARIABLES sheet, autocalc

sheetVars == <<sheet, autocalc>>

At == (0 .. MaxCol) \X (0 .. MaxRow)

Blank == [kind |-> "blank"]
Text(n) == [kind |-> "text", len |-> n]
Value(n) == [kind |-> "value", v |-> n]
Formula(p, n) == [kind |-> "formula", ref |-> p, v |-> n]
HUGE_VAL == -1

Contents ==
  [kind : {"blank"}] \cup [kind : {"text"}, len : Nat] \cup [kind : {"value"}, v : Int]
    \cup [kind : {"formula"}, ref : Nat \X Nat, v : Int]

ASSUME ContentsAssumption ==
  /\ Typed \subseteq Contents \ {Blank}
  /\ \A file \in Files : /\ file.cell \in [At -> Contents]
                        /\ file.width \in [0 .. MaxCol -> Nat]
                        /\ file.lastcol \in 0 .. MaxCol /\ file.lastrow \in 0 .. MaxRow

EmptySheet(mem) ==
  [cell |-> [p \in At |-> Blank], over |-> {}, width |-> [c \in 0 .. MaxCol |-> DefaultWidth],
   lastcol |-> 0, lastrow |-> 0, memleft |-> mem]

Put(S, p, x) == [S EXCEPT !.cell = [q \in At |-> IF q = p THEN x ELSE @[q]]]
Is(S, p, kind) == S.cell[p].kind = kind
Used(S) == {p \in At : ~Is(S, p, "blank")}

(* The letters and digits of a cell's name, and what a cell takes from memory
   in the large data models. *)
rowwidth(row) == IF row + 1 >= Tens THEN 2 ELSE 1
Length(p) == (IF p[1] >= Letters THEN 2 ELSE 1) + rowwidth(p[2])
Size(x) == CASE x.kind = "text" -> 2 * (x.len \div 2 + 5)
             [] x.kind = "value" -> 16
             [] x.kind = "formula" -> 2 * (Length(x.ref) \div 2 + 9)
             [] x.kind = "blank" -> 0

-----------------------------------------------------------------------------
setlastcol(S) ==
  [S EXCEPT !.lastcol = Max({0} \cup {p[1] : p \in {q \in Used(S) :
                                             q[1] <= S.lastcol /\ q[2] <= S.lastrow}})]
setlastrow(S) ==
  [S EXCEPT !.lastrow = Max({0} \cup {p[2] : p \in {q \in Used(S) :
                                             q[1] <= S.lastcol /\ q[2] <= S.lastrow}})]

(* The blank cells in a row from column c to d. *)
BlankRun(S, c, d, row) == \A k \in c .. d : k \in 0 .. MaxCol /\ Is(S, <<k, row>>, "blank")

(* The cells the text at p is shown over. *)
Overrun(S, p) ==
  {q \in At : /\ q[2] = p[2] /\ q[1] > p[1] /\ BlankRun(S, p[1] + 1, q[1], p[2])
              /\ S.cell[p].len > MapThenSumSet(LAMBDA k : S.width[k], p[1] .. q[1] - 1)}

setoflags(S, p) == [S EXCEPT !.over = @ \cup Overrun(S, p)]

clearoflags(S, p) ==
  [S EXCEPT !.over = @ \ {q \in At : /\ q[2] = p[2] /\ q[1] >= p[1]
                                     /\ BlankRun(S, p[1], q[1], p[2])
                                     /\ \A k \in p[1] .. q[1] : <<k, p[2]>> \in S.over}]

(* From p back to the last cell that is not blank. *)
updateoflags(S, p) ==
  LET filled == {c \in 0 .. p[1] : ~Is(S, <<c, p[2]>>, "blank")}
      back == <<Max(filled), p[2]>>
  IN  IF filled # {} /\ Is(S, back, "text") THEN setoflags(S, back) ELSE S

(* alloctext, allocvalue, allocformula: the sheet is as before if there is too
   little memory. *)
alloc(S, p, x) ==
  IF S.memleft < Size(x) THEN S
  ELSE [Put(S, p, x) EXCEPT !.memleft = @ - Size(x)]

deletecell(S, p) ==
  LET cleared == IF Is(S, p, "text") THEN clearoflags(S, <<p[1] + 1, p[2]>>) ELSE S
      freed == [Put(cleared, p, Blank) EXCEPT !.memleft = @ + Size(S.cell[p]), !.over = @ \ {p}]
      narrowed == IF p[1] = freed.lastcol THEN setlastcol(freed) ELSE freed
      lowered == IF p[2] = narrowed.lastrow THEN setlastrow(narrowed) ELSE narrowed
  IN  IF Is(S, p, "blank") THEN S ELSE updateoflags(lowered, p)

-----------------------------------------------------------------------------
(* parse of a formula, and cellvalue; a name past the sheet is no formula, and
   then the value is 0. *)
cellvalue(S, p) ==
  IF p \notin At \/ Is(S, p, "blank") THEN 0
  ELSE IF Is(S, p, "text") THEN HUGE_VAL ELSE S.cell[p].v

(* The cells up to lastcol and lastrow, column by column. *)
ByColumns(S) ==
  [i \in 1 .. (S.lastcol + 1) * (S.lastrow + 1) |->
     <<(i - 1) \div (S.lastrow + 1), (i - 1) % (S.lastrow + 1)>>]

recalc(S) ==
  FoldLeft(LAMBDA T, p : IF Is(T, p, "formula")
                         THEN Put(T, p, [T.cell[p] EXCEPT !.v = cellvalue(T, T.cell[p].ref)]) ELSE T,
           S, ByColumns(S))

recalcIf(S) == IF autocalc THEN recalc(S) ELSE S

(* Mutant: the flags past the cell stay. *)
actUncleared(S, p, x) ==
  LET deleted == deletecell(S, p)
      parsed == IF x.kind = "formula" THEN [x EXCEPT !.v = cellvalue(deleted, x.ref)] ELSE x
      stored == alloc(deleted, p, parsed)
      uncovered == [stored EXCEPT !.over = @ \ {p}]
      shown == IF x.kind = "text" THEN setoflags(uncovered, p) ELSE uncovered
  IN  IF Is(stored, p, "blank") THEN stored
      ELSE recalcIf([shown EXCEPT !.lastcol = Max({@, p[1]}), !.lastrow = Max({@, p[2]})])

(* act: what was typed goes to p if there is memory for it. *)
act(S, p, x) ==
  LET deleted == deletecell(S, p)
      parsed == IF x.kind = "formula" THEN [x EXCEPT !.v = cellvalue(deleted, x.ref)] ELSE x
      stored == alloc(deleted, p, parsed)
      uncovered == clearoflags([stored EXCEPT !.over = @ \ {p}], <<p[1] + 1, p[2]>>)
      shown == IF x.kind = "text" THEN setoflags(uncovered, p) ELSE uncovered
  IN  IF Is(stored, p, "blank") THEN stored
      ELSE recalcIf([shown EXCEPT !.lastcol = Max({@, p[1]}), !.lastrow = Max({@, p[2]})])

-----------------------------------------------------------------------------
(* Where the cell at p goes, and where the cell now at p comes from, when
   column or row `place' is inserted or deleted. *)
Changes == {"COLADD", "COLDEL", "ROWADD", "ROWDEL"}
Target(action, place, p) ==
  CASE action = "COLADD" /\ p[1] >= place -> <<p[1] + 1, p[2]>>
    [] action = "ROWADD" /\ p[2] >= place -> <<p[1], p[2] + 1>>
    [] action = "COLDEL" /\ p[1] > place -> <<p[1] - 1, p[2]>>
    [] action = "ROWDEL" /\ p[2] > place -> <<p[1], p[2] - 1>>
    [] OTHER -> p
Source(action, place, p) ==
  CASE action = "COLADD" /\ p[1] > place -> <<p[1] - 1, p[2]>>
    [] action = "ROWADD" /\ p[2] > place -> <<p[1], p[2] - 1>>
    [] action = "COLDEL" /\ p[1] >= place /\ p[1] < MaxCol -> <<p[1] + 1, p[2]>>
    [] action = "ROWDEL" /\ p[2] >= place /\ p[2] < MaxRow -> <<p[1], p[2] + 1>>
    [] OTHER -> p

(* The cells the code sets to their defaults; the last row is left in place
   when a row above it is deleted. *)
Cleared(S, action, place) ==
  CASE action = "COLADD" -> {place} \X (0 .. MaxRow)
    [] action = "ROWADD" -> (0 .. MaxCol) \X {place}
    [] action = "COLDEL" -> {MaxCol} \X (0 .. MaxRow)
    [] action = "ROWDEL" -> IF place = MaxRow THEN (0 .. S.lastcol) \X {MaxRow} ELSE {}

Moved(S, action, place) ==
  LET clear == Cleared(S, action, place)
  IN  [S EXCEPT
        !.cell = [p \in At |-> IF p \in clear THEN Blank ELSE @[Source(action, place, p)]],
        !.over = {p \in At \ clear : Source(action, place, p) \in @},
        !.width = [c \in 0 .. MaxCol |-> IF <<c, 0>> \in clear /\ action \in {"COLADD", "COLDEL"}
                                         THEN DefaultWidth ELSE @[Source(action, place, <<c, 0>>)[1]]]]

(* The cells deleted first.  The loops read lastcol and lastrow, which
   deletecell lowers, at each turn. *)
EmptyCol(S, c) ==
  FoldLeft(LAMBDA T, r : IF r <= T.lastrow THEN deletecell(T, <<c, r>>) ELSE T,
           S, [r \in 1 .. S.lastrow + 1 |-> r - 1])
EmptyLastCol(S) ==
  FoldLeft(LAMBDA T, r : IF r <= T.lastrow THEN deletecell(T, <<T.lastcol, r>>) ELSE T,
           S, [r \in 1 .. S.lastrow + 1 |-> r - 1])
(* Mutant: the last column in use is left out. *)
EmptyRowShort(S, r) ==
  FoldLeft(LAMBDA T, c : IF c < T.lastcol THEN deletecell(T, <<c, r>>) ELSE T,
           S, [c \in 1 .. S.lastcol + 1 |-> c - 1])

EmptyRow(S, r) ==
  FoldLeft(LAMBDA T, c : IF c <= T.lastcol THEN deletecell(T, <<c, r>>) ELSE T,
           S, [c \in 1 .. S.lastcol + 1 |-> c - 1])
EmptyLastRow(S) ==
  FoldLeft(LAMBDA T, c : IF c <= T.lastcol THEN deletecell(T, <<c, T.lastrow>>) ELSE T,
           S, [c \in 1 .. S.lastcol + 1 |-> c - 1])

Emptied(S, action, place) ==
  CASE action = "COLADD" -> IF S.lastcol = MaxCol THEN EmptyLastCol(S) ELSE S
    [] action = "ROWADD" -> IF S.lastrow = MaxRow THEN EmptyLastRow(S) ELSE S
    [] action = "COLDEL" -> EmptyCol(S, place)
    [] action = "ROWDEL" -> EmptyRow(S, place)

(* Mutant: after an insertion the last column is the old one. *)
ResizedStale(S, action, place) ==
  CASE action = "COLADD" -> setlastcol(S)
    [] action = "ROWADD" -> setlastrow([S EXCEPT !.lastrow = MaxRow])
    [] action = "COLDEL" -> [S EXCEPT !.lastcol = IF @ >= place THEN Max({0, @ - 1}) ELSE @]
    [] action = "ROWDEL" -> [S EXCEPT !.lastrow = IF @ >= place THEN Max({0, @ - 1}) ELSE @]

Resized(S, action, place) ==
  CASE action = "COLADD" -> setlastcol([S EXCEPT !.lastcol = MaxCol])
    [] action = "ROWADD" -> setlastrow([S EXCEPT !.lastrow = MaxRow])
    [] action = "COLDEL" -> [S EXCEPT !.lastcol = IF @ >= place THEN Max({0, @ - 1}) ELSE @]
    [] action = "ROWDEL" -> [S EXCEPT !.lastrow = IF @ >= place THEN Max({0, @ - 1}) ELSE @]

(* fixformula: a name whose length changes is stored anew, as text if it would
   be too long. *)
fixformula(S, p, action, place) ==
  LET old == S.cell[p]
      new == IF old.ref \in At THEN Target(action, place, old.ref) ELSE old.ref
  IN  IF Length(new) = Length(old.ref) THEN Put(S, p, [old EXCEPT !.ref = new])
      ELSE alloc(deletecell(S, p), p,
                 IF Length(new) > MAXINPUT THEN Text(Length(old.ref)) ELSE [old EXCEPT !.ref = new])

(* The loops over the formulas; deletecell lowers lastcol and lastrow here too. *)
fixformulas(S, action, place) ==
  LET Fix(T, p) == IF Is(T, p, "formula") THEN fixformula(T, p, action, place) ELSE T
      Turn(T, p) == IF action \in {"COLADD", "COLDEL"} THEN updateoflags(Fix(T, p), <<place, p[2]>>)
                    ELSE Fix(T, p)
  IN  FoldLeft(LAMBDA T, p : IF p[1] <= T.lastcol /\ p[2] <= T.lastrow THEN Turn(T, p) ELSE T,
               S, ByColumns(S))

(* What the four commands do to the sheet. *)
shifted(S, action, place) ==
  recalc(fixformulas(Resized(Moved(Emptied(S, action, place), action, place), action, place),
                     action, place))

-----------------------------------------------------------------------------
(* clearsheet, then initvars. *)
clearsheet(S) ==
  LET places == [i \in 1 .. (S.lastcol + 1) * (S.lastrow + 1) |->
                   <<(i - 1) % (S.lastcol + 1), (i - 1) \div (S.lastcol + 1)>>]
      cleared == FoldLeft(LAMBDA T, p : IF p[1] <= T.lastcol /\ p[2] <= T.lastrow
                                        THEN deletecell(T, p) ELSE T, S, places)
  IN  EmptySheet(cleared.memleft)

(* What savesheet writes: the cells up to lastcol and lastrow that are in use,
   row by row, each row backwards. *)
savesheet(S) ==
  [cell |-> [p \in At |-> IF p[1] <= S.lastcol /\ p[2] <= S.lastrow THEN S.cell[p] ELSE Blank],
   width |-> S.width, lastcol |-> S.lastcol, lastrow |-> S.lastrow]

(* Mutant: each row forwards. *)
WrittenForwards(file) ==
  [i \in 1 .. (file.lastcol + 1) * (file.lastrow + 1) |->
     <<(i - 1) % (file.lastcol + 1), (i - 1) \div (file.lastcol + 1)>>]

Written(file) ==
  [i \in 1 .. (file.lastcol + 1) * (file.lastrow + 1) |->
     <<file.lastcol - ((i - 1) % (file.lastcol + 1)), (i - 1) \div (file.lastcol + 1)>>]

(* Loading one cell; `full' once a cell found too little memory. *)
loadcell(L, p, x) ==
  LET T == alloc(L.sheet, p, x)
  IN  IF L.full \/ x = Blank THEN L
      ELSE IF Is(T, p, "blank")
      THEN [L EXCEPT !.full = TRUE, !.sheet = [@ EXCEPT !.lastcol = L.col, !.lastrow = L.row]]
      ELSE [L EXCEPT !.sheet = IF Is(T, p, "text") THEN setoflags(T, p) ELSE T,
                     !.col = Max({@, p[1]}), !.row = Max({@, p[2]})]

loadsheet(S, file) ==
  LET empty == [clearsheet(S) EXCEPT !.width = file.width, !.lastcol = file.lastcol,
                                     !.lastrow = file.lastrow]
  IN  FoldLeft(LAMBDA L, p : loadcell(L, p, file.cell[p]),
               [sheet |-> empty, full |-> FALSE, col |-> 0, row |-> 0], Written(file)).sheet

(* setcolwidth: new flags in the rows in use, from the column on. *)
widened(S, c, w) ==
  LET Turn(T, r) == updateoflags(clearoflags(T, <<IF Is(T, <<c, r>>, "text") THEN c + 1 ELSE c, r>>),
                                 <<c, r>>)
  IN  FoldLeft(Turn, [S EXCEPT !.width[c] = w], [r \in 1 .. S.lastrow + 1 |-> r - 1])

-----------------------------------------------------------------------------
(* What users do.  A row is deleted only where the last row is blank or is the
   row: in other cases the last cells would be in two rows at once. *)
CanChange(S, action, place) ==
  action = "ROWDEL" => place = MaxRow \/ \A p \in Used(S) : p[2] # MaxRow

(* fixformula deletes a formula whose length changes before it stores it anew.
   That goes wrong in the last column and row in use, behind a text, and when
   there is no memory to store it. *)
Harmless(S, action, place) ==
  LET T == Resized(Moved(Emptied(S, action, place), action, place), action, place)
      longer == {p \in Used(T) : /\ Is(T, p, "formula") /\ T.cell[p].ref \in At
                                 /\ Length(Target(action, place, T.cell[p].ref))
                                      # Length(T.cell[p].ref)}
  IN  \A p \in longer : /\ p[1] # T.lastcol /\ p[2] # T.lastrow
                        /\ \A c \in 0 .. p[1] : ~Is(T, <<c, p[2]>>, "text")
                        /\ T.memleft >= 2 * Cardinality(longer)

(* insertcol flags what the text now calls for and takes no flag away.  A column
   inserted over a text leaves a flag behind past its end; one inserted at such a
   flag has none, and parts the flags after it from the text. *)
Unsplit(S, action, place) ==
  action = "COLADD" =>
    \A p \in S.over : p[1] = place =>
      \E q \in Used(S) : Is(S, q, "text") /\ p \in Overrun(S, q)

Change(action, place) ==
  /\ CanChange(sheet, action, place)
  /\ Careless \/ Harmless(sheet, action, place)
  /\ Splitting \/ Unsplit(sheet, action, place)
  /\ sheet' = shifted(sheet, action, place)
  /\ UNCHANGED autocalc

InsertCol(c) == Change("COLADD", c)
DeleteCol(c) == Change("COLDEL", c)
InsertRow(r) == Change("ROWADD", r)
DeleteRow(r) == Change("ROWDEL", r)

Enter(p, x) == sheet' = act(sheet, p, x) /\ UNCHANGED autocalc
Delete(p) == sheet' = recalcIf(deletecell(sheet, p)) /\ UNCHANGED autocalc
SetColWidth(c, w) == sheet' = widened(sheet, c, w) /\ UNCHANGED autocalc
Recalc == sheet' = recalc(sheet) /\ UNCHANGED autocalc
ChangeAutocalc ==
  /\ autocalc' = ~autocalc
  /\ sheet' = IF autocalc THEN sheet ELSE recalc(sheet)
Clear == sheet' = clearsheet(sheet) /\ UNCHANGED autocalc
Load(file) == sheet' = loadsheet(sheet, file) /\ UNCHANGED autocalc

SheetInit == sheet = EmptySheet(Memory) /\ autocalc = TRUE

SheetNext ==
  \/ \E p \in At : Delete(p) \/ \E x \in Typed : Enter(p, x)
  \/ \E c \in 0 .. MaxCol : InsertCol(c) \/ DeleteCol(c) \/ \E w \in Widths : SetColWidth(c, w)
  \/ \E r \in 0 .. MaxRow : InsertRow(r) \/ DeleteRow(r)
  \/ Recalc \/ ChangeAutocalc \/ Clear
  \/ \E file \in Files : Load(file)

-----------------------------------------------------------------------------
(* The free memory the screen shows, and cells what they take, add up to the
   memory there was, through every delete, insertion and failed load. *)
Accounted ==
  sheet.memleft + MapThenSumSet(LAMBDA p : Size(sheet.cell[p]), Used(sheet)) = Memory

(* A flag is only ever on a blank cell with a text as the next cell in use to
   its left, and the cells between have flags too.  displaycell leaves a flagged
   cell to that text, and clearoflags stops at the first cell with no flag: it
   leaves none behind, whatever was inserted, deleted, widened and loaded. *)
FlagsBelong ==
  \A p \in sheet.over :
    \E c \in 0 .. p[1] - 1 : /\ Is(sheet, <<c, p[2]>>, "text")
                             /\ BlankRun(sheet, c + 1, p[1], p[2])
                             /\ \A k \in c + 1 .. p[1] : <<k, p[2]>> \in sheet.over

(* Whatever column or row is inserted or deleted: each cell that is neither
   deleted nor in the way of the last column or row in use is at its new place,
   a formula as one that names the new place of the cell it named. *)
Moves(S, T, action, place) ==
  LET gone == CASE action = "COLDEL" -> {p \in At : p[1] = place}
                [] action = "ROWDEL" -> {p \in At : p[2] = place}
                [] OTHER -> {}
      Then(x) == IF x.kind = "formula" /\ x.ref \in At
                 THEN Target(action, place, x.ref) ELSE x.ref
  IN  \A p \in Used(S) \ gone :
        LET x == S.cell[p]  y == T.cell[Target(action, place, p)]
        IN  IF x.kind # "formula" THEN y = x
            ELSE IF Length(Then(x)) > MAXINPUT THEN y = Text(Length(x.ref))
            ELSE y.kind = "formula" /\ y.ref = Then(x)

Followed ==
  \A action \in Changes, place \in 0 .. Max({MaxCol, MaxRow}) :
    (/\ Used(sheet) # {}
     /\ place <= (IF action \in {"COLADD", "COLDEL"} THEN MaxCol ELSE MaxRow)
     /\ CanChange(sheet, action, place) /\ Harmless(sheet, action, place)
     /\ action = "COLADD" => sheet.lastcol < MaxCol
     /\ action = "ROWADD" => sheet.lastrow < MaxRow)
    => Moves(sheet, shifted(sheet, action, place), action, place)

(* A sheet that is saved and loaded again has its cells, its last column and
   row and its memory, and just the flags that its texts call for. *)
Reloaded ==
  LET T == loadsheet(sheet, savesheet(sheet))
  IN  /\ T.cell = sheet.cell /\ T.width = sheet.width /\ T.memleft = sheet.memleft
      /\ T.lastcol = sheet.lastcol /\ T.lastrow = sheet.lastrow
      /\ T.over = UNION {Overrun(T, p) : p \in {q \in Used(T) : Is(T, q, "text")}}

(* Inserting a column or row loses no cell but those of the last column or row,
   which leave the sheet: mcommand.c says no more than that it inserts one. *)
InsertKeeps ==
  [][\A c \in 0 .. MaxCol, r \in 0 .. MaxRow :
       /\ InsertCol(c) => \A p \in Used(sheet) : p[1] < MaxCol =>
                            sheet'.cell[Target("COLADD", c, p)].kind # "blank"
       /\ InsertRow(r) => \A p \in Used(sheet) : p[2] < MaxRow =>
                            sheet'.cell[Target("ROWADD", r, p)].kind # "blank"]_sheetVars
=============================================================================
