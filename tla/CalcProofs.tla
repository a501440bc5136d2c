----------------------------- MODULE CalcProofs ------------------------------
(***************************************************************************)
(* MicroCalc's window on the sheet, for every size of sheet and screen and *)
(* every set of widths: the user's cell never leaves the window.  Then the *)
(* sheet itself, for every size of sheet, every contents and every file:   *)
(* the free memory and what the cells take add up to all there was.        *)
(***************************************************************************)
EXTENDS CalcScreen, CalcSheet, Induction

AllWidths == [Cols -> ColWidths]

LEMMA Sizes ==
  /\ MAXCOLS \in Nat /\ MAXCOLS >= 1
  /\ SCREENROWS \in Nat /\ SCREENROWS >= 1
  /\ MAXROWS \in Nat /\ MAXROWS >= SCREENROWS
  /\ LEFTMARGIN \in Nat /\ ScreenWidth \in Nat
  /\ DEFAULTWIDTH \in ColWidths
  /\ \A w \in ColWidths : w \in Nat /\ w >= 1 /\ LEFTMARGIN + w <= ScreenWidth
  BY ScreenAssumption

(* The least width. *)
LEMMA MinWidth ==
  /\ Min(ColWidths) \in Nat /\ Min(ColWidths) >= 1
  /\ \A w \in ColWidths : w >= Min(ColWidths)
<1>1. ColWidths \in SUBSET Nat /\ DEFAULTWIDTH \in ColWidths
  BY Sizes
<1>2. \E m \in ColWidths : \A y \in ColWidths : m <= y
  BY <1>1, Least
<1>3. Min(ColWidths) \in ColWidths /\ \A y \in ColWidths : Min(ColWidths) <= y
  BY <1>2 DEF Min
<1> QED
  BY <1>3, Sizes

-----------------------------------------------------------------------------
(* The edges of the columns. *)
LEMMA Edges ==
  ASSUME NEW w \in AllWidths
  PROVE  /\ edges(w) \in [0 .. MAXCOLS -> Nat]
         /\ edges(w)[0] = 0
         /\ \A c \in Cols : /\ c \in 0 .. MAXCOLS /\ c + 1 \in 0 .. MAXCOLS
                            /\ edges(w)[c + 1] = edges(w)[c] + w[c]
<1>1. MAXCOLS \in Nat /\ \A i \in 0 .. MAXCOLS - 1 : w[i] \in Nat
  BY Sizes DEF AllWidths, Cols
<1>2. \E f \in [0 .. MAXCOLS -> Nat] :
        f = [c \in 0 .. MAXCOLS |-> IF c = 0 THEN 0 ELSE f[c - 1] + w[c - 1]]
  BY <1>1, SumExists
<1>3. PICK f \in [0 .. MAXCOLS -> Nat] :
        f = [c \in 0 .. MAXCOLS |-> IF c = 0 THEN 0 ELSE f[c - 1] + w[c - 1]]
  BY <1>2
<1> DEFINE e == CHOOSE g : g = [c \in 0 .. MAXCOLS |->
                                  IF c = 0 THEN 0 ELSE g[c - 1] + w[c - 1]]
<1>4. e = [c \in 0 .. MAXCOLS |-> IF c = 0 THEN 0 ELSE e[c - 1] + w[c - 1]]
  BY <1>3
<1>5. edges(w) = e
  BY DEF edges
<1> HIDE DEF e
<1>6. e[0] = 0 /\ \A c \in 1 .. MAXCOLS : e[c] = e[c - 1] + w[c - 1]
  BY <1>1, <1>4
<1> DEFINE S == {n \in Nat : n <= MAXCOLS => e[n] \in Nat}
<1>7. \A n \in Nat : n \in S
  <2>1. 0 \in S
    BY <1>6
  <2>2. ASSUME NEW n \in Nat, n \in S
        PROVE  n + 1 \in S
    <3> SUFFICES ASSUME n + 1 <= MAXCOLS
                 PROVE  e[n + 1] \in Nat
      OBVIOUS
    <3>1. e[n + 1] = e[n] + w[n] /\ e[n] \in Nat /\ w[n] \in Nat
      BY <1>1, <1>6, <2>2
    <3> QED BY <3>1
  <2> HIDE DEF S
  <2> QED BY <2>1, <2>2, NatInduct
<1>8. e \in [0 .. MAXCOLS -> Nat]
  <2>1. \A n \in 0 .. MAXCOLS : e[n] \in Nat
    BY <1>1, <1>7
  <2>2. e = [c \in 0 .. MAXCOLS |-> e[c]]
    BY <1>4
  <2> QED BY <2>1, <2>2
<1> QED
  BY <1>1, <1>5, <1>6, <1>8 DEF Cols

(* Each of the columns from a to b - 1 takes the least width or more. *)
LEMMA EdgesGrow ==
  ASSUME NEW w \in AllWidths, NEW a \in 0 .. MAXCOLS, NEW b \in 0 .. MAXCOLS,
         a <= b
  PROVE  edges(w)[b] >= edges(w)[a] + (b - a) * Min(ColWidths)
<1> DEFINE e == edges(w)
           m == Min(ColWidths)
           S == {n \in Nat : a + n <= MAXCOLS => e[a + n] >= e[a] + n * m}
<1>1. /\ e \in [0 .. MAXCOLS -> Nat] /\ MAXCOLS \in Nat
      /\ \A c \in Cols : e[c + 1] = e[c] + w[c] /\ w[c] \in Nat /\ w[c] >= m
      /\ m \in Nat
  BY Edges, MinWidth, Sizes DEF AllWidths
<1> HIDE DEF e, m
<1>2. 0 \in S
  BY <1>1
<1>3. ASSUME NEW n \in Nat, n \in S
      PROVE  n + 1 \in S
  <2> SUFFICES ASSUME a + (n + 1) <= MAXCOLS
               PROVE  e[a + (n + 1)] >= e[a] + (n + 1) * m
    OBVIOUS
  <2>1. a + n \in Cols /\ (a + n) + 1 = a + (n + 1) /\ a + n \in 0 .. MAXCOLS
    BY <1>1 DEF Cols
  <2>2. e[a + n] >= e[a] + n * m
    BY <1>1, <1>3
  <2>3. e[a + (n + 1)] = e[a + n] + w[a + n] /\ w[a + n] >= m /\ w[a + n] \in Nat
    BY <1>1, <2>1
  <2>4. (n + 1) * m = n * m + m /\ n * m \in Nat
    BY <1>1
  <2>5. e[a + n] \in Nat /\ e[a] \in Nat
    BY <1>1, <2>1
  <2> HIDE DEF S
  <2> QED BY <1>1, <2>2, <2>3, <2>4, <2>5
<1>4. \A n \in Nat : n \in S
  <2> HIDE DEF S
  <2> QED BY <1>2, <1>3, NatInduct
<1>5. b - a \in Nat /\ a + (b - a) = b /\ b <= MAXCOLS
  BY <1>1
<1>6. e[b] >= e[a] + (b - a) * m
  BY <1>4, <1>5
<1> QED
  BY <1>6 DEF e, m

(* Edges depend on the widths of the columns before them only. *)
LEMMA EdgesAgree ==
  ASSUME NEW v \in AllWidths, NEW w \in AllWidths, NEW k \in 0 .. MAXCOLS,
         \A c \in 0 .. k - 1 : v[c] = w[c]
  PROVE  \A c \in 0 .. k : edges(v)[c] = edges(w)[c]
<1> DEFINE d == edges(v)
           e == edges(w)
           S == {n \in Nat : n <= k => d[n] = e[n]}
<1>1. /\ d[0] = 0 /\ e[0] = 0 /\ MAXCOLS \in Nat
      /\ \A c \in Cols : d[c + 1] = d[c] + v[c] /\ e[c + 1] = e[c] + w[c]
  BY Edges, Sizes
<1> HIDE DEF d, e
<1>2. 0 \in S
  BY <1>1
<1>3. ASSUME NEW n \in Nat, n \in S
      PROVE  n + 1 \in S
  <2> SUFFICES ASSUME n + 1 <= k
               PROVE  d[n + 1] = e[n + 1]
    OBVIOUS
  <2>1. n \in Cols /\ n \in 0 .. k - 1 /\ d[n] = e[n]
    BY <1>1, <1>3 DEF Cols
  <2> QED BY <1>1, <2>1
<1>4. \A n \in Nat : n \in S
  <2> HIDE DEF S
  <2> QED BY <1>2, <1>3, NatInduct
<1>5. \A c \in 0 .. k : d[c] = e[c]
  BY <1>4
<1> QED
  BY <1>5 DEF d, e

-----------------------------------------------------------------------------
(* The columns from a to b fit the screen. *)
Fits(w, a, b) == LEFTMARGIN + Width(w, a, b) <= ScreenWidth

LEMMA WidthNumber ==
  ASSUME NEW w \in AllWidths, NEW a \in 0 .. MAXCOLS, NEW b \in a - 1 .. MAXCOLS - 1
  PROVE  /\ Width(w, a, b) \in Nat
         /\ Width(w, a, b) >= (b - a + 1) * Min(ColWidths)
<1>1. b + 1 \in 0 .. MAXCOLS /\ a <= b + 1 /\ MAXCOLS \in Nat
  BY Sizes
<1>2. edges(w)[b + 1] >= edges(w)[a] + ((b + 1) - a) * Min(ColWidths)
  BY <1>1, EdgesGrow
<1>3. edges(w)[b + 1] \in Nat /\ edges(w)[a] \in Nat
  BY <1>1, Edges
<1>4. /\ (b + 1) - a = b - a + 1
      /\ ((b + 1) - a) * Min(ColWidths) \in Nat
  BY <1>1, MinWidth
<1> QED
  BY <1>2, <1>3, <1>4 DEF Width

(* Fewer columns fit where more do, and one column always does. *)
LEMMA FitsWithin ==
  ASSUME NEW w \in AllWidths,
         NEW a \in 0 .. MAXCOLS, NEW b \in a - 1 .. MAXCOLS - 1, Fits(w, a, b),
         NEW c \in a .. MAXCOLS, NEW d \in c - 1 .. b
  PROVE  Fits(w, c, d)
<1>1. /\ a \in 0 .. MAXCOLS /\ c \in 0 .. MAXCOLS
      /\ d + 1 \in 0 .. MAXCOLS /\ b + 1 \in 0 .. MAXCOLS
      /\ a <= c /\ d + 1 <= b + 1
  BY Sizes
<1>2. edges(w)[c] >= edges(w)[a] + (c - a) * Min(ColWidths)
  BY <1>1, EdgesGrow
<1>3. edges(w)[b + 1] >= edges(w)[d + 1] + ((b + 1) - (d + 1)) * Min(ColWidths)
  BY <1>1, EdgesGrow
<1>4. /\ (c - a) * Min(ColWidths) \in Nat
      /\ ((b + 1) - (d + 1)) * Min(ColWidths) \in Nat
  BY <1>1, MinWidth
<1>5. /\ edges(w)[a] \in Nat /\ edges(w)[c] \in Nat
      /\ edges(w)[b + 1] \in Nat /\ edges(w)[d + 1] \in Nat
  BY <1>1, Edges
<1>6. edges(w)[c] >= edges(w)[a] /\ edges(w)[b + 1] >= edges(w)[d + 1]
  BY <1>2, <1>3, <1>4, <1>5
<1> QED
  BY <1>5, <1>6, Sizes DEF Fits, Width

LEMMA OneFits ==
  ASSUME NEW w \in AllWidths, NEW c \in Cols
  PROVE  Fits(w, c, c)
<1>1. edges(w)[c + 1] = edges(w)[c] + w[c] /\ edges(w)[c] \in Nat
  BY Edges
<1>2. w[c] \in Nat /\ LEFTMARGIN + w[c] <= ScreenWidth
  BY Sizes DEF AllWidths
<1> QED
  BY <1>1, <1>2, Sizes DEF Fits, Width

(* setrightcol: the columns from left to the one it finds fit, and no more. *)
LEMMA RightFrom ==
  ASSUME NEW w \in AllWidths, NEW left \in Cols
  PROVE  /\ rightFrom(w, left) \in left .. MAXCOLS - 1
         /\ Fits(w, left, rightFrom(w, left))
         /\ \A c \in left .. MAXCOLS - 1 : Fits(w, left, c) => c <= rightFrom(w, left)
<1> DEFINE S == {c \in left - 1 .. MAXCOLS - 1 : Fits(w, left, c)}
<1>1. left \in S
  BY OneFits, Sizes DEF Cols
<1>2. S \in SUBSET Int /\ MAXCOLS - 1 \in Int /\ \A y \in S : y <= MAXCOLS - 1
  BY Sizes DEF Cols
<1>3. \E m \in S : \A y \in S : m >= y
  <2> HIDE DEF S
  <2> QED BY <1>1, <1>2, Greatest
<1>4. rightFrom(w, left) = Max(S)
  BY DEF rightFrom, Fits
<1>5. Max(S) \in S /\ \A y \in S : Max(S) >= y
  <2> HIDE DEF S
  <2> QED BY <1>3 DEF Max
<1>6. Max(S) >= left
  BY <1>1, <1>5
<1> QED
  BY <1>4, <1>5, <1>6, Sizes DEF Cols

(* setleftcol, the other way round. *)
LEMMA LeftFrom ==
  ASSUME NEW w \in AllWidths, NEW right \in Cols
  PROVE  /\ leftFrom(w, right) \in 0 .. right
         /\ Fits(w, leftFrom(w, right), right)
         /\ \A c \in 0 .. right : Fits(w, c, right) => leftFrom(w, right) <= c
<1> DEFINE S == {c \in 0 .. right + 1 : Fits(w, c, right)}
<1>1. right \in S
  BY OneFits, Sizes DEF Cols
<1>2. S \in SUBSET Nat
  BY Sizes DEF Cols
<1>3. \E m \in S : \A y \in S : m <= y
  <2> HIDE DEF S
  <2> QED BY <1>1, <1>2, Least
<1>4. leftFrom(w, right) = Min(S)
  <2>1. ASSUME NEW c \in 0 .. right + 1
        PROVE  ScreenWidth - Width(w, c, right) >= LEFTMARGIN <=> Fits(w, c, right)
    <3>1. c \in 0 .. MAXCOLS /\ right \in c - 1 .. MAXCOLS - 1
      BY Sizes DEF Cols
    <3>2. Width(w, c, right) \in Nat
      BY <3>1, WidthNumber
    <3> QED BY <3>2, Sizes DEF Fits
  <2>2. S = {c \in 0 .. right + 1 : ScreenWidth - Width(w, c, right) >= LEFTMARGIN}
    BY <2>1
  <2> HIDE DEF S
  <2> QED BY <2>2 DEF leftFrom
<1>5. Min(S) \in S /\ \A y \in S : Min(S) <= y
  <2> HIDE DEF S
  <2> QED BY <1>3 DEF Min
<1>6. Min(S) <= right
  BY <1>1, <1>5
<1> QED
  BY <1>4, <1>5, <1>6, Sizes DEF Cols

-----------------------------------------------------------------------------
(* The inductive invariant: the columns from the first to the last shown fit,
   the user's is one of them; and the rows likewise. *)
ColInv ==
  /\ colwidth \in AllWidths
  /\ leftcol \in Cols /\ curcol \in leftcol .. MAXCOLS - 1
  /\ rightcol \in curcol .. MAXCOLS - 1
  /\ Fits(colwidth, leftcol, rightcol)

RowInv ==
  /\ toprow \in Nat /\ currow \in Nat /\ bottomrow \in Nat
  /\ toprow <= currow /\ currow <= bottomrow /\ bottomrow < MAXROWS
  /\ bottomrow = toprow + SCREENROWS - 1

LEMMA InvImplies == ColInv /\ RowInv => CursorShown
<1> SUFFICES ASSUME ColInv, RowInv
             PROVE  CursorShown
  OBVIOUS
<1> DEFINE n == rightcol - leftcol + 1
           m == Min(ColWidths)
           room == ScreenWidth - LEFTMARGIN
<1>1. /\ leftcol \in 0 .. MAXCOLS /\ rightcol \in leftcol - 1 .. MAXCOLS - 1
      /\ rightcol \in Nat /\ leftcol \in Nat /\ leftcol <= rightcol
      /\ leftcol <= curcol /\ curcol <= rightcol /\ rightcol < MAXCOLS
      /\ curcol \in Nat
  BY Sizes DEF ColInv, Cols
<1>2. /\ Width(colwidth, leftcol, rightcol) \in Nat
      /\ Width(colwidth, leftcol, rightcol) >= n * m
  BY <1>1, WidthNumber DEF ColInv
<1>3. n \in Nat /\ m \in Nat /\ m >= 1 /\ room \in Int
  BY <1>1, MinWidth, Sizes
<1>4. n * m <= room
  <2>1. n * m \in Nat
    BY <1>3
  <2> HIDE DEF n, m
  <2> QED BY <1>2, <2>1, Sizes DEF ColInv, Fits
<1>5. n <= room \div m
  <2> HIDE DEF n, m, room
  <2> QED BY <1>3, <1>4
<1>6. room \div m \in Int
  <2> HIDE DEF n, m, room
  <2> QED BY <1>3
<1>7. SCREENCOLS = room \div m + 1
  BY DEF SCREENCOLS
<1>8. rightcol - leftcol + 2 <= SCREENCOLS
  <2>1. rightcol - leftcol + 2 = n + 1
    BY <1>1
  <2> HIDE DEF n, m, room
  <2> QED BY <1>3, <1>5, <1>6, <1>7, <2>1
<1> QED
  BY <1>1, <1>8 DEF ColInv, RowInv, CursorShown, Fits

(* The window after setBothTo and setBothFrom holds the columns they were to
   show. *)
LEMMA BothTo ==
  ASSUME colwidth' \in AllWidths, NEW right \in Cols, setBothTo(right)
  PROVE  /\ leftcol' \in 0 .. right /\ rightcol' \in right .. MAXCOLS - 1
         /\ Fits(colwidth', leftcol', rightcol')
         /\ \A c \in 0 .. right : Fits(colwidth', c, right) => leftcol' <= c
<1>1. PICK w \in AllWidths : w = colwidth'
  OBVIOUS
<1> DEFINE l == leftFrom(w, right)
           r == rightFrom(w, l)
<1>2. /\ l \in 0 .. right /\ Fits(w, l, right)
      /\ \A c \in 0 .. right : Fits(w, c, right) => l <= c
  BY LeftFrom
<1>3. l \in Cols /\ right \in l .. MAXCOLS - 1
  <2> HIDE DEF l
  <2> QED BY <1>2, Sizes DEF Cols
<1>4. /\ r \in l .. MAXCOLS - 1 /\ Fits(w, l, r)
      /\ \A c \in l .. MAXCOLS - 1 : Fits(w, l, c) => c <= r
  <2> HIDE DEF l
  <2> QED BY <1>3, RightFrom
<1>5. r >= right /\ right \in Nat
  <2> HIDE DEF l, r
  <2> QED BY <1>2, <1>3, <1>4 DEF Cols
<1>6. leftcol' = l /\ rightcol' = r
  BY <1>1 DEF setBothTo
<1> HIDE DEF l, r
<1> QED
  BY <1>1, <1>2, <1>3, <1>4, <1>5, <1>6, Sizes DEF Cols

LEMMA BothFrom ==
  ASSUME colwidth' \in AllWidths, NEW left \in Cols, setBothFrom(left)
  PROVE  /\ leftcol' \in 0 .. left /\ rightcol' \in left .. MAXCOLS - 1
         /\ Fits(colwidth', leftcol', rightcol')
<1>1. PICK w \in AllWidths : w = colwidth'
  OBVIOUS
<1> DEFINE r == rightFrom(w, left)
           l == leftFrom(w, r)
<1>2. r \in left .. MAXCOLS - 1 /\ Fits(w, left, r)
  BY RightFrom
<1>3. r \in Cols /\ left \in 0 .. r /\ left \in Nat
  <2> HIDE DEF r
  <2> QED BY <1>2, Sizes DEF Cols
<1>4. /\ l \in 0 .. r /\ Fits(w, l, r)
      /\ \A c \in 0 .. r : Fits(w, c, r) => l <= c
  <2> HIDE DEF r
  <2> QED BY <1>3, LeftFrom
<1>5. l <= left
  <2> HIDE DEF l, r
  <2> QED BY <1>2, <1>3, <1>4
<1>6. leftcol' = l /\ rightcol' = r
  BY <1>1 DEF setBothFrom
<1> HIDE DEF l, r
<1> QED
  BY <1>1, <1>2, <1>3, <1>4, <1>5, <1>6, Sizes DEF Cols

(* What the steps have to establish of the columns. *)
LEMMA ColsShown ==
  ASSUME colwidth' \in AllWidths, NEW c \in Cols, curcol' = c,
         leftcol' \in 0 .. c, rightcol' \in c .. MAXCOLS - 1,
         Fits(colwidth', leftcol', rightcol')
  PROVE  ColInv'
<1>1. leftcol' \in Cols /\ curcol' \in leftcol' .. MAXCOLS - 1
  <2>1. PICK l \in 0 .. c : leftcol' = l
    OBVIOUS
  <2> QED BY <2>1, Sizes DEF Cols
<1> QED
  BY <1>1 DEF ColInv, Cols

-----------------------------------------------------------------------------
LEMMA ColInit == ScreenInit => ColInv /\ RowInv
<1> SUFFICES ASSUME ScreenInit
             PROVE  ColInv /\ RowInv
  OBVIOUS
<1>1. colwidth \in AllWidths /\ 0 \in Cols /\ leftcol = 0 /\ curcol = 0
  BY Sizes DEF ScreenInit, AllWidths, Cols
<1>2. /\ rightcol \in 0 .. MAXCOLS - 1 /\ Fits(colwidth, 0, rightcol)
  BY <1>1, RightFrom DEF ScreenInit
<1>3. ColInv
  BY <1>1, <1>2, Sizes DEF ColInv, Cols
<1>4. RowInv
  BY Sizes DEF ScreenInit, RowInv
<1> QED
  BY <1>3, <1>4

LEMMA SameCols == ColInv /\ UNCHANGED colVars => ColInv'
  BY DEF ColInv, colVars, Fits, Width

LEMMA SameRows == RowInv /\ UNCHANGED rowVars => RowInv'
  BY DEF RowInv, rowVars

(* The keys that move the user's cell by a column or a screen of columns. *)
LEMMA MoveColLeft == ColInv /\ movecolleft => ColInv'
<1> SUFFICES ASSUME ColInv, movecolleft
             PROVE  ColInv'
  OBVIOUS
<1>1. /\ colwidth' = colwidth /\ colwidth \in AllWidths
      /\ leftcol \in Nat /\ curcol \in Nat /\ rightcol \in Nat
      /\ leftcol <= curcol /\ curcol <= rightcol /\ rightcol <= MAXCOLS - 1
      /\ curcol' = curcol - 1
  BY Sizes DEF ColInv, movecolleft, Cols
<1>2. CASE curcol > leftcol
  <2>1. leftcol' = leftcol /\ rightcol' = rightcol
    BY <1>2 DEF movecolleft
  <2>2. curcol - 1 \in Cols /\ leftcol \in 0 .. curcol - 1
        /\ rightcol \in curcol - 1 .. MAXCOLS - 1
    BY <1>1, <1>2, Sizes DEF Cols
  <2>3. Fits(colwidth', leftcol', rightcol')
    BY <1>1, <2>1 DEF ColInv
  <2> QED
    BY <1>1, <2>1, <2>2, <2>3, ColsShown
<1>3. CASE ~(curcol > leftcol)
  <2>1. setBothFrom(leftcol - 1) /\ leftcol # 0 /\ curcol = leftcol
    BY <1>1, <1>3 DEF movecolleft
  <2>2. leftcol - 1 \in Cols
    BY <1>1, <2>1, Sizes DEF Cols
  <2>3. /\ leftcol' \in 0 .. leftcol - 1
        /\ rightcol' \in leftcol - 1 .. MAXCOLS - 1
        /\ Fits(colwidth', leftcol', rightcol')
    BY <1>1, <2>1, <2>2, BothFrom
  <2>4. curcol' = leftcol - 1
    BY <1>1, <2>1
  <2> QED
    BY <1>1, <2>2, <2>3, <2>4, ColsShown
<1> QED
  BY <1>2, <1>3

LEMMA MoveColRight == ColInv /\ movecolright => ColInv'
<1> SUFFICES ASSUME ColInv, movecolright
             PROVE  ColInv'
  OBVIOUS
<1>1. /\ colwidth' = colwidth /\ colwidth \in AllWidths
      /\ leftcol \in Nat /\ curcol \in Nat /\ rightcol \in Nat
      /\ leftcol <= curcol /\ curcol <= rightcol /\ rightcol <= MAXCOLS - 1
      /\ curcol' = curcol + 1
  BY Sizes DEF ColInv, movecolright, Cols
<1>2. CASE curcol < rightcol
  <2>1. leftcol' = leftcol /\ rightcol' = rightcol
    BY <1>2 DEF movecolright
  <2>2. curcol + 1 \in Cols /\ leftcol \in 0 .. curcol + 1
        /\ rightcol \in curcol + 1 .. MAXCOLS - 1
    BY <1>1, <1>2, Sizes DEF Cols
  <2>3. Fits(colwidth', leftcol', rightcol')
    BY <1>1, <2>1 DEF ColInv
  <2> QED
    BY <1>1, <2>1, <2>2, <2>3, ColsShown
<1>3. CASE ~(curcol < rightcol)
  <2>1. setBothTo(rightcol + 1) /\ rightcol < MAXCOLS - 1 /\ curcol = rightcol
    BY <1>1, <1>3 DEF movecolright
  <2>2. rightcol + 1 \in Cols
    BY <1>1, <2>1, Sizes DEF Cols
  <2>3. /\ leftcol' \in 0 .. rightcol + 1
        /\ rightcol' \in rightcol + 1 .. MAXCOLS - 1
        /\ Fits(colwidth', leftcol', rightcol')
    BY <1>1, <2>1, <2>2, BothTo
  <2>4. curcol' = rightcol + 1
    BY <1>1, <2>1
  <2> QED
    BY <1>1, <2>2, <2>3, <2>4, ColsShown
<1> QED
  BY <1>2, <1>3

LEMMA ScreenLeft == ColInv /\ CtrlLeft => ColInv'
<1> SUFFICES ASSUME ColInv, CtrlLeft
             PROVE  ColInv'
  OBVIOUS
<1>1. /\ colwidth' = colwidth /\ colwidth \in AllWidths
      /\ leftcol \in Nat /\ curcol \in Nat /\ rightcol \in Nat
      /\ leftcol <= curcol /\ curcol <= rightcol /\ rightcol <= MAXCOLS - 1
  BY Sizes DEF ColInv, CtrlLeft, Cols
<1>2. CASE leftcol = 0
  <2>1. curcol' = 0 /\ leftcol' = 0 /\ rightcol' = rightcol
    BY <1>2 DEF CtrlLeft
  <2>2. 0 \in Cols /\ rightcol \in 0 .. MAXCOLS - 1 /\ 0 \in 0 .. 0
    BY <1>1, Sizes DEF Cols
  <2>3. Fits(colwidth', leftcol', rightcol')
    BY <1>1, <1>2, <2>1 DEF ColInv
  <2> QED
    BY <1>1, <2>1, <2>2, <2>3, ColsShown
<1>3. CASE leftcol # 0
  <2>1. curcol' = leftcol - 1 /\ setBothTo(leftcol - 1)
    BY <1>3 DEF CtrlLeft
  <2>2. leftcol - 1 \in Cols
    BY <1>1, <1>3, Sizes DEF Cols
  <2>3. /\ leftcol' \in 0 .. leftcol - 1
        /\ rightcol' \in leftcol - 1 .. MAXCOLS - 1
        /\ Fits(colwidth', leftcol', rightcol')
    BY <1>1, <2>1, <2>2, BothTo
  <2> QED
    BY <1>1, <2>1, <2>2, <2>3, ColsShown
<1> QED
  BY <1>2, <1>3

LEMMA ScreenRight == ColInv /\ CtrlRight => ColInv'
<1> SUFFICES ASSUME ColInv, CtrlRight
             PROVE  ColInv'
  OBVIOUS
<1>1. /\ colwidth' = colwidth /\ colwidth \in AllWidths
      /\ leftcol \in Nat /\ curcol \in Nat /\ rightcol \in Nat
      /\ leftcol <= curcol /\ curcol <= rightcol /\ rightcol <= MAXCOLS - 1
  BY Sizes DEF ColInv, CtrlRight, Cols
<1>2. CASE rightcol = MAXCOLS - 1
  <2>1. curcol' = rightcol /\ leftcol' = leftcol /\ rightcol' = rightcol
    BY <1>2 DEF CtrlRight
  <2>2. /\ rightcol \in Cols /\ rightcol \in rightcol .. MAXCOLS - 1
        /\ leftcol \in 0 .. rightcol
    BY <1>1, Sizes DEF Cols
  <2>3. Fits(colwidth', leftcol', rightcol')
    BY <1>1, <2>1 DEF ColInv
  <2> QED
    BY <1>1, <2>1, <2>2, <2>3, ColsShown
<1>3. CASE rightcol # MAXCOLS - 1
  <2>1. curcol' = rightcol + 1 /\ setBothFrom(rightcol + 1)
    BY <1>3 DEF CtrlRight
  <2>2. rightcol + 1 \in Cols
    BY <1>1, <1>3, Sizes DEF Cols
  <2>3. /\ leftcol' \in 0 .. rightcol + 1
        /\ rightcol' \in rightcol + 1 .. MAXCOLS - 1
        /\ Fits(colwidth', leftcol', rightcol')
    BY <1>1, <2>1, <2>2, BothFrom
  <2> QED
    BY <1>1, <2>1, <2>2, <2>3, ColsShown
<1> QED
  BY <1>2, <1>3

(* setrightcol(0) with the user at column 0: Home, a new sheet. *)
LEMMA FromFirstCol ==
  ASSUME colwidth' \in AllWidths, curcol' = 0, setrightcol(0)
  PROVE  ColInv'
<1>1. 0 \in Cols /\ 0 \in 0 .. 0
  BY Sizes DEF Cols
<1>2. PICK w \in AllWidths : w = colwidth'
  OBVIOUS
<1>3. rightFrom(w, 0) \in 0 .. MAXCOLS - 1 /\ Fits(w, 0, rightFrom(w, 0))
  BY <1>1, RightFrom
<1>4. leftcol' = 0 /\ rightcol' = rightFrom(w, 0)
  BY <1>2 DEF setrightcol
<1> QED
  BY <1>1, <1>2, <1>3, <1>4, ColsShown

LEMMA GoTo ==
  ASSUME ColInv, NEW col \in Cols, NEW row, End(col, row) \/ gotocell(col, row)
  PROVE  ColInv'
<1>1. /\ colwidth' = colwidth /\ colwidth \in AllWidths /\ curcol' = col
      /\ col >= 0
  BY Sizes DEF ColInv, End, gotocell, Cols
<1>2. CASE End(col, row)
  <2>1. /\ leftcol' \in 0 .. col /\ rightcol' \in col .. MAXCOLS - 1
        /\ Fits(colwidth', leftcol', rightcol')
    BY <1>1, <1>2, BothTo DEF End
  <2> QED
    BY <1>1, <2>1, ColsShown
<1>3. CASE gotocell(col, row)
  <2>1. setBothFrom(col)
    BY <1>1, <1>3 DEF gotocell
  <2>2. /\ leftcol' \in 0 .. col /\ rightcol' \in col .. MAXCOLS - 1
        /\ Fits(colwidth', leftcol', rightcol')
    BY <1>1, <2>1, BothFrom
  <2> QED
    BY <1>1, <2>2, ColsShown
<1> QED
  BY <1>2, <1>3

LEMMA ColWidthSet ==
  ASSUME ColInv, NEW width \in ColWidths, setcolwidth(width)
  PROVE  ColInv'
<1>1. /\ colwidth' \in AllWidths /\ curcol' = curcol
      /\ curcol \in Cols /\ leftcol \in Cols /\ leftcol \in 0 .. curcol
  BY Sizes DEF ColInv, setcolwidth, AllWidths, Cols
<1>2. PICK w \in AllWidths : w = colwidth'
  BY <1>1
<1>3. CASE rightFrom(w, leftcol) < curcol
  <2>1. setBothTo(curcol)
    BY <1>2, <1>3 DEF setcolwidth
  <2>2. /\ leftcol' \in 0 .. curcol /\ rightcol' \in curcol .. MAXCOLS - 1
        /\ Fits(colwidth', leftcol', rightcol')
    BY <1>1, <2>1, BothTo
  <2> QED
    BY <1>1, <2>2, ColsShown
<1>4. CASE ~(rightFrom(w, leftcol) < curcol)
  <2>1. leftcol' = leftcol /\ rightcol' = rightFrom(w, leftcol)
    BY <1>2, <1>4 DEF setcolwidth, setrightcol
  <2>2. /\ rightFrom(w, leftcol) \in leftcol .. MAXCOLS - 1
        /\ Fits(w, leftcol, rightFrom(w, leftcol))
    BY <1>1, RightFrom
  <2>3. rightFrom(w, leftcol) \in curcol .. MAXCOLS - 1
    BY <1>1, <1>4, <2>2, Sizes DEF Cols
  <2> QED
    BY <1>1, <1>2, <2>1, <2>2, <2>3, ColsShown
<1> QED
  BY <1>3, <1>4

(* A change of the widths from the user's column on: the columns before it
   still fit, so a window one column further on shows it. *)
LEMMA MoveWidthsShown ==
  ASSUME ColInv, NEW w \in AllWidths,
         \A c \in 0 .. curcol - 1 : w[c] = colwidth[c],
         MoveWidths(w)
  PROVE  ColInv'
<1> DEFINE r == rightFrom(w, leftcol)
<1>1. /\ colwidth' = w /\ curcol' = curcol /\ colwidth \in AllWidths
      /\ curcol \in Cols /\ leftcol \in Cols /\ leftcol \in 0 .. curcol
      /\ rightcol \in curcol .. MAXCOLS - 1
      /\ Fits(colwidth, leftcol, rightcol)
  BY Sizes DEF ColInv, MoveWidths, setrightcol, Cols
<1>2. /\ r \in leftcol .. MAXCOLS - 1 /\ Fits(w, leftcol, r)
      /\ \A c \in leftcol .. MAXCOLS - 1 : Fits(w, leftcol, c) => c <= r
  BY <1>1, RightFrom
<1> HIDE DEF r
<1>3. CASE curcol > r
  <2>1. /\ curcol \in Nat /\ leftcol \in Nat /\ r \in Nat
        /\ leftcol <= r /\ r < curcol /\ curcol <= MAXCOLS - 1
    BY <1>1, <1>2, <1>3, Sizes DEF Cols
  <2>2. Fits(colwidth, leftcol, curcol - 1)
    <3>1. /\ leftcol \in 0 .. MAXCOLS /\ rightcol \in leftcol - 1 .. MAXCOLS - 1
          /\ leftcol \in leftcol .. MAXCOLS /\ curcol - 1 \in leftcol - 1 .. rightcol
      BY <1>1, <2>1, Sizes DEF Cols
    <3> QED BY <1>1, <3>1, FitsWithin
  <2>3. Fits(w, leftcol, curcol - 1)
    <3>1. /\ curcol \in 0 .. MAXCOLS
          /\ leftcol \in 0 .. curcol /\ (curcol - 1) + 1 = curcol
          /\ curcol \in 0 .. curcol
      BY <1>1, <2>1, Sizes
    <3>2. \A c \in 0 .. curcol : edges(w)[c] = edges(colwidth)[c]
      BY <1>1, <3>1, EdgesAgree
    <3> QED BY <2>2, <3>1, <3>2 DEF Fits, Width
  <2>4. r = curcol - 1
    <3>1. curcol - 1 \in leftcol .. MAXCOLS - 1
      BY <2>1, Sizes
    <3> QED BY <1>2, <2>1, <2>3, <3>1
  <2>5. rightcol' = curcol /\ leftcol' = leftFrom(w, curcol)
    <3>1. rightcol' = r + 1 /\ leftcol' = leftFrom(w, rightcol')
      BY <1>3 DEF MoveWidths, r
    <3>2. r + 1 = curcol
      BY <2>1, <2>4
    <3> QED BY <3>1, <3>2
  <2>6. leftFrom(w, curcol) \in 0 .. curcol /\ Fits(w, leftFrom(w, curcol), curcol)
    BY <1>1, LeftFrom
  <2>7. curcol \in curcol .. MAXCOLS - 1
    BY <2>1
  <2> QED
    BY <1>1, <2>5, <2>6, <2>7, ColsShown
<1>4. CASE ~(curcol > r)
  <2>1. leftcol' = leftcol /\ rightcol' = r
    BY <1>1, <1>4 DEF MoveWidths, setrightcol, r
  <2>2. r \in curcol .. MAXCOLS - 1
    BY <1>1, <1>2, <1>4, Sizes DEF Cols
  <2> QED
    BY <1>1, <1>2, <2>1, <2>2, ColsShown
<1> QED
  BY <1>3, <1>4

LEMMA ShiftCols == ColInv /\ (deletecol \/ insertcol) => ColInv'
<1> SUFFICES ASSUME ColInv, deletecol \/ insertcol
             PROVE  ColInv'
  OBVIOUS
<1>1. colwidth \in AllWidths /\ curcol \in Nat /\ curcol <= MAXCOLS - 1
  BY Sizes DEF ColInv, Cols
<1>2. CASE deletecol
  <2> DEFINE w == [c \in Cols |-> IF c < curcol THEN colwidth[c]
                                  ELSE IF c = MAXCOLS - 1 THEN DEFAULTWIDTH
                                  ELSE colwidth[c + 1]]
  <2>1. w \in AllWidths
    BY <1>1, Sizes DEF AllWidths, Cols
  <2>2. \A c \in 0 .. curcol - 1 : w[c] = colwidth[c]
    BY <1>1, Sizes DEF Cols
  <2>3. MoveWidths(w)
    BY <1>2 DEF deletecol
  <2> HIDE DEF w
  <2> QED
    BY <2>1, <2>2, <2>3, MoveWidthsShown
<1>3. CASE insertcol
  <2> DEFINE w == [c \in Cols |-> IF c < curcol THEN colwidth[c]
                                  ELSE IF c = curcol THEN DEFAULTWIDTH
                                  ELSE colwidth[c - 1]]
  <2>1. w \in AllWidths
    BY <1>1, Sizes DEF AllWidths, Cols
  <2>2. \A c \in 0 .. curcol - 1 : w[c] = colwidth[c]
    BY <1>1, Sizes DEF Cols
  <2>3. MoveWidths(w)
    BY <1>3 DEF insertcol
  <2> HIDE DEF w
  <2> QED
    BY <2>1, <2>2, <2>3, MoveWidthsShown
<1> QED
  BY <1>2, <1>3

-----------------------------------------------------------------------------
(* The rows. *)
LEMMA RowsShown ==
  ASSUME RowInv, moverowup \/ moverowdown \/ PageUp \/ PageDown \/ Home
  PROVE  RowInv'
<1>1. CASE moverowup
  BY <1>1, Sizes DEF RowInv, moverowup, setbottomrow
<1>2. CASE moverowdown
  BY <1>2, Sizes DEF RowInv, moverowdown, setbottomrow
<1>3. CASE PageUp
  BY <1>3, Sizes DEF RowInv, PageUp, setbottomrow
<1>4. CASE PageDown
  BY <1>4, Sizes DEF RowInv, PageDown, setbottomrow
<1>5. CASE Home
  BY <1>5, Sizes DEF RowInv, Home, setbottomrow
<1> QED
  BY <1>1, <1>2, <1>3, <1>4, <1>5

LEMMA GoToRow ==
  ASSUME NEW col, NEW row \in Rows, End(col, row) \/ gotocell(col, row)
  PROVE  RowInv'
<1>1. row \in Nat /\ row < MAXROWS
  BY Sizes DEF Rows
<1>2. CASE End(col, row)
  BY <1>1, <1>2, Sizes DEF RowInv, End, settoprow
<1>3. CASE gotocell(col, row)
  BY <1>1, <1>3, Sizes DEF RowInv, gotocell, setbottomrow
<1> QED
  BY <1>2, <1>3

LEMMA ScreenStep ==
  LettersFirst /\ ColInv /\ RowInv /\ [ScreenNext]_screenVars => ColInv' /\ RowInv'
<1> SUFFICES ASSUME LettersFirst, ColInv, RowInv, [ScreenNext]_screenVars
             PROVE  ColInv' /\ RowInv'
  OBVIOUS
<1>1. CASE moverowup \/ moverowdown \/ PageUp \/ PageDown
  <2>1. UNCHANGED colVars
    BY <1>1 DEF moverowup, moverowdown, PageUp, PageDown
  <2> QED
    BY <1>1, <2>1, SameCols, RowsShown
<1>2. CASE movecolleft \/ movecolright \/ CtrlLeft \/ CtrlRight
  <2>1. UNCHANGED rowVars
    BY <1>2 DEF movecolleft, movecolright, CtrlLeft, CtrlRight
  <2> QED
    BY <1>2, <2>1, SameRows, MoveColLeft, MoveColRight, ScreenLeft, ScreenRight
<1>3. CASE Home
  <2>1. colwidth' \in AllWidths /\ curcol' = 0 /\ setrightcol(0)
    BY <1>3 DEF Home, ColInv
  <2> QED
    BY <1>3, <2>1, FromFirstCol, RowsShown
<1>4. ASSUME NEW col \in Cols, NEW row \in Rows, End(col, row) \/ gotocell(col, row)
      PROVE  ColInv' /\ RowInv'
  BY <1>4, GoTo, GoToRow
<1>4a. ASSUME NEW col \in NamedCols, NEW row \in Rows, gotocell(col, row)
      PROVE  ColInv' /\ RowInv'
  <2>1. col \in Cols
    BY <1>4a, Sizes, ScreenAssumption DEF gotocell, getcell, LettersFirst, Cols
  <2> QED
    BY <1>4, <1>4a, <2>1
<1>5. ASSUME NEW width \in ColWidths, setcolwidth(width)
      PROVE  ColInv' /\ RowInv'
  <2>1. UNCHANGED rowVars
    BY <1>5 DEF setcolwidth
  <2> QED
    BY <1>5, <2>1, SameRows, ColWidthSet
<1>6. ASSUME NEW width \in ColWidths, NewSheet([c \in Cols |-> width])
      PROVE  ColInv' /\ RowInv'
  <2>1. colwidth' \in AllWidths /\ curcol' = 0 /\ setrightcol(0)
    BY <1>6 DEF NewSheet, AllWidths
  <2>2. RowInv'
    BY <1>6, Sizes DEF RowInv, NewSheet, setbottomrow
  <2> QED
    BY <2>1, <2>2, FromFirstCol
<1>7. CASE deletecol \/ insertcol
  <2>1. UNCHANGED rowVars
    BY <1>7 DEF deletecol, insertcol, MoveWidths
  <2> QED
    BY <1>7, <2>1, SameRows, ShiftCols
<1>8. CASE UNCHANGED screenVars
  BY <1>8, SameCols, SameRows DEF screenVars
<1> QED
  BY <1>1, <1>2, <1>3, <1>4, <1>5, <1>6, <1>7, <1>8, <1>4a DEF ScreenNext

(* Whatever keys are pressed and widths are set, on a sheet and a screen of any
   size, if every cell named at goto begins with a letter: the user's cell is in
   the window, the window is in the sheet and fits the screen, and setleftcol and
   setrightcol stay inside colstart.  gotocell breaks this with any other name. *)
THEOREM ScreenShowsCursor == LettersFirst => (ScreenSpec => []CursorShown)
<1> SUFFICES ASSUME LettersFirst
             PROVE  ScreenSpec => []CursorShown
  OBVIOUS
<1>1. ScreenSpec => [](ColInv /\ RowInv)
  <2>1. ColInv /\ RowInv /\ [ScreenNext]_screenVars => ColInv' /\ RowInv'
    BY ScreenStep
  <2> QED
    BY ColInit, <2>1, PTL DEF ScreenSpec
<1> QED
  BY <1>1, InvImplies, PTL
-----------------------------------------------------------------------------
(* THE SHEET.  What the elements of a set weigh together, as the number of bars
   of which each element has as many as its weight. *)
Bars(w, S) == {q \in S \X Nat : 1 <= q[2] /\ q[2] <= w[q[1]]}
Total(w, S) == Cardinality(Bars(w, S))
Weighs(w, S) == IsFiniteSet(S) /\ \A x \in S : w[x] \in Nat

LEMMA BarsFinite ==
  ASSUME NEW S, NEW w, Weighs(w, S)
  PROVE  IsFiniteSet(Bars(w, S)) /\ Total(w, S) \in Nat
<1> DEFINE bar(x) == {x} \X (1 .. w[x])
           f == [x \in S |-> bar(x)]
           T == {f[x] : x \in S}
<1>1. f \in Surjection(S, T)
  BY DEF Surjection
<1>2. IsFiniteSet(T)
  BY <1>1, FS_Surjection DEF Weighs
<1>3. \A t \in T : IsFiniteSet(t)
  <2> SUFFICES ASSUME NEW x \in S
               PROVE  IsFiniteSet(bar(x))
    OBVIOUS
  <2>1. w[x] \in Int
    BY DEF Weighs
  <2>2. IsFiniteSet(1 .. w[x])
    BY <2>1, FS_Interval
  <2>3. IsFiniteSet({x})
    BY FS_Singleton
  <2> QED BY <2>2, <2>3, FS_Product
<1>4. IsFiniteSet(UNION T)
  BY <1>2, <1>3, FS_UNION
<1>5. Bars(w, S) = UNION T
  <2>1. \A q : q \in UNION T <=> \E x \in S : q \in bar(x)
    OBVIOUS
  <2>2. \A q : q \in Bars(w, S) <=> \E x \in S : q \in bar(x)
    BY DEF Bars, Weighs
  <2> QED BY <2>1, <2>2
<1> QED BY <1>4, <1>5, FS_CardinalityType DEF Total

LEMMA TotalNone == \A w : Total(w, {}) = 0
<1>1. \A w : Bars(w, {}) = {}
  BY DEF Bars
<1> QED BY <1>1, FS_EmptySet DEF Total

LEMMA TotalOne ==
  ASSUME NEW S, NEW w, Weighs(w, S), NEW x \in S
  PROVE  Total(w, S) = w[x] + Total(w, S \ {x}) /\ Weighs(w, S \ {x})
<1> DEFINE A == {x} \X (1 .. w[x])
           B == Bars(w, S \ {x})
<1>1. Weighs(w, S \ {x})
  BY FS_RemoveElement DEF Weighs
<1>2. IsFiniteSet(B) /\ Cardinality(B) \in Nat
  BY <1>1, BarsFinite DEF Total
<1>3. IsFiniteSet(A) /\ Cardinality(A) = w[x] /\ w[x] \in Nat
  <2>1. w[x] \in Nat
    BY DEF Weighs
  <2>2. IsFiniteSet({x}) /\ Cardinality({x}) = 1
    BY FS_Singleton
  <2>3. IsFiniteSet(1 .. w[x]) /\ Cardinality(1 .. w[x]) = w[x]
    BY <2>1, FS_Interval
  <2>4. IsFiniteSet(A) /\ Cardinality(A) = 1 * w[x]
    BY <2>2, <2>3, FS_Product
  <2> QED BY <2>1, <2>4
<1>4. Bars(w, S) = A \cup B
  BY <1>3 DEF Bars
<1>5. A \cap B = {}
  BY DEF Bars
<1>6. Cardinality(A \cup B) = Cardinality(A) + Cardinality(B) - Cardinality({})
  <2> HIDE DEF A, B
  <2> QED BY <1>2, <1>3, <1>5, FS_Union
<1> HIDE DEF A, B
<1>7. Cardinality(A \cup B) = w[x] + Cardinality(B)
  BY <1>2, <1>3, <1>6, FS_EmptySet
<1> QED BY <1>1, <1>4, <1>7 DEF Total, B

LEMMA TotalSame ==
  ASSUME NEW S, NEW w, NEW v, \A x \in S : w[x] = v[x]
  PROVE  Total(w, S) = Total(v, S)
<1>1. Bars(w, S) = Bars(v, S)
  BY DEF Bars
<1> QED BY <1>1 DEF Total

(* One weight is another. *)
LEMMA TotalPut ==
  ASSUME NEW S, NEW w, NEW v, Weighs(w, S), Weighs(v, S), NEW p \in S,
         \A x \in S : x # p => w[x] = v[x]
  PROVE  Total(v, S) = Total(w, S) - w[p] + v[p]
<1>1. Total(w, S) = w[p] + Total(w, S \ {p}) /\ Weighs(w, S \ {p})
  BY TotalOne
<1>2. Total(v, S) = v[p] + Total(v, S \ {p}) /\ Weighs(v, S \ {p})
  BY TotalOne
<1>3. Total(w, S \ {p}) = Total(v, S \ {p})
  <2>1. \A x \in S \ {p} : w[x] = v[x]
    OBVIOUS
  <2> QED BY <2>1, TotalSame
<1>4. Total(w, S \ {p}) \in Nat /\ w[p] \in Nat /\ v[p] \in Nat
  BY <1>1, BarsFinite DEF Weighs
<1> QED BY <1>1, <1>2, <1>3, <1>4

(* The weights are moved, and elements without weight lost or come. *)
LEMMA TotalMoved ==
  ASSUME NEW S, NEW w, NEW v, Weighs(w, S), Weighs(v, S), NEW f,
         \A x \in S : w[x] # 0 => f[x] \in S /\ v[f[x]] = w[x],
         \A x, y \in S : w[x] # 0 /\ w[y] # 0 /\ f[x] = f[y] => x = y,
         \A y \in S : v[y] # 0 => \E x \in S : w[x] # 0 /\ f[x] = y
  PROVE  Total(v, S) = Total(w, S)
<1> DEFINE A == Bars(w, S)
           B == Bars(v, S)
           g == [q \in A |-> <<f[q[1]], q[2]>>]
<1>1. \A q \in A : q[1] \in S /\ q[2] \in Nat /\ w[q[1]] # 0 /\ q = <<q[1], q[2]>>
  BY DEF Bars, Weighs
<1>2. g \in [A -> B]
  <2> SUFFICES ASSUME NEW q \in A
               PROVE  <<f[q[1]], q[2]>> \in B
    OBVIOUS
  <2>1. f[q[1]] \in S /\ v[f[q[1]]] = w[q[1]] /\ 1 <= q[2] /\ q[2] <= w[q[1]] /\ q[2] \in Nat
    BY <1>1 DEF Bars
  <2> QED BY <2>1 DEF Bars
<1>3. \A q, r \in A : g[q] = g[r] => q = r
  <2> SUFFICES ASSUME NEW q \in A, NEW r \in A, f[q[1]] = f[r[1]], q[2] = r[2]
               PROVE  q = r
    OBVIOUS
  <2>1. q[1] = r[1]
    BY <1>1
  <2> QED BY <1>1, <2>1
<1>4. \A b \in B : \E q \in A : g[q] = b
  <2> SUFFICES ASSUME NEW b \in B
               PROVE  \E q \in A : <<f[q[1]], q[2]>> = b
    OBVIOUS
  <2>1. b[1] \in S /\ b[2] \in Nat /\ 1 <= b[2] /\ b[2] <= v[b[1]] /\ b = <<b[1], b[2]>>
    BY DEF Bars
  <2>2. v[b[1]] # 0
    BY <2>1 DEF Weighs
  <2>3. PICK x \in S : w[x] # 0 /\ f[x] = b[1]
    BY <2>1, <2>2
  <2>4. w[x] = v[b[1]]
    BY <2>3
  <2>5. <<x, b[2]>> \in A
    BY <2>1, <2>3, <2>4 DEF Bars
  <2> QED BY <2>1, <2>3, <2>5
<1>5. g \in Bijection(A, B)
  BY <1>2, <1>3, <1>4 DEF Bijection, Injection, IsInjective, Surjection
<1>6. IsFiniteSet(A)
  BY BarsFinite
<1> HIDE DEF A, B, g
<1>7. Cardinality(B) = Cardinality(A)
  BY <1>5, <1>6, FS_Bijection DEF ExistsBijection
<1> QED BY <1>7 DEF A, B, Total

(* What MapThenSumSet computes. *)
Picked(s) == CHOOSE x \in s : TRUE
Sums(it, w, S) ==
  it = [s \in SUBSET S |-> IF s = {} THEN 0 ELSE w[Picked(s)] + it[s \ {Picked(s)}]]

LEMMA SumsExists ==
  ASSUME NEW S, NEW w, Weighs(w, S)
  PROVE  \E it : Sums(it, w, S)
<1> DEFINE it == [s \in SUBSET S |-> Total(w, s)]
<1>1. ASSUME NEW s \in SUBSET S, s # {}
      PROVE  Total(w, s) = w[Picked(s)] + Total(w, s \ {Picked(s)})
  <2>1. Picked(s) \in s
    BY <1>1 DEF Picked
  <2>2. Weighs(w, s)
    BY FS_Subset DEF Weighs
  <2> QED BY <2>1, <2>2, TotalOne
<1>2. \A s \in SUBSET S : /\ it[s] = IF s = {} THEN 0 ELSE w[Picked(s)] + it[s \ {Picked(s)}]
                          /\ s \ {Picked(s)} \in SUBSET S
  BY <1>1, TotalNone
<1>3. Sums(it, w, S)
  BY <1>2 DEF Sums
<1> QED BY <1>3

LEMMA SumsTotal ==
  ASSUME NEW S, NEW w, Weighs(w, S), NEW it, Sums(it, w, S)
  PROVE  it[S] = Total(w, S)
<1> DEFINE K == {k \in Nat : \A s \in SUBSET S : Cardinality(s) = k => it[s] = Total(w, s)}
<1>1. \A s \in SUBSET S : /\ IsFiniteSet(s) /\ Cardinality(s) \in Nat /\ Weighs(w, s)
                          /\ it[s] = IF s = {} THEN 0 ELSE w[Picked(s)] + it[s \ {Picked(s)}]
  BY FS_Subset, FS_CardinalityType DEF Weighs, Sums
<1>2. 0 \in K
  <2>1. ASSUME NEW s \in SUBSET S, Cardinality(s) = 0
        PROVE  it[s] = Total(w, s)
    <3>1. s = {}
      BY <1>1, <2>1, FS_EmptySet
    <3> QED BY <1>1, <3>1, TotalNone
  <2> QED BY <2>1
<1>3. ASSUME NEW k \in Nat, k \in K
      PROVE  k + 1 \in K
  <2> SUFFICES ASSUME NEW s \in SUBSET S, Cardinality(s) = k + 1
               PROVE  it[s] = Total(w, s)
    OBVIOUS
  <2> DEFINE x == Picked(s)
  <2>1. s # {}
    BY FS_EmptySet
  <2>2. x \in s
    BY <2>1 DEF Picked
  <2> HIDE DEF x
  <2>3. Cardinality(s \ {x}) = k /\ s \ {x} \in SUBSET S
    <3>1. IsFiniteSet(s)
      BY <1>1
    <3>2. Cardinality(s \ {x}) = Cardinality(s) - 1
      BY <2>2, <3>1, FS_RemoveElement
    <3> QED BY <3>2
  <2>4. it[s \ {x}] = Total(w, s \ {x})
    BY <1>3, <2>3
  <2>5. Total(w, s) = w[x] + Total(w, s \ {x})
    BY <1>1, <2>2, TotalOne
  <2>6. it[s] = w[x] + it[s \ {x}]
    BY <1>1, <2>1 DEF x
  <2> QED BY <2>4, <2>5, <2>6
<1> HIDE DEF K
<1>4. Cardinality(S) \in K
  BY <1>1, <1>2, <1>3, NatInduct
<1> QED BY <1>4 DEF K

-----------------------------------------------------------------------------
(* What FoldLeft computes, step by step, the last element last: a function on
   the sets of indexes, with all values in X. *)
Folded(it, n, X, base, h) ==
  /\ it \in [SUBSET (1 .. n) -> X]
  /\ it = [s \in SUBSET (1 .. n) |-> IF s = {} THEN base ELSE h[<<it[s \ {Max(s)}], Max(s)>>]]
  /\ \A s \in SUBSET (1 .. n) : s # {} => Max(s) \in 1 .. n /\ it[s \ {Max(s)}] \in X

LEMMA MaxOf ==
  ASSUME NEW n \in Nat, NEW s \in SUBSET (1 .. n), s # {}
  PROVE  /\ Max(s) \in s /\ Max(s) \in 1 .. n /\ \A y \in s : Max(s) >= y
         /\ s \ {Max(s)} \in SUBSET (1 .. n)
<1>1. PICK x \in s : TRUE
  OBVIOUS
<1>2. s \in SUBSET Int /\ n \in Int /\ \A y \in s : y <= n
  OBVIOUS
<1>3. \E m \in s : \A y \in s : m >= y
  BY <1>1, <1>2, Greatest
<1>4. Max(s) \in s /\ \A y \in s : Max(s) >= y
  BY <1>3 DEF Max
<1> QED BY <1>4

(* The function that folds exists when no step leaves X. *)
LEMMA FoldExists ==
  ASSUME NEW X, NEW base \in X, NEW n \in Nat, NEW h,
         \A x \in X : \A i \in 1 .. n : h[<<x, i>>] \in X
  PROVE  \E it : Folded(it, n, X, base, h)
<1> DEFINE D == SUBSET (1 .. n)
           up(k) == {s \in D : Cardinality(s) <= k}
           val(f, s) == IF s = {} THEN base ELSE h[<<f[s \ {Max(s)}], Max(s)>>]
           good(f, k) == \A s \in up(k) : f[s] \in X /\ f[s] = val(f, s)
           K == {k \in Nat : \E f \in [D -> X] : good(f, k)}
<1>1. \A s \in D : IsFiniteSet(s) /\ Cardinality(s) \in Nat /\ Cardinality(s) <= n
  <2>1. IsFiniteSet(1 .. n) /\ Cardinality(1 .. n) = n
    BY FS_Interval
  <2> QED BY <2>1, FS_Subset, FS_CardinalityType
<1>2. ASSUME NEW s \in D, s # {}
      PROVE  Max(s) \in 1 .. n /\ s \ {Max(s)} \in D /\ Cardinality(s \ {Max(s)}) = Cardinality(s) - 1
  <2>1. Max(s) \in s /\ Max(s) \in 1 .. n /\ s \ {Max(s)} \in D
    BY <1>2, MaxOf
  <2>2. IsFiniteSet(s)
    BY <1>1
  <2> QED BY <2>1, <2>2, FS_RemoveElement
<1>3. 0 \in K
  <2> DEFINE f == [s \in D |-> base]
  <2>1. ASSUME NEW s \in up(0)
        PROVE  s = {}
    <3>1. s \in D /\ Cardinality(s) <= 0
      OBVIOUS
    <3>2. IsFiniteSet(s) /\ Cardinality(s) = 0
      <4> HIDE DEF D
      <4> QED BY <1>1, <3>1
    <3> QED BY <3>2, FS_EmptySet
  <2>2. good(f, 0) /\ f \in [D -> X]
    BY <2>1
  <2>3. \E e \in [D -> X] : good(e, 0)
    <3> HIDE DEF f, good, D
    <3> QED BY <2>2
  <2> HIDE DEF good, D
  <2> QED BY <2>3
<1>4. ASSUME NEW k \in Nat, k \in K
      PROVE  k + 1 \in K
  <2>1. PICK f \in [D -> X] : good(f, k)
    BY <1>4
  <2> DEFINE g == [s \in D |-> val(f, s)]
  <2>2. \A s \in D : val(f, s) \in X
    BY <1>2
  <2>3. g \in [D -> X]
    BY <2>2
  <2>4. ASSUME NEW s \in up(k + 1), s # {}
        PROVE  g[s \ {Max(s)}] = f[s \ {Max(s)}]
    <3>1. s \ {Max(s)} \in up(k)
      <4>1. s \in D /\ Cardinality(s) \in Nat /\ Cardinality(s) <= k + 1
        BY <1>1
      <4> HIDE DEF D
      <4>2. s \ {Max(s)} \in D /\ Cardinality(s \ {Max(s)}) = Cardinality(s) - 1
        BY <1>2, <2>4, <4>1
      <4> QED BY <4>1, <4>2
    <3> QED BY <2>1, <3>1
  <2>5. ASSUME NEW s \in up(k + 1)
        PROVE  g[s] \in X /\ g[s] = val(g, s)
    <3>1. s \in D /\ g[s] = val(f, s)
      OBVIOUS
    <3>2. val(f, s) = val(g, s)
      BY <2>4
    <3> HIDE DEF g, val
    <3> QED BY <2>2, <3>1, <3>2
  <2>6. good(g, k + 1)
    BY <2>5
  <2> HIDE DEF g, good, D
  <2>7. \E e \in [D -> X] : good(e, k + 1)
    BY <2>3, <2>6
  <2> QED BY <2>7
<1> HIDE DEF K
<1>5. n \in K
  BY <1>3, <1>4, NatInduct
<1> USE DEF K
<1>6. PICK f \in [D -> X] : good(f, n)
  BY <1>5
<1>7. \A s \in D : f[s] = val(f, s)
  BY <1>1, <1>6
<1>8. f = [s \in D |-> f[s]]
  OBVIOUS
<1>9. \A s \in D : s # {} => Max(s) \in 1 .. n /\ f[s \ {Max(s)}] \in X
  BY <1>2
<1>10. Folded(f, n, X, base, h)
  BY <1>7, <1>8, <1>9 DEF Folded
<1> QED BY <1>10

-----------------------------------------------------------------------------
(* The sheets there can be, and what their cells take. *)
Sheets == [cell : [At -> Contents], over : SUBSET At, width : [0 .. MaxCol -> Nat],
           lastcol : 0 .. MaxCol, lastrow : 0 .. MaxRow, memleft : Int]

Taken(S) == [p \in At |-> Size(S.cell[p])]
Paid(S) == S.memleft + Total(Taken(S), At) = Memory
Within(S) == \A p \in At : S.cell[p] # Blank => p[1] <= S.lastcol /\ p[2] <= S.lastrow
Good(S) == S \in Sheets /\ Paid(S) /\ Within(S)

LEMMA Limits ==
  /\ MaxCol \in Nat /\ MaxRow \in Nat /\ Letters \in Nat /\ Tens \in Nat
  /\ MAXINPUT \in Nat /\ Memory \in Nat /\ Widths \subseteq Nat /\ DefaultWidth \in Nat
  BY SheetAssumption

LEMMA TheCells ==
  /\ IsFiniteSet(At)
  /\ \A p \in At : p[1] \in 0 .. MaxCol /\ p[2] \in 0 .. MaxRow /\ p = <<p[1], p[2]>>
  /\ \A c \in 0 .. MaxCol, r \in 0 .. MaxRow : <<c, r>> \in At
  /\ \A p \in At : p \in Nat \X Nat
<1>1. IsFiniteSet(0 .. MaxCol) /\ IsFiniteSet(0 .. MaxRow)
  <2>1. 0 \in Int /\ MaxCol \in Int /\ MaxRow \in Int
    BY Limits
  <2> QED BY <2>1, FS_Interval
<1>2. IsFiniteSet(At)
  BY <1>1, FS_Product DEF At
<1> QED BY <1>2 DEF At

LEMMA LengthType ==
  ASSUME NEW p \in Nat \X Nat
  PROVE  Length(p) \in 2 .. 4
  BY Limits DEF Length, rowwidth

LEMMA SizeType ==
  ASSUME NEW x \in Contents
  PROVE  /\ Size(x) \in Nat /\ (Size(x) = 0 <=> x = Blank) /\ (x.kind = "blank" <=> x = Blank)
         /\ x.kind \in {"blank", "text", "value", "formula"}
<1>1. CASE x \in [kind : {"blank"}]
  <2>1. x = Blank /\ x.kind = "blank"
    BY <1>1 DEF Blank
  <2> QED BY <2>1 DEF Size
<1>2. CASE x \in [kind : {"text"}, len : Nat]
  <2>1. x.kind = "text" /\ x.len \in Nat /\ x # Blank
    BY <1>2 DEF Blank
  <2>2. Size(x) = 2 * (x.len \div 2 + 5)
    BY <2>1 DEF Size
  <2> QED BY <2>1, <2>2
<1>3. CASE x \in [kind : {"value"}, v : Int]
  <2>1. x.kind = "value" /\ x # Blank
    BY <1>3 DEF Blank
  <2> QED BY <2>1 DEF Size
<1>4. CASE x \in [kind : {"formula"}, ref : Nat \X Nat, v : Int]
  <2>1. x.kind = "formula" /\ x.ref \in Nat \X Nat /\ x # Blank
    BY <1>4 DEF Blank
  <2>2. Size(x) = 2 * (Length(x.ref) \div 2 + 9) /\ Length(x.ref) \in 2 .. 4
    BY <2>1, LengthType DEF Size
  <2> QED BY <2>1, <2>2
<1> QED BY <1>1, <1>2, <1>3, <1>4 DEF Contents

LEMMA CellKinds ==
  /\ Blank \in Contents
  /\ \A n \in Nat : Text(n) \in Contents /\ Text(n) # Blank
  /\ \A x \in Contents :
       /\ x.kind = "formula" => /\ x.ref \in Nat \X Nat
                                /\ \A q \in Nat \X Nat : /\ [x EXCEPT !.ref = q] \in Contents
                                                         /\ [x EXCEPT !.ref = q] # Blank
                                                         /\ [x EXCEPT !.ref = q].kind = "formula"
                                                         /\ [x EXCEPT !.ref = q].ref = q
                                /\ \A v \in Int : /\ [x EXCEPT !.v = v] \in Contents
                                                  /\ [x EXCEPT !.v = v] # Blank
                                                  /\ Size([x EXCEPT !.v = v]) = Size(x)
       /\ x.kind \in {"value", "formula"} => x.v \in Int
       /\ x.kind = "text" => x.len \in Nat
<1>1. Blank \in Contents /\ \A n \in Nat : Text(n) \in Contents /\ Text(n) # Blank
  BY DEF Blank, Text, Contents
<1>2. ASSUME NEW x \in Contents, x.kind = "formula"
      PROVE  x \in [kind : {"formula"}, ref : Nat \X Nat, v : Int]
  BY <1>2 DEF Contents
<1>3. ASSUME NEW x \in Contents, x.kind = "formula", NEW q \in Nat \X Nat
      PROVE  /\ x.ref \in Nat \X Nat
             /\ [x EXCEPT !.ref = q] \in [kind : {"formula"}, ref : Nat \X Nat, v : Int]
             /\ [x EXCEPT !.ref = q].kind = "formula" /\ [x EXCEPT !.ref = q].ref = q
  BY <1>2, <1>3
<1>4. ASSUME NEW x \in Contents, x.kind = "formula", NEW v \in Int
      PROVE  /\ [x EXCEPT !.v = v] \in [kind : {"formula"}, ref : Nat \X Nat, v : Int]
             /\ [x EXCEPT !.v = v].kind = "formula" /\ [x EXCEPT !.v = v].ref = x.ref
  BY <1>2, <1>4
<1>5. ASSUME NEW x \in Contents, x.kind = "formula", NEW v \in Int
      PROVE  Size([x EXCEPT !.v = v]) = Size(x)
  <2> DEFINE y == [x EXCEPT !.v = v]
  <2>1. y.kind = "formula" /\ y.ref = x.ref
    BY <1>4, <1>5
  <2> HIDE DEF y
  <2>2. Size(y) = Size(x)
    BY <2>1, <1>5 DEF Size
  <2> QED BY <2>2 DEF y
<1>6. \A y \in [kind : {"formula"}, ref : Nat \X Nat, v : Int] : y \in Contents /\ y # Blank
  BY DEF Contents, Blank
<1>7. \A x \in Contents : /\ x.kind \in {"value", "formula"} => x.v \in Int
                          /\ x.kind = "text" => x.len \in Nat
  BY DEF Contents
<1>8. <<0, 0>> \in Nat \X Nat
  OBVIOUS
<1> QED BY <1>1, <1>3, <1>4, <1>5, <1>6, <1>7, <1>8

LEMMA TakenType ==
  ASSUME NEW S \in Sheets
  PROVE  /\ Weighs(Taken(S), At)
         /\ \A p \in At : S.cell[p] \in Contents /\ Taken(S)[p] = Size(S.cell[p])
<1>1. \A p \in At : S.cell[p] \in Contents
  BY DEF Sheets
<1>2. \A p \in At : Taken(S)[p] = Size(S.cell[p])
  BY DEF Taken
<1>3. \A p \in At : Taken(S)[p] \in Nat
  BY <1>1, <1>2, SizeType
<1> QED BY <1>1, <1>2, <1>3, TheCells DEF Weighs

-----------------------------------------------------------------------------
(* Flags are no part of what cells and memory are. *)
Alike(S, T) ==
  /\ T \in Sheets
  /\ T.cell = S.cell /\ T.width = S.width /\ T.memleft = S.memleft
  /\ T.lastcol = S.lastcol /\ T.lastrow = S.lastrow

LEMMA AlikeGood ==
  ASSUME NEW S, NEW T, Alike(S, T)
  PROVE  /\ Paid(S) => Paid(T)
         /\ Within(S) => Within(T)
         /\ Good(S) => Good(T)
<1>1. Taken(T) = Taken(S)
  BY DEF Alike, Taken
<1> QED BY <1>1 DEF Alike, Paid, Within, Good

LEMMA Flagged ==
  ASSUME NEW S \in Sheets, NEW o \in SUBSET At
  PROVE  Alike(S, [S EXCEPT !.over = o])
  BY DEF Sheets, Alike

LEMMA FlagsOnly ==
  ASSUME NEW S \in Sheets, NEW p
  PROVE  /\ Alike(S, setoflags(S, p)) /\ Alike(S, clearoflags(S, p))
         /\ Alike(S, updateoflags(S, p))
<1>1. S.over \in SUBSET At
  BY DEF Sheets
<1>2. \A q : Alike(S, setoflags(S, q))
  <2> SUFFICES ASSUME NEW q
               PROVE  Alike(S, setoflags(S, q))
    OBVIOUS
  <2>1. S.over \cup Overrun(S, q) \in SUBSET At
    BY <1>1 DEF Overrun
  <2> QED BY <2>1, Flagged DEF setoflags
<1>3. Alike(S, clearoflags(S, p))
  <2> DEFINE gone == {q \in At : /\ q[2] = p[2] /\ q[1] >= p[1]
                                 /\ BlankRun(S, p[1], q[1], p[2])
                                 /\ \A k \in p[1] .. q[1] : <<k, p[2]>> \in S.over}
  <2>1. clearoflags(S, p) = [S EXCEPT !.over = S.over \ gone]
    BY DEF clearoflags
  <2> HIDE DEF gone
  <2>2. S.over \ gone \in SUBSET At
    BY <1>1
  <2> QED BY <2>1, <2>2, Flagged
<1>4. Alike(S, S)
  BY DEF Alike
<1>5. Alike(S, updateoflags(S, p))
  BY <1>2, <1>4 DEF updateoflags
<1> QED BY <1>2, <1>3, <1>5

LEMMA PutType ==
  ASSUME NEW S \in Sheets, NEW p \in At, NEW x \in Contents
  PROVE  /\ Put(S, p, x) \in Sheets
         /\ Put(S, p, x).cell[p] = x
         /\ \A q \in At : q # p => Put(S, p, x).cell[q] = S.cell[q]
         /\ Put(S, p, x).width = S.width /\ Put(S, p, x).memleft = S.memleft
         /\ Put(S, p, x).lastcol = S.lastcol /\ Put(S, p, x).lastrow = S.lastrow
         /\ Put(S, p, x).over = S.over
<1> DEFINE c == [q \in At |-> IF q = p THEN x ELSE S.cell[q]]
<1>1. c \in [At -> Contents] /\ c[p] = x /\ \A q \in At : q # p => c[q] = S.cell[q]
  BY DEF Sheets
<1>2. Put(S, p, x) = [S EXCEPT !.cell = c]
  BY DEF Put
<1> HIDE DEF c
<1>3. /\ [S EXCEPT !.cell = c] \in Sheets /\ [S EXCEPT !.cell = c].cell = c
      /\ [S EXCEPT !.cell = c].width = S.width /\ [S EXCEPT !.cell = c].memleft = S.memleft
      /\ [S EXCEPT !.cell = c].lastcol = S.lastcol /\ [S EXCEPT !.cell = c].lastrow = S.lastrow
      /\ [S EXCEPT !.cell = c].over = S.over
  BY <1>1 DEF Sheets
<1> QED BY <1>1, <1>2, <1>3

(* One cell is another, and the memory is charged with the difference. *)
LEMMA PutPaid ==
  ASSUME NEW S \in Sheets, NEW T \in Sheets, NEW p \in At,
         \A q \in At : q # p => T.cell[q] = S.cell[q]
  PROVE  /\ Total(Taken(T), At) = Total(Taken(S), At) - Size(S.cell[p]) + Size(T.cell[p])
         /\ Total(Taken(S), At) \in Nat /\ Total(Taken(T), At) \in Nat
         /\ Size(S.cell[p]) \in Nat /\ Size(T.cell[p]) \in Nat
         /\ S.memleft \in Int /\ T.memleft \in Int
<1>1. Weighs(Taken(S), At) /\ Weighs(Taken(T), At)
  BY TakenType
<1>2. \A q \in At : q # p => Taken(S)[q] = Taken(T)[q]
  BY TakenType
<1>3. Total(Taken(T), At) = Total(Taken(S), At) - Taken(S)[p] + Taken(T)[p]
  BY <1>1, <1>2, TotalPut
<1>4. Taken(S)[p] = Size(S.cell[p]) /\ Taken(T)[p] = Size(T.cell[p])
  BY TakenType
<1>5. Total(Taken(S), At) \in Nat /\ Total(Taken(T), At) \in Nat
  BY <1>1, BarsFinite
<1>6. Taken(S)[p] \in Nat /\ Taken(T)[p] \in Nat
  BY <1>1 DEF Weighs
<1> QED BY <1>3, <1>4, <1>5, <1>6 DEF Sheets

LEMMA AllocType ==
  ASSUME NEW S \in Sheets, NEW p \in At, NEW x \in Contents, S.cell[p] = Blank
  PROVE  /\ alloc(S, p, x) \in Sheets
         /\ \A q \in At : q # p => alloc(S, p, x).cell[q] = S.cell[q]
         /\ alloc(S, p, x).cell[p] \in {Blank, x}
         /\ alloc(S, p, x).width = S.width
         /\ alloc(S, p, x).lastcol = S.lastcol /\ alloc(S, p, x).lastrow = S.lastrow
         /\ Paid(S) => Paid(alloc(S, p, x))
<1>1. CASE S.memleft < Size(x)
  BY <1>1 DEF alloc
<1>2. CASE ~(S.memleft < Size(x))
  <2> DEFINE P == Put(S, p, x)
             T == [P EXCEPT !.memleft = P.memleft - Size(x)]
  <2>1. alloc(S, p, x) = T
    BY <1>2 DEF alloc
  <2>2. /\ P \in Sheets /\ P.cell[p] = x /\ \A q \in At : q # p => P.cell[q] = S.cell[q]
        /\ P.width = S.width /\ P.memleft = S.memleft
        /\ P.lastcol = S.lastcol /\ P.lastrow = S.lastrow
    BY PutType
  <2> HIDE DEF P
  <2>3. Size(x) \in Nat
    BY SizeType
  <2>4. /\ T \in Sheets /\ T.cell = P.cell /\ T.width = P.width
        /\ T.lastcol = P.lastcol /\ T.lastrow = P.lastrow /\ T.memleft = P.memleft - Size(x)
    BY <2>2, <2>3 DEF Sheets
  <2> HIDE DEF T
  <2>5. \A q \in At : q # p => T.cell[q] = S.cell[q]
    BY <2>2, <2>4
  <2>6. Paid(S) => Paid(T)
    <3>1. /\ Total(Taken(T), At) = Total(Taken(S), At) - Size(S.cell[p]) + Size(T.cell[p])
          /\ Total(Taken(S), At) \in Nat /\ Total(Taken(T), At) \in Nat /\ S.memleft \in Int
      BY <2>4, <2>5, PutPaid
    <3>2. Size(S.cell[p]) = 0 /\ T.cell[p] = x
      BY <2>2, <2>4, CellKinds, SizeType
    <3> QED BY <2>2, <2>3, <2>4, <3>1, <3>2, Limits DEF Paid
  <2> QED BY <2>1, <2>2, <2>4, <2>5, <2>6
<1> QED BY <1>1, <1>2

(* setlastcol and setlastrow find the last that is in use. *)
LEMMA LastOf ==
  ASSUME NEW m \in Nat, NEW U \in SUBSET (0 .. m)
  PROVE  /\ Max({0} \cup U) \in 0 .. m /\ \A u \in U : u <= Max({0} \cup U)
         /\ Max({0} \cup U) = 0 \/ Max({0} \cup U) \in U
<1> DEFINE V == {0} \cup U
<1>1. V \in SUBSET Int /\ 0 \in V /\ m \in Int /\ \A v \in V : v <= m /\ v >= 0
  OBVIOUS
<1>2. \E v \in V : \A y \in V : v >= y
  <2> HIDE DEF V
  <2> QED BY <1>1, Greatest
<1>3. Max(V) \in V /\ \A y \in V : Max(V) >= y
  BY <1>2 DEF Max
<1>4. \A u \in U : u \in V
  OBVIOUS
<1>5. \A v \in V : v \in 0 .. m /\ (v = 0 \/ v \in U)
  OBVIOUS
<1>6. \A y \in V : y \in Int
  OBVIOUS
<1>7. \A u \in U : u <= Max(V)
  <2> HIDE DEF V
  <2> QED BY <1>3, <1>4, <1>5, <1>6
<1>8. Max(V) \in 0 .. m /\ (Max(V) = 0 \/ Max(V) \in U)
  <2> HIDE DEF V
  <2> QED BY <1>3, <1>5
<1> QED BY <1>7, <1>8

LEMMA SetLastCol ==
  ASSUME NEW S \in Sheets
  PROVE  /\ setlastcol(S) \in Sheets
         /\ setlastcol(S).cell = S.cell /\ setlastcol(S).width = S.width
         /\ setlastcol(S).memleft = S.memleft /\ setlastcol(S).lastrow = S.lastrow
         /\ setlastcol(S).lastcol <= S.lastcol
         /\ Paid(S) => Paid(setlastcol(S))
         /\ Within(S) => Within(setlastcol(S))
<1> DEFINE U == {p[1] : p \in {q \in Used(S) : q[1] <= S.lastcol /\ q[2] <= S.lastrow}}
           m == Max({0} \cup U)
           T == setlastcol(S)
<1>1. S.lastcol \in 0 .. MaxCol /\ S.lastcol \in Nat
  BY Limits DEF Sheets
<1>2. U \in SUBSET (0 .. S.lastcol)
  BY <1>1, TheCells DEF Used
<1>3. m \in 0 .. S.lastcol /\ \A u \in U : u <= m
  <2> HIDE DEF U
  <2> QED BY <1>1, <1>2, LastOf
<1>4. T = [S EXCEPT !.lastcol = m]
  BY DEF setlastcol
<1> HIDE DEF m, T
<1>5. /\ T \in Sheets /\ T.cell = S.cell /\ T.width = S.width /\ T.memleft = S.memleft
      /\ T.lastrow = S.lastrow /\ T.lastcol = m
  <2>1. m \in 0 .. MaxCol
    BY <1>1, <1>3, Limits
  <2> QED BY <1>4, <2>1 DEF Sheets
<1>6. Taken(T) = Taken(S)
  BY <1>5 DEF Taken
<1>7. Within(S) => Within(T)
  <2> SUFFICES ASSUME Within(S), NEW p \in At, T.cell[p] # Blank
               PROVE  p[1] <= T.lastcol /\ p[2] <= T.lastrow
    BY DEF Within
  <2>1. S.cell[p] # Blank
    BY <1>5
  <2>2. p[1] <= S.lastcol /\ p[2] <= S.lastrow
    BY <2>1 DEF Within
  <2>3. p \in Used(S)
    BY <2>1, TakenType, SizeType DEF Used, Is
  <2>4. p[1] \in U
    BY <2>2, <2>3
  <2> QED BY <1>3, <1>5, <2>2, <2>4
<1>8. T.lastcol <= S.lastcol
  BY <1>1, <1>3, <1>5
<1> QED BY <1>5, <1>6, <1>7, <1>8 DEF T, Paid

LEMMA SetLastRow ==
  ASSUME NEW S \in Sheets
  PROVE  /\ setlastrow(S) \in Sheets
         /\ setlastrow(S).cell = S.cell /\ setlastrow(S).width = S.width
         /\ setlastrow(S).memleft = S.memleft /\ setlastrow(S).lastcol = S.lastcol
         /\ setlastrow(S).lastrow <= S.lastrow
         /\ Paid(S) => Paid(setlastrow(S))
         /\ Within(S) => Within(setlastrow(S))
<1> DEFINE U == {p[2] : p \in {q \in Used(S) : q[1] <= S.lastcol /\ q[2] <= S.lastrow}}
           m == Max({0} \cup U)
           T == setlastrow(S)
<1>1. S.lastrow \in 0 .. MaxRow /\ S.lastrow \in Nat
  BY Limits DEF Sheets
<1>2. U \in SUBSET (0 .. S.lastrow)
  BY <1>1, TheCells DEF Used
<1>3. m \in 0 .. S.lastrow /\ \A u \in U : u <= m
  <2> HIDE DEF U
  <2> QED BY <1>1, <1>2, LastOf
<1>4. T = [S EXCEPT !.lastrow = m]
  BY DEF setlastrow
<1> HIDE DEF m, T
<1>5. /\ T \in Sheets /\ T.cell = S.cell /\ T.width = S.width /\ T.memleft = S.memleft
      /\ T.lastcol = S.lastcol /\ T.lastrow = m
  <2>1. m \in 0 .. MaxRow
    BY <1>1, <1>3, Limits
  <2> QED BY <1>4, <2>1 DEF Sheets
<1>6. Taken(T) = Taken(S)
  BY <1>5 DEF Taken
<1>7. Within(S) => Within(T)
  <2> SUFFICES ASSUME Within(S), NEW p \in At, T.cell[p] # Blank
               PROVE  p[1] <= T.lastcol /\ p[2] <= T.lastrow
    BY DEF Within
  <2>1. S.cell[p] # Blank
    BY <1>5
  <2>2. p[1] <= S.lastcol /\ p[2] <= S.lastrow
    BY <2>1 DEF Within
  <2>3. p \in Used(S)
    BY <2>1, TakenType, SizeType DEF Used, Is
  <2>4. p[2] \in U
    BY <2>2, <2>3
  <2> QED BY <1>3, <1>5, <2>2, <2>4
<1>8. T.lastrow <= S.lastrow
  BY <1>1, <1>3, <1>5
<1> QED BY <1>5, <1>6, <1>7, <1>8 DEF T, Paid

LEMMA DeleteCell ==
  ASSUME NEW S \in Sheets, NEW p \in At
  PROVE  /\ deletecell(S, p) \in Sheets
         /\ deletecell(S, p).cell[p] = Blank
         /\ \A q \in At : q # p => deletecell(S, p).cell[q] = S.cell[q]
         /\ deletecell(S, p).width = S.width
         /\ deletecell(S, p).lastcol <= S.lastcol /\ deletecell(S, p).lastrow <= S.lastrow
         /\ p[1] # S.lastcol => deletecell(S, p).lastcol = S.lastcol
         /\ p[2] # S.lastrow => deletecell(S, p).lastrow = S.lastrow
         /\ Paid(S) => Paid(deletecell(S, p))
         /\ Within(S) => Within(deletecell(S, p))
<1>1. S.cell[p] \in Contents /\ S.lastcol \in Int /\ S.lastrow \in Int
  BY Limits DEF Sheets
<1>2. CASE Is(S, p, "blank")
  <2>1. deletecell(S, p) = S
    BY <1>2 DEF deletecell
  <2>2. S.cell[p] = Blank
    BY <1>1, <1>2, SizeType DEF Is
  <2> QED BY <1>1, <2>1, <2>2
<1>3. CASE ~Is(S, p, "blank")
  <2> DEFINE cleared == IF Is(S, p, "text") THEN clearoflags(S, <<p[1] + 1, p[2]>>) ELSE S
             P == Put(cleared, p, Blank)
             freed == [P EXCEPT !.memleft = P.memleft + Size(S.cell[p]), !.over = P.over \ {p}]
             narrowed == IF p[1] = freed.lastcol THEN setlastcol(freed) ELSE freed
             lowered == IF p[2] = narrowed.lastrow THEN setlastrow(narrowed) ELSE narrowed
             D == updateoflags(lowered, p)
  <2>1. deletecell(S, p) = D
    BY <1>3 DEF deletecell
  <2>2. Alike(S, cleared)
    BY FlagsOnly DEF Alike
  <2> HIDE DEF cleared
  <2>3. /\ P \in Sheets /\ P.cell[p] = Blank /\ \A q \in At : q # p => P.cell[q] = S.cell[q]
        /\ P.width = S.width /\ P.memleft = S.memleft
        /\ P.lastcol = S.lastcol /\ P.lastrow = S.lastrow
    <3>1. cleared \in Sheets /\ Blank \in Contents
      BY <2>2, CellKinds DEF Alike
    <3> QED BY <2>2, <3>1, PutType DEF Alike
  <2> HIDE DEF P
  <2>4. Size(S.cell[p]) \in Nat
    BY <1>1, SizeType
  <2>5. /\ freed \in Sheets /\ freed.cell = P.cell /\ freed.width = P.width
        /\ freed.lastcol = P.lastcol /\ freed.lastrow = P.lastrow
        /\ freed.memleft = P.memleft + Size(S.cell[p])
    <3> DEFINE m == P.memleft + Size(S.cell[p])
               o == P.over \ {p}
    <3>1. m \in Int /\ o \in SUBSET At
      BY <2>3, <2>4 DEF Sheets
    <3>2. freed = [P EXCEPT !.memleft = m, !.over = o]
      OBVIOUS
    <3> HIDE DEF m, o, freed
    <3>3. /\ freed \in Sheets /\ freed.cell = P.cell /\ freed.width = P.width
          /\ freed.lastcol = P.lastcol /\ freed.lastrow = P.lastrow /\ freed.memleft = m
      BY <2>3, <3>1, <3>2 DEF Sheets
    <3> QED BY <3>3 DEF m
  <2> HIDE DEF freed
  <2>6. Paid(S) => Paid(freed)
    <3>1. \A q \in At : q # p => freed.cell[q] = S.cell[q]
      BY <2>3, <2>5
    <3>2. /\ Total(Taken(freed), At) = Total(Taken(S), At) - Size(S.cell[p]) + Size(freed.cell[p])
          /\ Total(Taken(S), At) \in Nat /\ Total(Taken(freed), At) \in Nat /\ S.memleft \in Int
      BY <2>5, <3>1, PutPaid
    <3>3. Size(freed.cell[p]) = 0
      BY <2>3, <2>5, CellKinds, SizeType
    <3> QED BY <2>3, <2>4, <2>5, <3>2, <3>3, Limits DEF Paid
  <2>7. Within(S) => Within(freed)
    BY <2>3, <2>5 DEF Within
  <2>8. /\ narrowed \in Sheets /\ narrowed.cell = freed.cell /\ narrowed.width = freed.width
        /\ narrowed.lastcol <= freed.lastcol /\ narrowed.lastrow = freed.lastrow
        /\ p[1] # freed.lastcol => narrowed.lastcol = freed.lastcol
        /\ Paid(freed) => Paid(narrowed)
        /\ Within(freed) => Within(narrowed)
    <3>1. freed.lastcol <= freed.lastcol
      BY <1>1, <2>3, <2>5
    <3> QED BY <2>5, <3>1, SetLastCol
  <2> HIDE DEF narrowed
  <2>9. /\ lowered \in Sheets /\ lowered.cell = narrowed.cell /\ lowered.width = narrowed.width
        /\ lowered.lastrow <= narrowed.lastrow /\ lowered.lastcol = narrowed.lastcol
        /\ p[2] # narrowed.lastrow => lowered.lastrow = narrowed.lastrow
        /\ Paid(narrowed) => Paid(lowered)
        /\ Within(narrowed) => Within(lowered)
    <3>1. narrowed.lastrow <= narrowed.lastrow
      BY <1>1, <2>3, <2>5, <2>8
    <3> QED BY <2>8, <3>1, SetLastRow
  <2> HIDE DEF lowered
  <2>10. Alike(lowered, D)
    BY <2>9, FlagsOnly
  <2> HIDE DEF D
  <2>11. (Paid(lowered) => Paid(D)) /\ (Within(lowered) => Within(D))
    BY <2>10, AlikeGood
  <2>12. /\ D \in Sheets /\ D.cell = P.cell /\ D.width = S.width
         /\ D.lastcol = narrowed.lastcol /\ D.lastrow = lowered.lastrow
    BY <2>3, <2>5, <2>8, <2>9, <2>10 DEF Alike
  <2> QED BY <2>1, <2>3, <2>5, <2>6, <2>7, <2>8, <2>9, <2>11, <2>12
<1> QED BY <1>2, <1>3

LEMMA CellValueType ==
  ASSUME NEW S \in Sheets, NEW p
  PROVE  cellvalue(S, p) \in Int
<1>1. CASE p \notin At
  BY <1>1 DEF cellvalue, HUGE_VAL
<1>2. CASE p \in At
  <2>1. S.cell[p] \in Contents
    BY <1>2 DEF Sheets
  <2>2. S.cell[p].kind \in {"blank", "text", "value", "formula"}
    BY <2>1, SizeType
  <2>3. S.cell[p].kind \in {"value", "formula"} => S.cell[p].v \in Int
    BY <2>1, CellKinds
  <2> DEFINE k == S.cell[p].kind
  <2>4. cellvalue(S, p) = IF k = "blank" THEN 0 ELSE IF k = "text" THEN -1 ELSE S.cell[p].v
    BY <1>2 DEF cellvalue, Is, HUGE_VAL
  <2> HIDE DEF k
  <2>5. k \in {"blank", "text", "value", "formula"}
        /\ (k \in {"value", "formula"} => S.cell[p].v \in Int)
    BY <2>2, <2>3 DEF k
  <2> QED BY <2>4, <2>5
<1> QED BY <1>1, <1>2

(* Recomputing one cell leaves what it takes as it is. *)
Worked(T, p) ==
  IF Is(T, p, "formula") THEN Put(T, p, [T.cell[p] EXCEPT !.v = cellvalue(T, T.cell[p].ref)])
  ELSE T

LEMMA WorkedGood ==
  ASSUME NEW T \in Sheets, NEW p \in At
  PROVE  /\ Worked(T, p) \in Sheets
         /\ Good(T) => Good(Worked(T, p))
<1>1. CASE ~Is(T, p, "formula")
  BY <1>1 DEF Worked
<1>2. CASE Is(T, p, "formula")
  <2> DEFINE x == [T.cell[p] EXCEPT !.v = cellvalue(T, T.cell[p].ref)]
             P == Put(T, p, x)
  <2>1. Worked(T, p) = P
    BY <1>2 DEF Worked
  <2>2. T.cell[p] \in Contents /\ T.cell[p].kind = "formula"
    BY <1>2 DEF Is, Sheets
  <2>3. cellvalue(T, T.cell[p].ref) \in Int
    BY CellValueType
  <2>4. x \in Contents /\ x # Blank /\ Size(x) = Size(T.cell[p])
    BY <2>2, <2>3, CellKinds
  <2> HIDE DEF x
  <2>5. /\ P \in Sheets /\ P.cell[p] = x /\ \A q \in At : q # p => P.cell[q] = T.cell[q]
        /\ P.memleft = T.memleft /\ P.lastcol = T.lastcol /\ P.lastrow = T.lastrow
    BY <2>4, PutType
  <2> HIDE DEF P
  <2>6. \A q \in At : /\ P.cell[q] = Blank <=> T.cell[q] = Blank
                      /\ Size(P.cell[q]) = Size(T.cell[q])
    <3>1. T.cell[p] # Blank
      BY <2>2, SizeType
    <3> QED BY <2>4, <2>5, <3>1
  <2>7. Total(Taken(P), At) = Total(Taken(T), At)
    <3>1. \A q \in At : Taken(P)[q] = Taken(T)[q]
      BY <2>6 DEF Taken
    <3> QED BY <3>1, TotalSame
  <2>8. Good(T) => Good(P)
    BY <2>5, <2>6, <2>7 DEF Good, Paid, Within
  <2> QED BY <2>1, <2>5, <2>8
<1> QED BY <1>1, <1>2

-----------------------------------------------------------------------------
(* The cells by columns and by rows. *)
LEMMA Division ==
  ASSUME NEW a \in Nat, NEW b \in Nat, b > 0
  PROVE  /\ a \div b \in Nat /\ a % b \in 0 .. b - 1 /\ a = b * (a \div b) + (a % b)
  OBVIOUS

LEMMA Product ==
  ASSUME NEW a \in Nat, NEW b \in Nat, NEW c \in Nat, NEW r \in Nat,
         b > 0, r < b, a < c * b
  PROVE  /\ a \div b < c
         /\ \A q \in Nat : a = b * q + r => a \div b = q /\ a % b = r
  OBVIOUS

LEMMA Grid ==
  ASSUME NEW a \in Nat, NEW b \in Nat, a > 0, b > 0
  PROVE  /\ a * b \in Nat
         /\ \A i \in 1 .. a * b : /\ (i - 1) \div b \in 0 .. a - 1
                                  /\ (i - 1) % b \in 0 .. b - 1
         /\ \A i, j \in 1 .. a * b :
              (i - 1) \div b = (j - 1) \div b /\ (i - 1) % b = (j - 1) % b => i = j
         /\ \A x \in 0 .. a - 1, y \in 0 .. b - 1 :
              \E i \in 1 .. a * b : (i - 1) \div b = x /\ (i - 1) % b = y
<1>1. a * b \in Nat
  OBVIOUS
<1>2. ASSUME NEW i \in 1 .. a * b
      PROVE  /\ i - 1 \in Nat /\ i - 1 < a * b
             /\ (i - 1) \div b \in 0 .. a - 1 /\ (i - 1) % b \in 0 .. b - 1
             /\ i - 1 = b * ((i - 1) \div b) + ((i - 1) % b)
  <2>1. i - 1 \in Nat /\ i - 1 < a * b
    BY <1>1
  <2>2. /\ (i - 1) \div b \in Nat /\ (i - 1) % b \in 0 .. b - 1
        /\ i - 1 = b * ((i - 1) \div b) + ((i - 1) % b)
    BY <2>1, Division
  <2>3. (i - 1) \div b < a
    BY <2>1, Product
  <2> QED BY <2>1, <2>2, <2>3
<1>3. ASSUME NEW i \in 1 .. a * b, NEW j \in 1 .. a * b,
             (i - 1) \div b = (j - 1) \div b, (i - 1) % b = (j - 1) % b
      PROVE  i = j
  <2>1. i - 1 = j - 1
    BY <1>2, <1>3
  <2> QED BY <2>1
<1>4. ASSUME NEW x \in 0 .. a - 1, NEW y \in 0 .. b - 1
      PROVE  \E i \in 1 .. a * b : (i - 1) \div b = x /\ (i - 1) % b = y
  <2> DEFINE k == b * x + y
  <2>1. k \in Nat /\ x \in Nat /\ y \in Nat /\ y < b
    OBVIOUS
  <2>2. k < a * b
    <3>1. x <= a - 1 /\ y <= b - 1
      OBVIOUS
    <3>2. b * x <= b * (a - 1)
      BY <3>1
    <3>3. b * (a - 1) + b = a * b
      OBVIOUS
    <3> QED BY <2>1, <3>1, <3>2, <3>3
  <2>3. k \div b = x /\ k % b = y
    BY <2>1, <2>2, Product
  <2> HIDE DEF k
  <2>4. k + 1 \in 1 .. a * b /\ (k + 1) - 1 = k
    BY <1>1, <2>1, <2>2
  <2> QED BY <2>3, <2>4
<1> QED BY <1>1, <1>2, <1>3, <1>4

LEMMA Columns ==
  ASSUME NEW S \in Sheets, NEW n, n = (S.lastcol + 1) * (S.lastrow + 1)
  PROVE  /\ n \in Nat /\ DOMAIN ByColumns(S) = 1 .. n
         /\ \A i \in 1 .. n : /\ ByColumns(S)[i] \in At
                              /\ ByColumns(S)[i][1] <= S.lastcol /\ ByColumns(S)[i][2] <= S.lastrow
         /\ \A i, j \in 1 .. n : ByColumns(S)[i] = ByColumns(S)[j] => i = j
<1> DEFINE a == S.lastcol + 1
           b == S.lastrow + 1
<1>1. /\ a \in Nat /\ b \in Nat /\ a > 0 /\ b > 0
      /\ a - 1 = S.lastcol /\ b - 1 = S.lastrow /\ S.lastcol \in 0 .. MaxCol /\ S.lastrow \in 0 .. MaxRow
  <2>1. S.lastcol \in 0 .. MaxCol /\ S.lastrow \in 0 .. MaxRow
    BY DEF Sheets
  <2> QED BY <2>1, Limits
<1>2. /\ n = a * b
      /\ ByColumns(S) = [i \in 1 .. a * b |-> <<(i - 1) \div b, (i - 1) % b>>]
  BY DEF ByColumns
<1> HIDE DEF a, b
<1>3. /\ n \in Nat
      /\ \A i \in 1 .. n : /\ (i - 1) \div b \in 0 .. a - 1
                           /\ (i - 1) % b \in 0 .. b - 1
      /\ \A i, j \in 1 .. n :
           (i - 1) \div b = (j - 1) \div b /\ (i - 1) % b = (j - 1) % b => i = j
  <2>1. /\ a * b \in Nat
        /\ \A i \in 1 .. a * b : /\ (i - 1) \div b \in 0 .. a - 1
                                 /\ (i - 1) % b \in 0 .. b - 1
        /\ \A i, j \in 1 .. a * b :
             (i - 1) \div b = (j - 1) \div b /\ (i - 1) % b = (j - 1) % b => i = j
    BY <1>1, Grid
  <2>2. n = a * b
    BY <1>2
  <2> QED BY <2>1, <2>2, Zenon
<1>4. ASSUME NEW i \in 1 .. n
      PROVE  /\ ByColumns(S)[i] = <<(i - 1) \div b, (i - 1) % b>>
             /\ ByColumns(S)[i] \in At
             /\ ByColumns(S)[i][1] <= S.lastcol /\ ByColumns(S)[i][2] <= S.lastrow
  <2> DEFINE x == (i - 1) \div b
             y == (i - 1) % b
  <2>1. x \in 0 .. a - 1 /\ y \in 0 .. b - 1 /\ ByColumns(S)[i] = <<x, y>>
    BY <1>2, <1>3
  <2> HIDE DEF x, y
  <2>2. x \in 0 .. MaxCol /\ y \in 0 .. MaxRow /\ x <= S.lastcol /\ y <= S.lastrow
    BY <1>1, <2>1, Limits
  <2>3. <<x, y>> \in At
    BY <2>2, TheCells
  <2> QED BY <2>1, <2>2, <2>3 DEF x, y
<1>5. DOMAIN ByColumns(S) = 1 .. n
  BY <1>2
<1>6. ASSUME NEW i \in 1 .. n, NEW j \in 1 .. n, ByColumns(S)[i] = ByColumns(S)[j]
      PROVE  i = j
  <2>1. (i - 1) \div b = (j - 1) \div b /\ (i - 1) % b = (j - 1) % b
    BY <1>4, <1>6
  <2> QED BY <1>3, <2>1
<1> QED BY <1>3, <1>4, <1>5, <1>6

-----------------------------------------------------------------------------
(* What every turn of a fold keeps, from one of the sets J[k] to the next. *)
LEMMA Prefix ==
  ASSUME NEW n \in Nat, NEW k \in 1 .. n
  PROVE  /\ k \in 0 .. n /\ k - 1 \in 0 .. n /\ 1 .. k \in SUBSET (1 .. n) /\ 1 .. k # {}
         /\ Max(1 .. k) = k /\ (1 .. k) \ {k} = 1 .. (k - 1)
<1>1. k \in 0 .. n /\ k - 1 \in 0 .. n /\ 1 .. k \in SUBSET (1 .. n) /\ 1 .. k # {}
  OBVIOUS
<1>2. Max(1 .. k) \in 1 .. k /\ \A y \in 1 .. k : Max(1 .. k) >= y
  BY <1>1, MaxOf
<1>3. Max(1 .. k) = k
  <2>1. k \in 1 .. k
    OBVIOUS
  <2> QED BY <1>2, <2>1
<1>4. (1 .. k) \ {k} = 1 .. (k - 1)
  OBVIOUS
<1> QED BY <1>1, <1>3, <1>4

LEMMA FoldKeeps ==
  ASSUME NEW n \in Nat, NEW X, NEW base, NEW h, NEW c, NEW J,
         c[{}] = base,
         \A s \in SUBSET (1 .. n) : s # {} /\ Max(s) \in 1 .. n /\ c[s \ {Max(s)}] \in X
                                      => c[s] = h[<<c[s \ {Max(s)}], Max(s)>>],
         base \in J[0], \A k \in 0 .. n : J[k] \subseteq X,
         \A k \in 1 .. n : \A x \in J[k - 1] : h[<<x, k>>] \in J[k]
  PROVE  c[1 .. n] \in J[n]
<1> DEFINE K == {k \in Nat : k <= n => c[1 .. k] \in J[k]}
<1>1. 0 \in K
  <2>1. 1 .. 0 = {}
    OBVIOUS
  <2> QED BY <2>1
<1>2. ASSUME NEW k \in Nat, k \in K
      PROVE  k + 1 \in K
  <2> SUFFICES ASSUME k + 1 <= n
               PROVE  c[1 .. k + 1] \in J[k + 1]
    OBVIOUS
  <2> DEFINE m == k + 1
  <2>1. m \in 1 .. n /\ m - 1 = k /\ k \in 0 .. n
    OBVIOUS
  <2>2. c[1 .. k] \in J[k] /\ c[1 .. k] \in X
    BY <1>2, <2>1
  <2> HIDE DEF m
  <2>3. /\ 1 .. m \in SUBSET (1 .. n) /\ 1 .. m # {}
        /\ Max(1 .. m) = m /\ (1 .. m) \ {m} = 1 .. k
    BY <2>1, Prefix
  <2>4. c[1 .. m] = h[<<c[1 .. k], m>>]
    BY <2>1, <2>2, <2>3
  <2>5. c[1 .. m] \in J[m]
    BY <2>1, <2>2, <2>4
  <2> QED BY <2>5 DEF m
<1> HIDE DEF K
<1>3. n \in K
  BY <1>1, <1>2, NatInduct
<1> QED BY <1>3 DEF K

LEMMA RecalcGood ==
  ASSUME NEW S, Good(S)
  PROVE  Good(recalc(S))
<1> DEFINE n == (S.lastcol + 1) * (S.lastrow + 1)
           q == ByColumns(S)
           X == {T \in Sheets : Good(T)}
           J == [k \in 0 .. n |-> X]
           body(T, i) == Worked(T, q[i])
           h == [a \in X \X (1 .. n) |-> body(a[1], a[2])]
           F(it) == [s \in SUBSET (1 .. n) |->
                       IF s = {} THEN S ELSE body(it[s \ {Max(s)}], Max(s))]
           c == CHOOSE it : it = F(it)
<1>1. S \in Sheets
  BY DEF Good
<1>2. n \in Nat /\ DOMAIN q = 1 .. n /\ \A i \in 1 .. n : q[i] \in At
  BY <1>1, Columns
<1>3. S \in X /\ recalc(S) = c[1 .. n]
  <2>1. recalc(S) = (CHOOSE it : it = [s \in SUBSET DOMAIN q |->
                       IF s = {} THEN S ELSE Worked(it[s \ {Max(s)}], q[Max(s)])])[DOMAIN q]
    BY DEF recalc, FoldLeft, MapThenFoldSet, Worked
  <2> QED BY <1>1, <1>2, <2>1
<1> HIDE DEF n, q
<1>4. \A T \in X : \A i \in 1 .. n : body(T, i) \in X
  BY <1>2, WorkedGood
<1>5. \A T \in X : \A i \in 1 .. n : h[<<T, i>>] = body(T, i) /\ h[<<T, i>>] \in X
  <2> HIDE DEF X, body
  <2> QED BY <1>4
<1> HIDE DEF X, h, body
<1>6. c = F(c)
  <2>1. PICK e : Folded(e, n, X, S, h)
    BY <1>2, <1>3, <1>5, FoldExists
  <2>2. \A s \in SUBSET (1 .. n) : s # {} =>
          h[<<e[s \ {Max(s)}], Max(s)>>] = body(e[s \ {Max(s)}], Max(s))
    BY <1>5, <2>1 DEF Folded
  <2>3. e = F(e)
    BY <2>1, <2>2 DEF Folded
  <2> QED BY <2>3
<1> HIDE DEF c
<1>7. /\ c[{}] = S
      /\ \A s \in SUBSET (1 .. n) : s # {} /\ Max(s) \in 1 .. n /\ c[s \ {Max(s)}] \in X
                                    => c[s] = h[<<c[s \ {Max(s)}], Max(s)>>]
  BY <1>5, <1>6
<1>8. ASSUME NEW k \in 1 .. n, NEW T \in J[k - 1]
      PROVE  h[<<T, k>>] \in J[k]
  <2>1. k - 1 \in 0 .. n /\ k \in 0 .. n
    BY <1>2
  <2> QED BY <1>5, <1>8, <2>1
<1>9. S \in J[0] /\ \A k \in 0 .. n : J[k] \subseteq X
  BY <1>2, <1>3
<1>10. c[1 .. n] \in J[n]
  <2> HIDE DEF J
  <2> QED BY <1>2, <1>7, <1>8, <1>9, FoldKeeps
<1> QED BY <1>2, <1>3, <1>10 DEF X

LEMMA RecalcIfGood ==
  ASSUME NEW S, Good(S)
  PROVE  Good(recalcIf(S))
  BY RecalcGood DEF recalcIf

-----------------------------------------------------------------------------
(* What is typed goes into a cell. *)
LEMMA MaxOfTwo ==
  ASSUME NEW a \in Int, NEW b \in Int
  PROVE  /\ Max({a, b}) \in {a, b} /\ a <= Max({a, b}) /\ b <= Max({a, b})
<1>1. \E m \in {a, b} : \A y \in {a, b} : m >= y
  <2>1. CASE a >= b
    BY <2>1
  <2>2. CASE ~(a >= b)
    BY <2>2
  <2> QED BY <2>1, <2>2
<1>2. Max({a, b}) \in {a, b} /\ \A y \in {a, b} : Max({a, b}) >= y
  BY <1>1 DEF Max
<1> QED BY <1>2

LEMMA ActGood ==
  ASSUME NEW S, Good(S), NEW p \in At, NEW x \in Contents, x # Blank
  PROVE  Good(act(S, p, x))
<1> DEFINE deleted == deletecell(S, p)
           parsed == IF x.kind = "formula" THEN [x EXCEPT !.v = cellvalue(deleted, x.ref)] ELSE x
           stored == alloc(deleted, p, parsed)
           bare == [stored EXCEPT !.over = stored.over \ {p}]
           uncovered == clearoflags(bare, <<p[1] + 1, p[2]>>)
           shown == IF x.kind = "text" THEN setoflags(uncovered, p) ELSE uncovered
           lc == Max({shown.lastcol, p[1]})
           lr == Max({shown.lastrow, p[2]})
           V == [shown EXCEPT !.lastcol = lc, !.lastrow = lr]
<1>1. act(S, p, x) = IF Is(stored, p, "blank") THEN stored ELSE recalcIf(V)
  BY DEF act
<1>2. deleted \in Sheets /\ deleted.cell[p] = Blank /\ Paid(deleted) /\ Within(deleted)
  BY DeleteCell DEF Good
<1> HIDE DEF deleted
<1>3. parsed \in Contents /\ parsed # Blank
  <2>1. cellvalue(deleted, x.ref) \in Int
    BY <1>2, CellValueType
  <2> QED BY <2>1, CellKinds
<1> HIDE DEF parsed
<1>4. /\ stored \in Sheets /\ Paid(stored) /\ stored.cell[p] \in {Blank, parsed}
      /\ \A q \in At : q # p => stored.cell[q] = deleted.cell[q]
      /\ stored.lastcol = deleted.lastcol /\ stored.lastrow = deleted.lastrow
  BY <1>2, <1>3, AllocType
<1> HIDE DEF stored
<1>5. CASE Is(stored, p, "blank")
  <2>1. stored.cell[p] = Blank
    BY <1>4, <1>5, TakenType, SizeType DEF Is
  <2>2. Within(stored)
    BY <1>2, <1>4, <2>1 DEF Within
  <2> QED BY <1>1, <1>4, <1>5, <2>2 DEF Good
<1>6. CASE ~Is(stored, p, "blank")
  <2>1. Alike(stored, bare)
    <3>1. stored.over \ {p} \in SUBSET At
      BY <1>4 DEF Sheets
    <3> QED BY <1>4, <3>1, Flagged
  <2> HIDE DEF bare
  <2>2. Alike(bare, uncovered)
    BY <2>1, FlagsOnly DEF Alike
  <2> HIDE DEF uncovered
  <2>3. Alike(uncovered, shown)
    BY <2>2, FlagsOnly DEF Alike
  <2> HIDE DEF shown
  <2>4. /\ shown \in Sheets /\ shown.cell = stored.cell /\ Paid(shown)
        /\ shown.lastcol = stored.lastcol /\ shown.lastrow = stored.lastrow
    BY <1>4, <2>1, <2>2, <2>3, AlikeGood DEF Alike
  <2>5. /\ shown.lastcol \in 0 .. MaxCol /\ shown.lastrow \in 0 .. MaxRow
        /\ p[1] \in 0 .. MaxCol /\ p[2] \in 0 .. MaxRow
    BY <2>4, TheCells DEF Sheets
  <2>6. /\ lc \in 0 .. MaxCol /\ shown.lastcol <= lc /\ p[1] <= lc
        /\ lr \in 0 .. MaxRow /\ shown.lastrow <= lr /\ p[2] <= lr
    <3>1. /\ shown.lastcol \in Int /\ shown.lastrow \in Int /\ p[1] \in Int /\ p[2] \in Int
      BY <2>5
    <3>2. /\ lc \in {shown.lastcol, p[1]} /\ shown.lastcol <= lc /\ p[1] <= lc
          /\ lr \in {shown.lastrow, p[2]} /\ shown.lastrow <= lr /\ p[2] <= lr
      BY <3>1, MaxOfTwo
    <3> HIDE DEF lc, lr
    <3> QED BY <2>5, <3>2
  <2> HIDE DEF lc, lr
  <2>7. /\ V \in Sheets /\ V.cell = shown.cell /\ V.memleft = shown.memleft
        /\ V.lastcol = lc /\ V.lastrow = lr
    BY <2>4, <2>6 DEF Sheets
  <2> HIDE DEF V
  <2>8. Paid(V)
    <3>1. Taken(V) = Taken(shown)
      BY <2>7 DEF Taken
    <3> QED BY <2>4, <2>7, <3>1 DEF Paid
  <2>9. Within(V)
    <3> SUFFICES ASSUME NEW q \in At, V.cell[q] # Blank
                 PROVE  q[1] <= V.lastcol /\ q[2] <= V.lastrow
      BY DEF Within
    <3>1. CASE q = p
      BY <2>6, <2>7, <3>1
    <3>2. CASE q # p
      <4>1. deleted.cell[q] # Blank
        BY <1>4, <2>4, <2>7, <3>2
      <4>2. q[1] <= deleted.lastcol /\ q[2] <= deleted.lastrow
        BY <1>2, <4>1 DEF Within
      <4>3. q[1] \in Int /\ q[2] \in Int
        BY TheCells
      <4> QED BY <1>4, <2>4, <2>5, <2>6, <2>7, <4>2, <4>3
    <3> QED BY <3>1, <3>2
  <2>10. Good(V)
    BY <2>7, <2>8, <2>9 DEF Good
  <2> QED BY <1>1, <1>6, <2>10, RecalcIfGood
<1> QED BY <1>5, <1>6

-----------------------------------------------------------------------------
(* A column is emptied: the loop deletes the cells of column c, or of the last
   column in use where that is the last of all. *)
LEMMA TurnCol ==
  ASSUME NEW T, Good(T), NEW c \in 0 .. MaxCol, NEW r \in Nat,
         NEW x, x = c \/ (x = T.lastcol /\ c = MaxCol),
         NEW U, U = IF r <= T.lastrow THEN deletecell(T, <<x, r>>) ELSE T
  PROVE  /\ Good(U) /\ U.lastcol <= T.lastcol /\ U.lastrow <= T.lastrow
         /\ \A p \in At : T.cell[p] = Blank => U.cell[p] = Blank
         /\ <<c, r>> \in At => U.cell[<<c, r>>] = Blank
<1>1. /\ T \in Sheets /\ Within(T) /\ T.lastcol \in 0 .. MaxCol /\ T.lastrow \in 0 .. MaxRow
      /\ T.lastcol \in Int /\ T.lastrow \in Int
  BY DEF Good, Sheets
<1>2. CASE ~(r <= T.lastrow)
  <2>1. ASSUME <<c, r>> \in At
        PROVE  T.cell[<<c, r>>] = Blank
    BY <1>1, <1>2, <2>1 DEF Within
  <2> QED BY <1>1, <1>2, <2>1
<1>3. CASE r <= T.lastrow
  <2>1. r \in 0 .. MaxRow /\ x \in 0 .. MaxCol
    BY <1>1, <1>3, Limits
  <2>2. <<x, r>> \in At
    BY <2>1, TheCells
  <2>3. /\ U \in Sheets /\ U.cell[<<x, r>>] = Blank
        /\ \A q \in At : q # <<x, r>> => U.cell[q] = T.cell[q]
        /\ U.lastcol <= T.lastcol /\ U.lastrow <= T.lastrow
        /\ Paid(U) /\ Within(U)
    BY <1>1, <1>3, <2>2, DeleteCell DEF Good
  <2>4. ASSUME <<c, r>> \in At
        PROVE  U.cell[<<c, r>>] = Blank
    <3>1. CASE x = c
      BY <2>3, <3>1
    <3>2. CASE x # c
      <4>1. ~(c <= T.lastcol)
        BY <1>1, <3>2, Limits
      <4>2. T.cell[<<c, r>>] = Blank
        BY <1>1, <2>4, <4>1 DEF Within
      <4>3. <<c, r>> # <<x, r>>
        BY <3>2
      <4> QED BY <2>3, <2>4, <4>2, <4>3
    <3> QED BY <3>1, <3>2
  <2>5. \A p \in At : T.cell[p] = Blank => U.cell[p] = Blank
    BY <2>3
  <2> QED BY <2>3, <2>4, <2>5 DEF Good
<1> QED BY <1>2, <1>3

(* T is S with the cells of column c emptied that are above row k. *)
ColBare(S, T, c, k) ==
  /\ Good(T) /\ T.lastcol <= S.lastcol /\ T.lastrow <= S.lastrow
  /\ \A p \in At : S.cell[p] = Blank => T.cell[p] = Blank
  /\ \A p \in At : p[1] = c /\ p[2] < k => T.cell[p] = Blank

LEMMA BareCol ==
  ASSUME NEW S \in Sheets, NEW T, NEW c, ColBare(S, T, c, S.lastrow + 1)
  PROVE  \A p \in At : p[1] = c => T.cell[p] = Blank
<1> SUFFICES ASSUME NEW p \in At, p[1] = c
             PROVE  T.cell[p] = Blank
  OBVIOUS
<1>1. p[2] \in Int /\ S.lastrow \in Int /\ T.lastrow \in Int
  BY TheCells DEF ColBare, Good, Sheets
<1>2. CASE p[2] < S.lastrow + 1
  BY <1>2 DEF ColBare
<1>3. CASE ~(p[2] < S.lastrow + 1)
  <2>1. ~(p[2] <= T.lastrow)
    BY <1>1, <1>3 DEF ColBare
  <2> QED BY <2>1 DEF ColBare, Good, Within
<1> QED BY <1>2, <1>3

LEMMA EmptyColBare ==
  ASSUME NEW S, Good(S), NEW c \in 0 .. MaxCol
  PROVE  ColBare(S, EmptyCol(S, c), c, S.lastrow + 1)
<1> DEFINE n == S.lastrow + 1
           q == [r \in 1 .. S.lastrow + 1 |-> r - 1]
           X == {T \in Sheets : Good(T)}
           J == [k \in 0 .. n |-> {T \in X : ColBare(S, T, c, k)}]
           body(T, i) == IF q[i] <= T.lastrow THEN deletecell(T, <<c, q[i]>>) ELSE T
           h == [a \in X \X (1 .. n) |-> body(a[1], a[2])]
           F(it) == [s \in SUBSET (1 .. n) |->
                       IF s = {} THEN S ELSE body(it[s \ {Max(s)}], Max(s))]
           g == CHOOSE it : it = F(it)
<1>1. /\ S \in Sheets /\ S.lastrow \in Nat /\ S.lastcol \in Int /\ c \in 0 .. MaxCol
      /\ \A T \in X : Good(T) /\ T \in Sheets
  BY Limits DEF Good, Sheets
<1>2. n \in Nat /\ DOMAIN q = 1 .. n /\ \A i \in 1 .. n : q[i] = i - 1 /\ q[i] \in Nat
  BY <1>1
<1>3. S \in X /\ EmptyCol(S, c) = g[1 .. n]
  <2>1. EmptyCol(S, c) = (CHOOSE it : it = [s \in SUBSET DOMAIN q |->
                       IF s = {} THEN S ELSE body(it[s \ {Max(s)}], Max(s))])[DOMAIN q]
    BY DEF EmptyCol, FoldLeft, MapThenFoldSet
  <2> QED BY <1>1, <1>2, <2>1
<1> HIDE DEF n, q
<1>4. \A T \in X : \A i \in 1 .. n : body(T, i) \in X
  <2> SUFFICES ASSUME NEW T \in X, NEW i \in 1 .. n
               PROVE  Good(body(T, i))
    BY DEF Good
  <2>1. Good(T) /\ q[i] \in Nat
    BY <1>1, <1>2
  <2> HIDE DEF X
  <2> QED BY <1>1, <2>1, TurnCol
<1>5. \A T \in X : \A i \in 1 .. n : h[<<T, i>>] = body(T, i) /\ h[<<T, i>>] \in X
  <2> HIDE DEF X, body
  <2> QED BY <1>4
<1> HIDE DEF X, h, body
<1>6. g = F(g)
  <2>1. PICK e : Folded(e, n, X, S, h)
    BY <1>2, <1>3, <1>5, FoldExists
  <2>2. \A s \in SUBSET (1 .. n) : s # {} =>
          h[<<e[s \ {Max(s)}], Max(s)>>] = body(e[s \ {Max(s)}], Max(s))
    BY <1>5, <2>1 DEF Folded
  <2>3. e = F(e)
    BY <2>1, <2>2 DEF Folded
  <2> QED BY <2>3
<1> HIDE DEF g
<1>7. /\ g[{}] = S
      /\ \A s \in SUBSET (1 .. n) : s # {} /\ Max(s) \in 1 .. n /\ g[s \ {Max(s)}] \in X
                                    => g[s] = h[<<g[s \ {Max(s)}], Max(s)>>]
  BY <1>5, <1>6
<1>8. ASSUME NEW k \in 1 .. n, NEW T \in J[k - 1]
      PROVE  h[<<T, k>>] \in J[k]
  <2>1. k - 1 \in 0 .. n /\ k \in 0 .. n /\ q[k] = k - 1 /\ q[k] \in Nat
    BY <1>2
  <2>2. T \in X /\ Good(T) /\ ColBare(S, T, c, k - 1)
    BY <1>1, <1>8, <2>1
  <2> DEFINE U == body(T, k)
  <2>3. U = h[<<T, k>>] /\ U \in X
    BY <1>4, <1>5, <2>2
  <2>4. /\ Good(U) /\ U.lastcol <= T.lastcol /\ U.lastrow <= T.lastrow
        /\ \A p \in At : T.cell[p] = Blank => U.cell[p] = Blank
        /\ <<c, k - 1>> \in At => U.cell[<<c, k - 1>>] = Blank
    BY <1>1, <2>1, <2>2, TurnCol DEF body
  <2> HIDE DEF U
  <2>5. ColBare(S, U, c, k)
    <3>1. /\ T.lastcol \in Int /\ T.lastrow \in Int /\ U.lastcol \in Int /\ U.lastrow \in Int
          /\ S.lastcol \in Int /\ S.lastrow \in Int
      BY <1>1, <2>2, <2>4 DEF Good, Sheets
    <3>2. ASSUME NEW p \in At, p[1] = c, p[2] < k
          PROVE  U.cell[p] = Blank
      <4>1. p[2] \in Nat /\ p = <<c, p[2]>>
        BY <3>2, TheCells
      <4>2. CASE p[2] = k - 1
        BY <2>4, <4>1, <4>2
      <4>3. CASE p[2] < k - 1
        BY <2>2, <2>4, <3>2, <4>3 DEF ColBare
      <4> QED BY <3>2, <4>1, <4>2, <4>3
    <3>3. U.lastcol <= S.lastcol /\ U.lastrow <= S.lastrow
      BY <2>2, <2>4, <3>1 DEF ColBare
    <3>4. \A p \in At : S.cell[p] = Blank => U.cell[p] = Blank
      BY <2>2, <2>4 DEF ColBare
    <3> QED BY <2>4, <3>2, <3>3, <3>4 DEF ColBare
  <2> QED BY <2>1, <2>3, <2>5
<1>9. S \in J[0] /\ \A k \in 0 .. n : J[k] \subseteq X
  <2>1. ColBare(S, S, c, 0)
    <3>1. \A p \in At : ~(p[2] < 0)
      BY TheCells
    <3> QED BY <1>1, <3>1 DEF ColBare
  <2>2. 0 \in 0 .. n
    BY <1>2
  <2> QED BY <1>3, <2>1, <2>2
<1>10. g[1 .. n] \in J[n]
  <2> HIDE DEF J
  <2> QED BY <1>2, <1>7, <1>8, <1>9, FoldKeeps
<1>11. n = S.lastrow + 1 /\ n \in 0 .. n
  BY <1>1, <1>2 DEF n
<1> QED BY <1>3, <1>10, <1>11

LEMMA EmptyLastColBare ==
  ASSUME NEW S, Good(S)
  PROVE  ColBare(S, EmptyLastCol(S), MaxCol, S.lastrow + 1)
<1> DEFINE n == S.lastrow + 1
           q == [r \in 1 .. S.lastrow + 1 |-> r - 1]
           X == {T \in Sheets : Good(T)}
           J == [k \in 0 .. n |-> {T \in X : ColBare(S, T, MaxCol, k)}]
           body(T, i) == IF q[i] <= T.lastrow THEN deletecell(T, <<T.lastcol, q[i]>>) ELSE T
           h == [a \in X \X (1 .. n) |-> body(a[1], a[2])]
           F(it) == [s \in SUBSET (1 .. n) |->
                       IF s = {} THEN S ELSE body(it[s \ {Max(s)}], Max(s))]
           g == CHOOSE it : it = F(it)
<1>1. /\ S \in Sheets /\ S.lastrow \in Nat /\ S.lastcol \in Int /\ MaxCol \in 0 .. MaxCol
      /\ \A T \in X : Good(T) /\ T \in Sheets
  BY Limits DEF Good, Sheets
<1>2. n \in Nat /\ DOMAIN q = 1 .. n /\ \A i \in 1 .. n : q[i] = i - 1 /\ q[i] \in Nat
  BY <1>1
<1>3. S \in X /\ EmptyLastCol(S) = g[1 .. n]
  <2>1. EmptyLastCol(S) = (CHOOSE it : it = [s \in SUBSET DOMAIN q |->
                       IF s = {} THEN S ELSE body(it[s \ {Max(s)}], Max(s))])[DOMAIN q]
    BY DEF EmptyLastCol, FoldLeft, MapThenFoldSet
  <2> QED BY <1>1, <1>2, <2>1
<1> HIDE DEF n, q
<1>4. \A T \in X : \A i \in 1 .. n : body(T, i) \in X
  <2> SUFFICES ASSUME NEW T \in X, NEW i \in 1 .. n
               PROVE  Good(body(T, i))
    BY DEF Good
  <2>1. Good(T) /\ q[i] \in Nat
    BY <1>1, <1>2
  <2> DEFINE U == body(T, i)
  <2>2. U = IF q[i] <= T.lastrow THEN deletecell(T, <<T.lastcol, q[i]>>) ELSE T
    OBVIOUS
  <2> HIDE DEF X, U, q
  <2>3. Good(U) /\ (<<MaxCol, q[i]>> \in At => U.cell[<<MaxCol, q[i]>>] = Blank)
    BY <1>1, <2>1, <2>2, TurnCol
  <2> QED BY <2>3 DEF U
<1>5. \A T \in X : \A i \in 1 .. n : h[<<T, i>>] = body(T, i) /\ h[<<T, i>>] \in X
  <2> HIDE DEF X, body
  <2> QED BY <1>4
<1> HIDE DEF X, h, body
<1>6. g = F(g)
  <2>1. PICK e : Folded(e, n, X, S, h)
    BY <1>2, <1>3, <1>5, FoldExists
  <2>2. \A s \in SUBSET (1 .. n) : s # {} =>
          h[<<e[s \ {Max(s)}], Max(s)>>] = body(e[s \ {Max(s)}], Max(s))
    BY <1>5, <2>1 DEF Folded
  <2>3. e = F(e)
    BY <2>1, <2>2 DEF Folded
  <2> QED BY <2>3
<1> HIDE DEF g
<1>7. /\ g[{}] = S
      /\ \A s \in SUBSET (1 .. n) : s # {} /\ Max(s) \in 1 .. n /\ g[s \ {Max(s)}] \in X
                                    => g[s] = h[<<g[s \ {Max(s)}], Max(s)>>]
  BY <1>5, <1>6
<1>8. ASSUME NEW k \in 1 .. n, NEW T \in J[k - 1]
      PROVE  h[<<T, k>>] \in J[k]
  <2>1. k - 1 \in 0 .. n /\ k \in 0 .. n /\ q[k] = k - 1 /\ q[k] \in Nat
    BY <1>2
  <2>2. T \in X /\ Good(T) /\ ColBare(S, T, MaxCol, k - 1)
    BY <1>1, <1>8, <2>1
  <2> DEFINE U == body(T, k)
  <2>3. U = h[<<T, k>>] /\ U \in X
    BY <1>4, <1>5, <2>2
  <2>4. /\ Good(U) /\ U.lastcol <= T.lastcol /\ U.lastrow <= T.lastrow
        /\ \A p \in At : T.cell[p] = Blank => U.cell[p] = Blank
        /\ <<MaxCol, k - 1>> \in At => U.cell[<<MaxCol, k - 1>>] = Blank
    BY <1>1, <2>1, <2>2, TurnCol DEF body
  <2> HIDE DEF U
  <2>5. ColBare(S, U, MaxCol, k)
    <3>1. /\ T.lastcol \in Int /\ T.lastrow \in Int /\ U.lastcol \in Int /\ U.lastrow \in Int
          /\ S.lastcol \in Int /\ S.lastrow \in Int
      BY <1>1, <2>2, <2>4 DEF Good, Sheets
    <3>2. ASSUME NEW p \in At, p[1] = MaxCol, p[2] < k
          PROVE  U.cell[p] = Blank
      <4>1. p[2] \in Nat /\ p = <<MaxCol, p[2]>>
        BY <3>2, TheCells
      <4>2. CASE p[2] = k - 1
        BY <2>4, <4>1, <4>2
      <4>3. CASE p[2] < k - 1
        BY <2>2, <2>4, <3>2, <4>3 DEF ColBare
      <4> QED BY <3>2, <4>1, <4>2, <4>3
    <3>3. U.lastcol <= S.lastcol /\ U.lastrow <= S.lastrow
      BY <2>2, <2>4, <3>1 DEF ColBare
    <3>4. \A p \in At : S.cell[p] = Blank => U.cell[p] = Blank
      BY <2>2, <2>4 DEF ColBare
    <3> QED BY <2>4, <3>2, <3>3, <3>4 DEF ColBare
  <2> QED BY <2>1, <2>3, <2>5
<1>9. S \in J[0] /\ \A k \in 0 .. n : J[k] \subseteq X
  <2>1. ColBare(S, S, MaxCol, 0)
    <3>1. \A p \in At : ~(p[2] < 0)
      BY TheCells
    <3> QED BY <1>1, <3>1 DEF ColBare
  <2>2. 0 \in 0 .. n
    BY <1>2
  <2> QED BY <1>3, <2>1, <2>2
<1>10. g[1 .. n] \in J[n]
  <2> HIDE DEF J
  <2> QED BY <1>2, <1>7, <1>8, <1>9, FoldKeeps
<1>11. n = S.lastrow + 1 /\ n \in 0 .. n
  BY <1>1, <1>2 DEF n
<1> QED BY <1>3, <1>10, <1>11

(* A row is emptied: the loop deletes the cells of row c, or of the last
   row in use where that is the last of all. *)
LEMMA TurnRow ==
  ASSUME NEW T, Good(T), NEW c \in 0 .. MaxRow, NEW r \in Nat,
         NEW x, x = c \/ (x = T.lastrow /\ c = MaxRow),
         NEW U, U = IF r <= T.lastcol THEN deletecell(T, <<r, x>>) ELSE T
  PROVE  /\ Good(U) /\ U.lastrow <= T.lastrow /\ U.lastcol <= T.lastcol
         /\ \A p \in At : T.cell[p] = Blank => U.cell[p] = Blank
         /\ <<r, c>> \in At => U.cell[<<r, c>>] = Blank
<1>1. /\ T \in Sheets /\ Within(T) /\ T.lastrow \in 0 .. MaxRow /\ T.lastcol \in 0 .. MaxCol
      /\ T.lastrow \in Int /\ T.lastcol \in Int
  BY DEF Good, Sheets
<1>2. CASE ~(r <= T.lastcol)
  <2>1. ASSUME <<r, c>> \in At
        PROVE  T.cell[<<r, c>>] = Blank
    BY <1>1, <1>2, <2>1 DEF Within
  <2> QED BY <1>1, <1>2, <2>1
<1>3. CASE r <= T.lastcol
  <2>1. r \in 0 .. MaxCol /\ x \in 0 .. MaxRow
    BY <1>1, <1>3, Limits
  <2>2. <<r, x>> \in At
    BY <2>1, TheCells
  <2>3. /\ U \in Sheets /\ U.cell[<<r, x>>] = Blank
        /\ \A q \in At : q # <<r, x>> => U.cell[q] = T.cell[q]
        /\ U.lastrow <= T.lastrow /\ U.lastcol <= T.lastcol
        /\ Paid(U) /\ Within(U)
    BY <1>1, <1>3, <2>2, DeleteCell DEF Good
  <2>4. ASSUME <<r, c>> \in At
        PROVE  U.cell[<<r, c>>] = Blank
    <3>1. CASE x = c
      BY <2>3, <3>1
    <3>2. CASE x # c
      <4>1. ~(c <= T.lastrow)
        BY <1>1, <3>2, Limits
      <4>2. T.cell[<<r, c>>] = Blank
        BY <1>1, <2>4, <4>1 DEF Within
      <4>3. <<r, c>> # <<r, x>>
        BY <3>2
      <4> QED BY <2>3, <2>4, <4>2, <4>3
    <3> QED BY <3>1, <3>2
  <2>5. \A p \in At : T.cell[p] = Blank => U.cell[p] = Blank
    BY <2>3
  <2> QED BY <2>3, <2>4, <2>5 DEF Good
<1> QED BY <1>2, <1>3

(* T is S with the cells of row c emptied that are left of column k. *)
RowBare(S, T, c, k) ==
  /\ Good(T) /\ T.lastrow <= S.lastrow /\ T.lastcol <= S.lastcol
  /\ \A p \in At : S.cell[p] = Blank => T.cell[p] = Blank
  /\ \A p \in At : p[2] = c /\ p[1] < k => T.cell[p] = Blank

LEMMA BareRow ==
  ASSUME NEW S \in Sheets, NEW T, NEW c, RowBare(S, T, c, S.lastcol + 1)
  PROVE  \A p \in At : p[2] = c => T.cell[p] = Blank
<1> SUFFICES ASSUME NEW p \in At, p[2] = c
             PROVE  T.cell[p] = Blank
  OBVIOUS
<1>1. p[1] \in Int /\ S.lastcol \in Int /\ T.lastcol \in Int
  BY TheCells DEF RowBare, Good, Sheets
<1>2. CASE p[1] < S.lastcol + 1
  BY <1>2 DEF RowBare
<1>3. CASE ~(p[1] < S.lastcol + 1)
  <2>1. ~(p[1] <= T.lastcol)
    BY <1>1, <1>3 DEF RowBare
  <2> QED BY <2>1 DEF RowBare, Good, Within
<1> QED BY <1>2, <1>3

LEMMA EmptyRowBare ==
  ASSUME NEW S, Good(S), NEW c \in 0 .. MaxRow
  PROVE  RowBare(S, EmptyRow(S, c), c, S.lastcol + 1)
<1> DEFINE n == S.lastcol + 1
           q == [r \in 1 .. S.lastcol + 1 |-> r - 1]
           X == {T \in Sheets : Good(T)}
           J == [k \in 0 .. n |-> {T \in X : RowBare(S, T, c, k)}]
           body(T, i) == IF q[i] <= T.lastcol THEN deletecell(T, <<q[i], c>>) ELSE T
           h == [a \in X \X (1 .. n) |-> body(a[1], a[2])]
           F(it) == [s \in SUBSET (1 .. n) |->
                       IF s = {} THEN S ELSE body(it[s \ {Max(s)}], Max(s))]
           g == CHOOSE it : it = F(it)
<1>1. /\ S \in Sheets /\ S.lastcol \in Nat /\ S.lastrow \in Int /\ c \in 0 .. MaxRow
      /\ \A T \in X : Good(T) /\ T \in Sheets
  BY Limits DEF Good, Sheets
<1>2. n \in Nat /\ DOMAIN q = 1 .. n /\ \A i \in 1 .. n : q[i] = i - 1 /\ q[i] \in Nat
  BY <1>1
<1>3. S \in X /\ EmptyRow(S, c) = g[1 .. n]
  <2>1. EmptyRow(S, c) = (CHOOSE it : it = [s \in SUBSET DOMAIN q |->
                       IF s = {} THEN S ELSE body(it[s \ {Max(s)}], Max(s))])[DOMAIN q]
    BY DEF EmptyRow, FoldLeft, MapThenFoldSet
  <2> QED BY <1>1, <1>2, <2>1
<1> HIDE DEF n, q
<1>4. \A T \in X : \A i \in 1 .. n : body(T, i) \in X
  <2> SUFFICES ASSUME NEW T \in X, NEW i \in 1 .. n
               PROVE  Good(body(T, i))
    BY DEF Good
  <2>1. Good(T) /\ q[i] \in Nat
    BY <1>1, <1>2
  <2> HIDE DEF X
  <2> QED BY <1>1, <2>1, TurnRow
<1>5. \A T \in X : \A i \in 1 .. n : h[<<T, i>>] = body(T, i) /\ h[<<T, i>>] \in X
  <2> HIDE DEF X, body
  <2> QED BY <1>4
<1> HIDE DEF X, h, body
<1>6. g = F(g)
  <2>1. PICK e : Folded(e, n, X, S, h)
    BY <1>2, <1>3, <1>5, FoldExists
  <2>2. \A s \in SUBSET (1 .. n) : s # {} =>
          h[<<e[s \ {Max(s)}], Max(s)>>] = body(e[s \ {Max(s)}], Max(s))
    BY <1>5, <2>1 DEF Folded
  <2>3. e = F(e)
    BY <2>1, <2>2 DEF Folded
  <2> QED BY <2>3
<1> HIDE DEF g
<1>7. /\ g[{}] = S
      /\ \A s \in SUBSET (1 .. n) : s # {} /\ Max(s) \in 1 .. n /\ g[s \ {Max(s)}] \in X
                                    => g[s] = h[<<g[s \ {Max(s)}], Max(s)>>]
  BY <1>5, <1>6
<1>8. ASSUME NEW k \in 1 .. n, NEW T \in J[k - 1]
      PROVE  h[<<T, k>>] \in J[k]
  <2>1. k - 1 \in 0 .. n /\ k \in 0 .. n /\ q[k] = k - 1 /\ q[k] \in Nat
    BY <1>2
  <2>2. T \in X /\ Good(T) /\ RowBare(S, T, c, k - 1)
    BY <1>1, <1>8, <2>1
  <2> DEFINE U == body(T, k)
  <2>3. U = h[<<T, k>>] /\ U \in X
    BY <1>4, <1>5, <2>2
  <2>4. /\ Good(U) /\ U.lastrow <= T.lastrow /\ U.lastcol <= T.lastcol
        /\ \A p \in At : T.cell[p] = Blank => U.cell[p] = Blank
        /\ <<k - 1, c>> \in At => U.cell[<<k - 1, c>>] = Blank
    BY <1>1, <2>1, <2>2, TurnRow DEF body
  <2> HIDE DEF U
  <2>5. RowBare(S, U, c, k)
    <3>1. /\ T.lastrow \in Int /\ T.lastcol \in Int /\ U.lastrow \in Int /\ U.lastcol \in Int
          /\ S.lastrow \in Int /\ S.lastcol \in Int
      BY <1>1, <2>2, <2>4 DEF Good, Sheets
    <3>2. ASSUME NEW p \in At, p[2] = c, p[1] < k
          PROVE  U.cell[p] = Blank
      <4>1. p[1] \in Nat /\ p = <<p[1], c>>
        BY <3>2, TheCells
      <4>2. CASE p[1] = k - 1
        BY <2>4, <4>1, <4>2
      <4>3. CASE p[1] < k - 1
        BY <2>2, <2>4, <3>2, <4>3 DEF RowBare
      <4> QED BY <3>2, <4>1, <4>2, <4>3
    <3>3. U.lastrow <= S.lastrow /\ U.lastcol <= S.lastcol
      BY <2>2, <2>4, <3>1 DEF RowBare
    <3>4. \A p \in At : S.cell[p] = Blank => U.cell[p] = Blank
      BY <2>2, <2>4 DEF RowBare
    <3> QED BY <2>4, <3>2, <3>3, <3>4 DEF RowBare
  <2> QED BY <2>1, <2>3, <2>5
<1>9. S \in J[0] /\ \A k \in 0 .. n : J[k] \subseteq X
  <2>1. RowBare(S, S, c, 0)
    <3>1. \A p \in At : ~(p[1] < 0)
      BY TheCells
    <3> QED BY <1>1, <3>1 DEF RowBare
  <2>2. 0 \in 0 .. n
    BY <1>2
  <2> QED BY <1>3, <2>1, <2>2
<1>10. g[1 .. n] \in J[n]
  <2> HIDE DEF J
  <2> QED BY <1>2, <1>7, <1>8, <1>9, FoldKeeps
<1>11. n = S.lastcol + 1 /\ n \in 0 .. n
  BY <1>1, <1>2 DEF n
<1> QED BY <1>3, <1>10, <1>11

LEMMA EmptyLastRowBare ==
  ASSUME NEW S, Good(S)
  PROVE  RowBare(S, EmptyLastRow(S), MaxRow, S.lastcol + 1)
<1> DEFINE n == S.lastcol + 1
           q == [r \in 1 .. S.lastcol + 1 |-> r - 1]
           X == {T \in Sheets : Good(T)}
           J == [k \in 0 .. n |-> {T \in X : RowBare(S, T, MaxRow, k)}]
           body(T, i) == IF q[i] <= T.lastcol THEN deletecell(T, <<q[i], T.lastrow>>) ELSE T
           h == [a \in X \X (1 .. n) |-> body(a[1], a[2])]
           F(it) == [s \in SUBSET (1 .. n) |->
                       IF s = {} THEN S ELSE body(it[s \ {Max(s)}], Max(s))]
           g == CHOOSE it : it = F(it)
<1>1. /\ S \in Sheets /\ S.lastcol \in Nat /\ S.lastrow \in Int /\ MaxRow \in 0 .. MaxRow
      /\ \A T \in X : Good(T) /\ T \in Sheets
  BY Limits DEF Good, Sheets
<1>2. n \in Nat /\ DOMAIN q = 1 .. n /\ \A i \in 1 .. n : q[i] = i - 1 /\ q[i] \in Nat
  BY <1>1
<1>3. S \in X /\ EmptyLastRow(S) = g[1 .. n]
  <2>1. EmptyLastRow(S) = (CHOOSE it : it = [s \in SUBSET DOMAIN q |->
                       IF s = {} THEN S ELSE body(it[s \ {Max(s)}], Max(s))])[DOMAIN q]
    BY DEF EmptyLastRow, FoldLeft, MapThenFoldSet
  <2> QED BY <1>1, <1>2, <2>1
<1> HIDE DEF n, q
<1>4. \A T \in X : \A i \in 1 .. n : body(T, i) \in X
  <2> SUFFICES ASSUME NEW T \in X, NEW i \in 1 .. n
               PROVE  Good(body(T, i))
    BY DEF Good
  <2>1. Good(T) /\ q[i] \in Nat
    BY <1>1, <1>2
  <2> DEFINE U == body(T, i)
  <2>2. U = IF q[i] <= T.lastcol THEN deletecell(T, <<q[i], T.lastrow>>) ELSE T
    OBVIOUS
  <2> HIDE DEF X, U, q
  <2>3. Good(U) /\ (<<q[i], MaxRow>> \in At => U.cell[<<q[i], MaxRow>>] = Blank)
    BY <1>1, <2>1, <2>2, TurnRow
  <2> QED BY <2>3 DEF U
<1>5. \A T \in X : \A i \in 1 .. n : h[<<T, i>>] = body(T, i) /\ h[<<T, i>>] \in X
  <2> HIDE DEF X, body
  <2> QED BY <1>4
<1> HIDE DEF X, h, body
<1>6. g = F(g)
  <2>1. PICK e : Folded(e, n, X, S, h)
    BY <1>2, <1>3, <1>5, FoldExists
  <2>2. \A s \in SUBSET (1 .. n) : s # {} =>
          h[<<e[s \ {Max(s)}], Max(s)>>] = body(e[s \ {Max(s)}], Max(s))
    BY <1>5, <2>1 DEF Folded
  <2>3. e = F(e)
    BY <2>1, <2>2 DEF Folded
  <2> QED BY <2>3
<1> HIDE DEF g
<1>7. /\ g[{}] = S
      /\ \A s \in SUBSET (1 .. n) : s # {} /\ Max(s) \in 1 .. n /\ g[s \ {Max(s)}] \in X
                                    => g[s] = h[<<g[s \ {Max(s)}], Max(s)>>]
  BY <1>5, <1>6
<1>8. ASSUME NEW k \in 1 .. n, NEW T \in J[k - 1]
      PROVE  h[<<T, k>>] \in J[k]
  <2>1. k - 1 \in 0 .. n /\ k \in 0 .. n /\ q[k] = k - 1 /\ q[k] \in Nat
    BY <1>2
  <2>2. T \in X /\ Good(T) /\ RowBare(S, T, MaxRow, k - 1)
    BY <1>1, <1>8, <2>1
  <2> DEFINE U == body(T, k)
  <2>3. U = h[<<T, k>>] /\ U \in X
    BY <1>4, <1>5, <2>2
  <2>4. /\ Good(U) /\ U.lastrow <= T.lastrow /\ U.lastcol <= T.lastcol
        /\ \A p \in At : T.cell[p] = Blank => U.cell[p] = Blank
        /\ <<k - 1, MaxRow>> \in At => U.cell[<<k - 1, MaxRow>>] = Blank
    BY <1>1, <2>1, <2>2, TurnRow DEF body
  <2> HIDE DEF U
  <2>5. RowBare(S, U, MaxRow, k)
    <3>1. /\ T.lastrow \in Int /\ T.lastcol \in Int /\ U.lastrow \in Int /\ U.lastcol \in Int
          /\ S.lastrow \in Int /\ S.lastcol \in Int
      BY <1>1, <2>2, <2>4 DEF Good, Sheets
    <3>2. ASSUME NEW p \in At, p[2] = MaxRow, p[1] < k
          PROVE  U.cell[p] = Blank
      <4>1. p[1] \in Nat /\ p = <<p[1], MaxRow>>
        BY <3>2, TheCells
      <4>2. CASE p[1] = k - 1
        BY <2>4, <4>1, <4>2
      <4>3. CASE p[1] < k - 1
        BY <2>2, <2>4, <3>2, <4>3 DEF RowBare
      <4> QED BY <3>2, <4>1, <4>2, <4>3
    <3>3. U.lastrow <= S.lastrow /\ U.lastcol <= S.lastcol
      BY <2>2, <2>4, <3>1 DEF RowBare
    <3>4. \A p \in At : S.cell[p] = Blank => U.cell[p] = Blank
      BY <2>2, <2>4 DEF RowBare
    <3> QED BY <2>4, <3>2, <3>3, <3>4 DEF RowBare
  <2> QED BY <2>1, <2>3, <2>5
<1>9. S \in J[0] /\ \A k \in 0 .. n : J[k] \subseteq X
  <2>1. RowBare(S, S, MaxRow, 0)
    <3>1. \A p \in At : ~(p[1] < 0)
      BY TheCells
    <3> QED BY <1>1, <3>1 DEF RowBare
  <2>2. 0 \in 0 .. n
    BY <1>2
  <2> QED BY <1>3, <2>1, <2>2
<1>10. g[1 .. n] \in J[n]
  <2> HIDE DEF J
  <2> QED BY <1>2, <1>7, <1>8, <1>9, FoldKeeps
<1>11. n = S.lastcol + 1 /\ n \in 0 .. n
  BY <1>1, <1>2 DEF n
<1> QED BY <1>3, <1>10, <1>11

-----------------------------------------------------------------------------
(* Columns and rows are inserted and deleted. *)
IsPlace(action, place) ==
  \/ action \in {"COLADD", "COLDEL"} /\ place \in 0 .. MaxCol
  \/ action \in {"ROWADD", "ROWDEL"} /\ place \in 0 .. MaxRow

(* Before the cells move, those are blank that would be lost. *)
Ready(S, action, place) ==
  /\ action = "COLADD" => \A p \in At : p[1] = MaxCol => S.cell[p] = Blank
  /\ action = "ROWADD" => \A p \in At : p[2] = MaxRow => S.cell[p] = Blank
  /\ action = "COLDEL" => \A p \in At : p[1] = place => S.cell[p] = Blank
  /\ action = "ROWDEL" => \A p \in At : p[2] \in {place, MaxRow} => S.cell[p] = Blank

LEMMA BlankIs ==
  ASSUME NEW S \in Sheets, NEW p \in At
  PROVE  /\ Is(S, p, "blank") <=> S.cell[p] = Blank
         /\ p \in Used(S) <=> S.cell[p] # Blank
<1>1. S.cell[p] \in Contents
  BY DEF Sheets
<1>2. S.cell[p].kind = "blank" <=> S.cell[p] = Blank
  BY <1>1, SizeType
<1> QED BY <1>2 DEF Is, Used

LEMMA EmptiedReady ==
  ASSUME NEW S, Good(S), NEW action, NEW place, IsPlace(action, place),
         CanChange(S, action, place)
  PROVE  Good(Emptied(S, action, place)) /\ Ready(Emptied(S, action, place), action, place)
<1> DEFINE E == Emptied(S, action, place)
<1>1. /\ S \in Sheets /\ Within(S) /\ S.lastcol \in 0 .. MaxCol /\ S.lastrow \in 0 .. MaxRow
      /\ MaxCol \in 0 .. MaxCol /\ MaxRow \in 0 .. MaxRow /\ MaxCol \in Int /\ MaxRow \in Int
  BY Limits DEF Good, Sheets
<1>2. CASE action = "COLADD"
  <2>1. E = IF S.lastcol = MaxCol THEN EmptyLastCol(S) ELSE S
    BY <1>2 DEF Emptied
  <2> HIDE DEF E
  <2>2. CASE S.lastcol = MaxCol
    <3>1. ColBare(S, E, MaxCol, S.lastrow + 1)
      BY <2>1, <2>2, EmptyLastColBare
    <3>2. \A p \in At : p[1] = MaxCol => E.cell[p] = Blank
      BY <1>1, <3>1, BareCol
    <3> QED BY <1>2, <3>1, <3>2 DEF Ready, E, ColBare
  <2>3. CASE S.lastcol # MaxCol
    <3>1. \A p \in At : p[1] = MaxCol => S.cell[p] = Blank
      BY <1>1, <2>3 DEF Within
    <3> QED BY <1>2, <2>1, <2>3, <3>1 DEF Ready, E
  <2> QED BY <2>2, <2>3
<1>3. CASE action = "ROWADD"
  <2>1. E = IF S.lastrow = MaxRow THEN EmptyLastRow(S) ELSE S
    BY <1>3 DEF Emptied
  <2> HIDE DEF E
  <2>2. CASE S.lastrow = MaxRow
    <3>1. RowBare(S, E, MaxRow, S.lastcol + 1)
      BY <2>1, <2>2, EmptyLastRowBare
    <3>2. \A p \in At : p[2] = MaxRow => E.cell[p] = Blank
      BY <1>1, <3>1, BareRow
    <3> QED BY <1>3, <3>1, <3>2 DEF Ready, E, RowBare
  <2>3. CASE S.lastrow # MaxRow
    <3>1. \A p \in At : p[2] = MaxRow => S.cell[p] = Blank
      BY <1>1, <2>3 DEF Within
    <3> QED BY <1>3, <2>1, <2>3, <3>1 DEF Ready, E
  <2> QED BY <2>2, <2>3
<1>4. CASE action = "COLDEL"
  <2>1. E = EmptyCol(S, place) /\ place \in 0 .. MaxCol
    BY <1>4 DEF Emptied, IsPlace
  <2> HIDE DEF E
  <2>2. ColBare(S, E, place, S.lastrow + 1)
    BY <2>1, EmptyColBare
  <2>3. \A p \in At : p[1] = place => E.cell[p] = Blank
    BY <1>1, <2>2, BareCol
  <2> QED BY <1>4, <2>2, <2>3 DEF Ready, E, ColBare
<1>5. CASE action = "ROWDEL"
  <2>1. E = EmptyRow(S, place) /\ place \in 0 .. MaxRow
    BY <1>5 DEF Emptied, IsPlace
  <2> HIDE DEF E
  <2>2. RowBare(S, E, place, S.lastcol + 1)
    BY <2>1, EmptyRowBare
  <2>3. \A p \in At : p[2] = place => E.cell[p] = Blank
    BY <1>1, <2>2, BareRow
  <2>4. place = MaxRow \/ \A p \in At : p[2] = MaxRow => S.cell[p] = Blank
    BY <1>1, <1>5, BlankIs DEF CanChange
  <2>5. \A p \in At : p[2] \in {place, MaxRow} => E.cell[p] = Blank
    BY <2>2, <2>3, <2>4 DEF RowBare
  <2> QED BY <1>5, <2>2, <2>5 DEF Ready, E, RowBare
<1> QED BY <1>2, <1>3, <1>4, <1>5 DEF IsPlace

(* The next cell to the right, to the left, below and above. *)
East(p) == <<p[1] + 1, p[2]>>
West(p) == <<p[1] - 1, p[2]>>
South(p) == <<p[1], p[2] + 1>>
North(p) == <<p[1], p[2] - 1>>

LEMMA Neighbours ==
  ASSUME NEW p \in At
  PROVE  /\ p[1] \in 0 .. MaxCol /\ p[2] \in 0 .. MaxRow /\ MaxCol \in Nat /\ MaxRow \in Nat
         /\ East(p)[1] = p[1] + 1 /\ East(p)[2] = p[2] /\ West(East(p)) = p
         /\ West(p)[1] = p[1] - 1 /\ West(p)[2] = p[2] /\ East(West(p)) = p
         /\ South(p)[1] = p[1] /\ South(p)[2] = p[2] + 1 /\ North(South(p)) = p
         /\ North(p)[1] = p[1] /\ North(p)[2] = p[2] - 1 /\ South(North(p)) = p
         /\ p[1] < MaxCol => East(p) \in At
         /\ p[1] > 0 => West(p) \in At
         /\ p[2] < MaxRow => South(p) \in At
         /\ p[2] > 0 => North(p) \in At
<1>1. /\ p[1] \in 0 .. MaxCol /\ p[2] \in 0 .. MaxRow /\ p = <<p[1], p[2]>>
      /\ \A c \in 0 .. MaxCol, r \in 0 .. MaxRow : <<c, r>> \in At
      /\ MaxCol \in Nat /\ MaxRow \in Nat
  BY TheCells, Limits
<1>2. /\ East(p)[1] = p[1] + 1 /\ East(p)[2] = p[2]
      /\ West(p)[1] = p[1] - 1 /\ West(p)[2] = p[2]
      /\ South(p)[1] = p[1] /\ South(p)[2] = p[2] + 1
      /\ North(p)[1] = p[1] /\ North(p)[2] = p[2] - 1
  BY DEF East, West, South, North
<1>3. West(East(p)) = p
  <2> DEFINE q == East(p)
  <2>1. q[1] - 1 = p[1] /\ q[2] = p[2]
    BY <1>1, <1>2
  <2> HIDE DEF q
  <2>2. West(q) = <<p[1], p[2]>>
    BY <2>1 DEF West
  <2> QED BY <1>1, <2>2 DEF q
<1>4. East(West(p)) = p
  <2> DEFINE q == West(p)
  <2>1. q[1] + 1 = p[1] /\ q[2] = p[2]
    BY <1>1, <1>2
  <2> HIDE DEF q
  <2>2. East(q) = <<p[1], p[2]>>
    BY <2>1 DEF East
  <2> QED BY <1>1, <2>2 DEF q
<1>5. North(South(p)) = p
  <2> DEFINE q == South(p)
  <2>1. q[1] = p[1] /\ q[2] - 1 = p[2]
    BY <1>1, <1>2
  <2> HIDE DEF q
  <2>2. North(q) = <<p[1], p[2]>>
    BY <2>1 DEF North
  <2> QED BY <1>1, <2>2 DEF q
<1>6. South(North(p)) = p
  <2> DEFINE q == North(p)
  <2>1. q[1] = p[1] /\ q[2] + 1 = p[2]
    BY <1>1, <1>2
  <2> HIDE DEF q
  <2>2. South(q) = <<p[1], p[2]>>
    BY <2>1 DEF South
  <2> QED BY <1>1, <2>2 DEF q
<1>7. /\ p[1] < MaxCol => p[1] + 1 \in 0 .. MaxCol
      /\ p[1] > 0 => p[1] - 1 \in 0 .. MaxCol
      /\ p[2] < MaxRow => p[2] + 1 \in 0 .. MaxRow
      /\ p[2] > 0 => p[2] - 1 \in 0 .. MaxRow
  BY <1>1
<1>8. /\ p[1] < MaxCol => East(p) \in At
      /\ p[1] > 0 => West(p) \in At
      /\ p[2] < MaxRow => South(p) \in At
      /\ p[2] > 0 => North(p) \in At
  BY <1>1, <1>7 DEF East, West, South, North
<1> QED BY <1>1, <1>2, <1>3, <1>4, <1>5, <1>8, <1>6

LEMMA Shifts ==
  ASSUME NEW p, NEW place
  PROVE  /\ Target("COLADD", place, p) = IF p[1] >= place THEN East(p) ELSE p
         /\ Target("ROWADD", place, p) = IF p[2] >= place THEN South(p) ELSE p
         /\ Target("COLDEL", place, p) = IF p[1] > place THEN West(p) ELSE p
         /\ Target("ROWDEL", place, p) = IF p[2] > place THEN North(p) ELSE p
         /\ Source("COLADD", place, p) = IF p[1] > place THEN West(p) ELSE p
         /\ Source("ROWADD", place, p) = IF p[2] > place THEN North(p) ELSE p
         /\ Source("COLDEL", place, p) = IF p[1] >= place /\ p[1] < MaxCol THEN East(p) ELSE p
         /\ Source("ROWDEL", place, p) = IF p[2] >= place /\ p[2] < MaxRow THEN South(p) ELSE p
<1>1. /\ Target("COLADD", place, p) = IF p[1] >= place THEN East(p) ELSE p
      /\ Target("ROWADD", place, p) = IF p[2] >= place THEN South(p) ELSE p
      /\ Target("COLDEL", place, p) = IF p[1] > place THEN West(p) ELSE p
      /\ Target("ROWDEL", place, p) = IF p[2] > place THEN North(p) ELSE p
  BY DEF Target, East, West, North, South
<1>2. /\ Source("COLADD", place, p) = IF p[1] > place THEN West(p) ELSE p
      /\ Source("ROWADD", place, p) = IF p[2] > place THEN North(p) ELSE p
      /\ Source("COLDEL", place, p) = IF p[1] >= place /\ p[1] < MaxCol THEN East(p) ELSE p
      /\ Source("ROWDEL", place, p) = IF p[2] >= place /\ p[2] < MaxRow THEN South(p) ELSE p
  BY DEF Source, East, West, North, South
<1> QED BY <1>1, <1>2

LEMMA Clears ==
  ASSUME NEW S \in Sheets, NEW place, NEW p \in At
  PROVE  /\ p \in Cleared(S, "COLADD", place) <=> p[1] = place
         /\ p \in Cleared(S, "ROWADD", place) <=> p[2] = place
         /\ p \in Cleared(S, "COLDEL", place) <=> p[1] = MaxCol
         /\ p \in Cleared(S, "ROWDEL", place) => place = MaxRow /\ p[2] = MaxRow
<1>1. /\ Cleared(S, "COLADD", place) = {place} \X (0 .. MaxRow)
      /\ Cleared(S, "ROWADD", place) = (0 .. MaxCol) \X {place}
      /\ Cleared(S, "COLDEL", place) = {MaxCol} \X (0 .. MaxRow)
      /\ Cleared(S, "ROWDEL", place) = IF place = MaxRow THEN (0 .. S.lastcol) \X {MaxRow} ELSE {}
  BY DEF Cleared
<1>2. p[1] \in 0 .. MaxCol /\ p[2] \in 0 .. MaxRow /\ p = <<p[1], p[2]>>
  BY TheCells
<1> QED BY <1>1, <1>2

(* Cells in use go to different places, and cells come from where they went. *)
Movable(S, action, place) ==
  LET clear == Cleared(S, action, place)
  IN  /\ \A p \in At \ clear : Source(action, place, p) \in At
      /\ \A p \in At : S.cell[p] # Blank =>
           /\ Target(action, place, p) \in At \ clear
           /\ Source(action, place, Target(action, place, p)) = p
      /\ \A p \in At \ clear : S.cell[Source(action, place, p)] # Blank =>
           Target(action, place, Source(action, place, p)) = p

LEMMA ReadyMovable ==
  ASSUME NEW S \in Sheets, NEW action, NEW place, IsPlace(action, place),
         Ready(S, action, place)
  PROVE  Movable(S, action, place)
<1> DEFINE clear == Cleared(S, action, place)
           src(p) == Source(action, place, p)
           tgt(p) == Target(action, place, p)
<1>1. CASE action = "COLADD"
  <2>1. /\ place \in 0 .. MaxCol
        /\ \A p \in At : (p \in clear <=> p[1] = place) /\ (p[1] = MaxCol => S.cell[p] = Blank)
        /\ \A p : /\ src(p) = IF p[1] > place THEN West(p) ELSE p
                  /\ tgt(p) = IF p[1] >= place THEN East(p) ELSE p
    BY <1>1, Clears, Shifts DEF IsPlace, Ready
  <2> HIDE DEF clear, src, tgt
  <2>2. \A p \in At : p \notin clear => src(p) \in At
    BY <2>1, Neighbours
  <2>3. \A p \in At : S.cell[p] # Blank => tgt(p) \in At /\ tgt(p) \notin clear /\ src(tgt(p)) = p
    BY <2>1, Neighbours
  <2>4. \A p \in At : p \notin clear => tgt(src(p)) = p
    BY <2>1, Neighbours
  <2> QED BY <2>2, <2>3, <2>4 DEF Movable, clear, src, tgt
<1>2. CASE action = "ROWADD"
  <2>1. /\ place \in 0 .. MaxRow
        /\ \A p \in At : (p \in clear <=> p[2] = place) /\ (p[2] = MaxRow => S.cell[p] = Blank)
        /\ \A p : /\ src(p) = IF p[2] > place THEN North(p) ELSE p
                  /\ tgt(p) = IF p[2] >= place THEN South(p) ELSE p
    BY <1>2, Clears, Shifts DEF IsPlace, Ready
  <2> HIDE DEF clear, src, tgt
  <2>2. \A p \in At : p \notin clear => src(p) \in At
    BY <2>1, Neighbours
  <2>3. \A p \in At : S.cell[p] # Blank => tgt(p) \in At /\ tgt(p) \notin clear /\ src(tgt(p)) = p
    BY <2>1, Neighbours
  <2>4. \A p \in At : p \notin clear => tgt(src(p)) = p
    BY <2>1, Neighbours
  <2> QED BY <2>2, <2>3, <2>4 DEF Movable, clear, src, tgt
<1>3. CASE action = "COLDEL"
  <2>1. /\ place \in 0 .. MaxCol
        /\ \A p \in At : (p \in clear <=> p[1] = MaxCol) /\ (p[1] = place => S.cell[p] = Blank)
        /\ \A p : /\ src(p) = IF p[1] >= place /\ p[1] < MaxCol THEN East(p) ELSE p
                  /\ tgt(p) = IF p[1] > place THEN West(p) ELSE p
    BY <1>3, Clears, Shifts DEF IsPlace, Ready
  <2> HIDE DEF clear, src, tgt
  <2>2. \A p \in At : p \notin clear => src(p) \in At
    BY <2>1, Neighbours
  <2>3. \A p \in At : S.cell[p] # Blank => tgt(p) \in At /\ tgt(p) \notin clear /\ src(tgt(p)) = p
    BY <2>1, Neighbours
  <2>4. \A p \in At : p \notin clear => tgt(src(p)) = p
    BY <2>1, Neighbours
  <2> QED BY <2>2, <2>3, <2>4 DEF Movable, clear, src, tgt
<1>4. CASE action = "ROWDEL"
  <2>1. /\ place \in 0 .. MaxRow
        /\ \A p \in At : /\ p \in clear => place = MaxRow /\ p[2] = MaxRow
                         /\ p[2] \in {place, MaxRow} => S.cell[p] = Blank
        /\ \A p : /\ src(p) = IF p[2] >= place /\ p[2] < MaxRow THEN South(p) ELSE p
                  /\ tgt(p) = IF p[2] > place THEN North(p) ELSE p
    BY <1>4, Clears, Shifts DEF IsPlace, Ready
  <2> HIDE DEF clear, src, tgt
  <2>2. \A p \in At : p \notin clear => src(p) \in At
    BY <2>1, Neighbours
  <2>3. \A p \in At : S.cell[p] # Blank => tgt(p) \in At /\ tgt(p) \notin clear /\ src(tgt(p)) = p
    BY <2>1, Neighbours
  <2>4. ASSUME NEW p \in At, p \notin clear, S.cell[src(p)] # Blank
        PROVE  tgt(src(p)) = p
    <3>1. /\ p[2] \in 0 .. MaxRow /\ MaxRow \in Nat /\ South(p)[2] = p[2] + 1
          /\ North(South(p)) = p
      BY Neighbours
    <3>2. CASE p[2] >= place /\ p[2] < MaxRow
      BY <2>1, <3>1, <3>2
    <3>3. CASE p[2] = MaxRow
      <4>1. src(p) = p
        BY <2>1, <3>1, <3>3
      <4> QED BY <2>1, <2>4, <3>3, <4>1
    <3>4. CASE p[2] < place
      BY <2>1, <3>1, <3>4
    <3> QED BY <2>1, <3>1, <3>2, <3>3, <3>4
  <2> QED BY <2>2, <2>3, <2>4 DEF Movable, clear, src, tgt
<1> QED BY <1>1, <1>2, <1>3, <1>4 DEF IsPlace

LEMMA MovedCells ==
  ASSUME NEW S \in Sheets, NEW action, NEW place, IsPlace(action, place),
         Ready(S, action, place),
         NEW M, M = Moved(S, action, place)
  PROVE  /\ M \in Sheets
         /\ M.lastcol = S.lastcol /\ M.lastrow = S.lastrow
         /\ \A p \in At : M.cell[p] # Blank => /\ p \notin Cleared(S, action, place)
                                               /\ Source(action, place, p) \in At
                                               /\ S.cell[Source(action, place, p)] # Blank
         /\ Paid(S) => Paid(M)
<1> DEFINE clear == Cleared(S, action, place)
           src(p) == Source(action, place, p)
           tgt(p) == Target(action, place, p)
           cell == [p \in At |-> IF p \in clear THEN Blank ELSE S.cell[src(p)]]
           over == {p \in At \ clear : src(p) \in S.over}
           width == [c \in 0 .. MaxCol |-> IF <<c, 0>> \in clear /\ action \in {"COLADD", "COLDEL"}
                                           THEN DefaultWidth ELSE S.width[src(<<c, 0>>)[1]]]
<1>1. M = [S EXCEPT !.cell = cell, !.over = over, !.width = width]
  BY DEF Moved
<1>2. /\ \A p \in At : p \notin clear => src(p) \in At
      /\ \A p \in At : S.cell[p] # Blank => tgt(p) \in At /\ tgt(p) \notin clear /\ src(tgt(p)) = p
      /\ \A p \in At : p \notin clear /\ S.cell[src(p)] # Blank => tgt(src(p)) = p
  BY ReadyMovable DEF Movable
<1>3. width \in [0 .. MaxCol -> Nat]
  <2> SUFFICES ASSUME NEW c \in 0 .. MaxCol
               PROVE  \/ <<c, 0>> \in clear /\ action \in {"COLADD", "COLDEL"}
                      \/ S.width[src(<<c, 0>>)[1]] \in Nat
    BY Limits
  <2>1. <<c, 0>> \in At /\ <<c, 0>>[1] = c
    BY TheCells, Limits
  <2>2. CASE action \in {"COLADD", "COLDEL"}
    <3> HIDE DEF clear, src
    <3>1. CASE <<c, 0>> \notin clear
      <4>1. src(<<c, 0>>) \in At
        BY <1>2, <2>1, <3>1
      <4>2. src(<<c, 0>>)[1] \in 0 .. MaxCol
        BY <4>1, TheCells
      <4> QED BY <4>2 DEF Sheets
    <3> QED BY <2>2, <3>1
  <2>3. CASE action \in {"ROWADD", "ROWDEL"}
    <3>1. \/ src(<<c, 0>>) = <<c, 0>> \/ src(<<c, 0>>) = North(<<c, 0>>)
          \/ src(<<c, 0>>) = South(<<c, 0>>)
      BY <2>3, Shifts
    <3>2. North(<<c, 0>>)[1] = c /\ South(<<c, 0>>)[1] = c
      BY <2>1, Neighbours
    <3> HIDE DEF src
    <3>3. src(<<c, 0>>)[1] = c
      BY <2>1, <3>1, <3>2
    <3> QED BY <3>3 DEF Sheets
  <2> QED BY <2>2, <2>3 DEF IsPlace
<1> HIDE DEF clear, src, tgt
<1>4. cell \in [At -> Contents] /\ \A p \in At : cell[p] = IF p \in clear THEN Blank ELSE S.cell[src(p)]
  BY <1>2, CellKinds DEF Sheets
<1>5. over \in SUBSET At
  OBVIOUS
<1> HIDE DEF cell, over, width
<1>6. /\ M \in Sheets /\ M.cell = cell /\ M.memleft = S.memleft
      /\ M.lastcol = S.lastcol /\ M.lastrow = S.lastrow
  BY <1>1, <1>3, <1>4, <1>5 DEF Sheets
<1>7. ASSUME NEW p \in At, M.cell[p] # Blank
      PROVE  p \notin clear /\ src(p) \in At /\ S.cell[src(p)] # Blank /\ M.cell[p] = S.cell[src(p)]
  BY <1>2, <1>4, <1>6, <1>7
<1>8. ASSUME NEW p \in At, S.cell[p] # Blank
      PROVE  tgt(p) \in At /\ src(tgt(p)) = p /\ M.cell[tgt(p)] = S.cell[p]
  BY <1>2, <1>4, <1>6, <1>8
<1>9. Total(Taken(M), At) = Total(Taken(S), At)
  <2> DEFINE w == Taken(S)
             v == Taken(M)
             f == [p \in At |-> tgt(p)]
  <2>1. /\ Weighs(w, At) /\ Weighs(v, At)
        /\ \A p \in At : w[p] = Size(S.cell[p]) /\ v[p] = Size(M.cell[p])
        /\ \A p \in At : w[p] # 0 <=> S.cell[p] # Blank
        /\ \A p \in At : v[p] # 0 <=> M.cell[p] # Blank
    BY <1>6, TakenType, SizeType
  <2> HIDE DEF w, v
  <2>2. \A p \in At : w[p] # 0 => f[p] \in At /\ v[f[p]] = w[p]
    BY <1>8, <2>1
  <2>3. \A p, q \in At : w[p] # 0 /\ w[q] # 0 /\ f[p] = f[q] => p = q
    BY <1>8, <2>1
  <2>4. \A q \in At : v[q] # 0 => \E p \in At : w[p] # 0 /\ f[p] = q
    <3> SUFFICES ASSUME NEW q \in At, v[q] # 0
                 PROVE  \E p \in At : w[p] # 0 /\ f[p] = q
      OBVIOUS
    <3>1. src(q) \in At /\ w[src(q)] # 0 /\ tgt(src(q)) = q
      BY <1>2, <1>7, <2>1
    <3> QED BY <3>1
  <2> HIDE DEF f
  <2>5. Total(v, At) = Total(w, At)
    BY <2>1, <2>2, <2>3, <2>4, TotalMoved
  <2> QED BY <2>5 DEF w, v
<1> QED BY <1>6, <1>7, <1>9 DEF Paid, clear, src

Sized(S, c, r) == [S EXCEPT !.lastcol = c, !.lastrow = r]

LEMMA SizedTo ==
  ASSUME NEW S \in Sheets, Paid(S), NEW c \in 0 .. MaxCol, NEW r \in 0 .. MaxRow,
         \A p \in At : S.cell[p] # Blank => p[1] <= c /\ p[2] <= r,
         NEW T, T = Sized(S, c, r)
  PROVE  Good(T) /\ T.lastcol = c /\ T.lastrow = r
<1>1. /\ T \in Sheets /\ T.cell = S.cell /\ T.memleft = S.memleft
      /\ T.lastcol = c /\ T.lastrow = r
  BY DEF Sheets, Sized
<1>2. Taken(T) = Taken(S)
  BY <1>1 DEF Taken
<1> QED BY <1>1, <1>2 DEF Good, Paid, Within

LEMMA ResizedGood ==
  ASSUME NEW S, Good(S), NEW action, NEW place, IsPlace(action, place),
         Ready(S, action, place)
  PROVE  Good(Resized(Moved(S, action, place), action, place))
<1> DEFINE M == Moved(S, action, place)
           R == Resized(M, action, place)
           src(p) == Source(action, place, p)
<1> SUFFICES Good(R)
  OBVIOUS
<1>1. /\ S \in Sheets /\ Within(S) /\ Paid(S)
      /\ S.lastcol \in 0 .. MaxCol /\ S.lastrow \in 0 .. MaxRow
      /\ MaxCol \in Nat /\ MaxRow \in Nat
  BY Limits DEF Good, Sheets
<1>2. /\ M \in Sheets /\ M.lastcol = S.lastcol /\ M.lastrow = S.lastrow /\ Paid(M)
      /\ \A p \in At : M.cell[p] # Blank => /\ p \notin Cleared(S, action, place)
                                            /\ src(p) \in At /\ S.cell[src(p)] # Blank
  BY <1>1, MovedCells
<1>3. \A p \in At : M.cell[p] # Blank => /\ p \notin Cleared(S, action, place)
                                         /\ src(p)[1] <= S.lastcol /\ src(p)[2] <= S.lastrow
  BY <1>1, <1>2 DEF Within
<1> HIDE DEF M
<1>4. CASE action = "COLADD"
  <2> DEFINE V == [M EXCEPT !.lastcol = MaxCol]
  <2>1. \A p \in At : M.cell[p] # Blank => p[1] <= MaxCol /\ p[2] <= S.lastrow
    <3>1. \A p \in At : src(p) = IF p[1] > place THEN West(p) ELSE p
      BY <1>4, Shifts
    <3> HIDE DEF src
    <3> QED BY <1>3, <3>1, Neighbours
  <2>2. V = Sized(M, MaxCol, S.lastrow)
    BY <1>2 DEF Sheets, Sized
  <2>3. MaxCol \in 0 .. MaxCol
    BY <1>1
  <2> HIDE DEF V
  <2>4. Good(V) /\ V.lastcol = MaxCol /\ V.lastrow = S.lastrow
    BY <1>1, <1>2, <2>1, <2>2, <2>3, SizedTo
  <2>5. R = setlastcol(V)
    BY <1>4 DEF Resized, V
  <2> QED BY <2>4, <2>5, SetLastCol DEF Good
<1>5. CASE action = "ROWADD"
  <2> DEFINE V == [M EXCEPT !.lastrow = MaxRow]
  <2>1. \A p \in At : M.cell[p] # Blank => p[1] <= S.lastcol /\ p[2] <= MaxRow
    <3>1. \A p \in At : src(p) = IF p[2] > place THEN North(p) ELSE p
      BY <1>5, Shifts
    <3> HIDE DEF src
    <3> QED BY <1>3, <3>1, Neighbours
  <2>2. V = Sized(M, S.lastcol, MaxRow)
    BY <1>2 DEF Sheets, Sized
  <2>3. MaxRow \in 0 .. MaxRow
    BY <1>1
  <2> HIDE DEF V
  <2>4. Good(V) /\ V.lastcol = S.lastcol /\ V.lastrow = MaxRow
    BY <1>1, <1>2, <2>1, <2>2, <2>3, SizedTo
  <2>5. R = setlastrow(V)
    BY <1>5 DEF Resized, V
  <2> QED BY <2>4, <2>5, SetLastRow DEF Good
<1>6. CASE action = "COLDEL"
  <2> DEFINE m == Max({0, S.lastcol - 1})
             c == IF S.lastcol >= place THEN m ELSE S.lastcol
  <2>1. m \in {0, S.lastcol - 1} /\ S.lastcol - 1 <= m /\ 0 <= m
    <3>1. 0 \in Int /\ S.lastcol - 1 \in Int
      BY <1>1
    <3> QED BY <3>1, MaxOfTwo
  <2> HIDE DEF m
  <2>2. c \in 0 .. MaxCol /\ m \in Int
    BY <1>1, <2>1
  <2>3. \A p \in At : M.cell[p] # Blank => p[1] <= c /\ p[2] <= S.lastrow
    <3>1. place \in 0 .. MaxCol
      BY <1>6 DEF IsPlace
    <3>2. \A p \in At : /\ src(p) = IF p[1] >= place /\ p[1] < MaxCol THEN East(p) ELSE p
                        /\ p \in Cleared(S, action, place) <=> p[1] = MaxCol
      BY <1>1, <1>6, Shifts, Clears
    <3> HIDE DEF src
    <3> SUFFICES ASSUME NEW p \in At, M.cell[p] # Blank
                 PROVE  p[1] <= c /\ p[2] <= S.lastrow
      OBVIOUS
    <3>3. /\ p[1] \in 0 .. MaxCol /\ p[2] \in 0 .. MaxRow
          /\ East(p)[1] = p[1] + 1 /\ East(p)[2] = p[2]
      BY Neighbours
    <3>4. /\ p[1] # MaxCol /\ src(p)[1] <= S.lastcol /\ src(p)[2] <= S.lastrow
          /\ src(p) = IF p[1] >= place /\ p[1] < MaxCol THEN East(p) ELSE p
      BY <1>3, <3>2
    <3>5. CASE p[1] >= place
      <4>1. p[1] + 1 <= S.lastcol /\ p[2] <= S.lastrow
        BY <1>1, <3>3, <3>4, <3>5
      <4> QED BY <1>1, <2>1, <2>2, <3>1, <3>3, <3>5, <4>1
    <3>6. CASE p[1] < place
      <4>1. p[1] <= S.lastcol /\ p[2] <= S.lastrow
        BY <1>1, <3>1, <3>3, <3>4, <3>6
      <4> QED BY <1>1, <2>1, <2>2, <3>1, <3>3, <3>6, <4>1
    <3> QED BY <3>1, <3>3, <3>5, <3>6
  <2>4. R = Sized(M, c, S.lastrow)
    <3>1. R = [M EXCEPT !.lastcol = c]
      BY <1>2, <1>6 DEF Resized, m
    <3> HIDE DEF c
    <3> QED BY <1>2, <3>1 DEF Sheets, Sized
  <2> HIDE DEF c
  <2> QED BY <1>1, <1>2, <2>2, <2>3, <2>4, SizedTo
<1>7. CASE action = "ROWDEL"
  <2> DEFINE m == Max({0, S.lastrow - 1})
             r == IF S.lastrow >= place THEN m ELSE S.lastrow
  <2>1. m \in {0, S.lastrow - 1} /\ S.lastrow - 1 <= m /\ 0 <= m
    <3>1. 0 \in Int /\ S.lastrow - 1 \in Int
      BY <1>1
    <3> QED BY <3>1, MaxOfTwo
  <2> HIDE DEF m
  <2>2. r \in 0 .. MaxRow /\ m \in Int
    BY <1>1, <2>1
  <2>3. \A p \in At : M.cell[p] # Blank => p[1] <= S.lastcol /\ p[2] <= r
    <3>1. place \in 0 .. MaxRow
      BY <1>7 DEF IsPlace
    <3>2. \A p \in At : /\ src(p) = IF p[2] >= place /\ p[2] < MaxRow THEN South(p) ELSE p
                        /\ p[2] \in {place, MaxRow} => S.cell[p] = Blank
      BY <1>7, Shifts DEF Ready
    <3> HIDE DEF src
    <3> SUFFICES ASSUME NEW p \in At, M.cell[p] # Blank
                 PROVE  p[1] <= S.lastcol /\ p[2] <= r
      OBVIOUS
    <3>3. /\ p[1] \in 0 .. MaxCol /\ p[2] \in 0 .. MaxRow
          /\ South(p)[1] = p[1] /\ South(p)[2] = p[2] + 1
      BY Neighbours
    <3>4. /\ src(p) \in At /\ S.cell[src(p)] # Blank
          /\ src(p)[1] <= S.lastcol /\ src(p)[2] <= S.lastrow
          /\ src(p) = IF p[2] >= place /\ p[2] < MaxRow THEN South(p) ELSE p
      BY <1>2, <1>3, <3>2
    <3>5. CASE p[2] >= place /\ p[2] < MaxRow
      <4>1. p[1] <= S.lastcol /\ p[2] + 1 <= S.lastrow
        BY <1>1, <3>3, <3>4, <3>5
      <4> QED BY <1>1, <2>1, <2>2, <3>1, <3>3, <3>5, <4>1
    <3>6. CASE ~(p[2] >= place /\ p[2] < MaxRow)
      <4>1. src(p) = p
        BY <3>4, <3>6
      <4>2. p[2] # MaxRow
        BY <3>2, <3>4, <4>1
      <4>3. p[2] < place /\ p[1] <= S.lastcol /\ p[2] <= S.lastrow
        BY <1>1, <3>1, <3>3, <3>4, <3>6, <4>1, <4>2
      <4> QED BY <1>1, <2>1, <2>2, <3>1, <3>3, <4>3
    <3> QED BY <3>5, <3>6
  <2>4. R = Sized(M, S.lastcol, r)
    <3>1. R = [M EXCEPT !.lastrow = r]
      BY <1>2, <1>7 DEF Resized, m
    <3> HIDE DEF r
    <3> QED BY <1>2, <3>1 DEF Sheets, Sized
  <2> HIDE DEF r
  <2> QED BY <1>1, <1>2, <2>2, <2>3, <2>4, SizedTo
<1> QED BY <1>4, <1>5, <1>6, <1>7 DEF IsPlace

-----------------------------------------------------------------------------
(* A formula names the cell's new place. *)
LEMMA TargetType ==
  ASSUME NEW action, NEW place, IsPlace(action, place), NEW p \in At
  PROVE  Target(action, place, p) \in Nat \X Nat
<1>1. /\ p[1] \in Nat /\ p[2] \in Nat /\ p \in Nat \X Nat /\ place \in Nat
  BY TheCells, Limits DEF IsPlace
<1>2. /\ East(p) \in Nat \X Nat /\ South(p) \in Nat \X Nat
      /\ p[1] > place => West(p) \in Nat \X Nat
      /\ p[2] > place => North(p) \in Nat \X Nat
  BY <1>1 DEF East, West, South, North
<1> QED BY <1>1, <1>2, Shifts DEF IsPlace

(* The name after the change, and whether it takes another length. *)
Renamed(x, action, place) == IF x.ref \in At THEN Target(action, place, x.ref) ELSE x.ref
Grows(x, action, place) == Length(Renamed(x, action, place)) # Length(x.ref)

LEMMA FixFormula ==
  ASSUME NEW T \in Sheets, NEW p \in At, Is(T, p, "formula"),
         NEW action, NEW place, IsPlace(action, place),
         NEW U, U = fixformula(T, p, action, place)
  PROVE  /\ U \in Sheets
         /\ \A q \in At : q # p => U.cell[q] = T.cell[q]
         /\ /\ Good(T) /\ p[1] <= T.lastcol /\ p[2] <= T.lastrow
            /\ Grows(T.cell[p], action, place) => p[1] # T.lastcol /\ p[2] # T.lastrow
            => Good(U) /\ U.lastcol = T.lastcol /\ U.lastrow = T.lastrow
<1> DEFINE old == T.cell[p]
           new == Renamed(old, action, place)
           x == [old EXCEPT !.ref = new]
           y == IF Length(new) > MAXINPUT THEN Text(Length(old.ref)) ELSE x
           D == deletecell(T, p)
<1>1. U = IF Length(new) = Length(old.ref) THEN Put(T, p, x) ELSE alloc(D, p, y)
  BY DEF fixformula, Renamed
<1>2. old \in Contents /\ old.kind = "formula" /\ old.ref \in Nat \X Nat
  BY CellKinds DEF Sheets, Is
<1> HIDE DEF old
<1>3. new \in Nat \X Nat
  BY <1>2, TargetType DEF Renamed
<1> HIDE DEF new
<1>4. /\ x \in Contents /\ x # Blank /\ x.kind = "formula" /\ x.ref = new
      /\ y \in Contents
  <2>1. x \in Contents /\ x # Blank /\ x.kind = "formula" /\ x.ref = new
    BY <1>2, <1>3, CellKinds
  <2>2. Length(old.ref) \in Nat
    BY <1>2, LengthType
  <2> QED BY <2>1, <2>2, CellKinds
<1> HIDE DEF x, y
<1>5. CASE Length(new) = Length(old.ref)
  <2>1. U = Put(T, p, x)
    BY <1>1, <1>5
  <2>2. /\ U \in Sheets /\ U.cell[p] = x /\ \A q \in At : q # p => U.cell[q] = T.cell[q]
        /\ U.memleft = T.memleft /\ U.lastcol = T.lastcol /\ U.lastrow = T.lastrow
    BY <1>4, <2>1, PutType
  <2>3. Size(x) = Size(old)
    BY <1>2, <1>4, <1>5 DEF Size
  <2>4. \A q \in At : /\ U.cell[q] = Blank <=> T.cell[q] = Blank
                      /\ Size(U.cell[q]) = Size(T.cell[q])
    <3>1. old # Blank
      BY <1>2, SizeType
    <3> QED BY <1>4, <2>2, <2>3, <3>1 DEF old
  <2>5. Total(Taken(U), At) = Total(Taken(T), At)
    <3>1. \A q \in At : Taken(U)[q] = Taken(T)[q]
      BY <2>4 DEF Taken
    <3> QED BY <3>1, TotalSame
  <2>6. Good(T) => Good(U)
    BY <2>2, <2>4, <2>5 DEF Good, Paid, Within
  <2> QED BY <2>2, <2>6
<1>6. CASE Length(new) # Length(old.ref)
  <2>1. U = alloc(D, p, y) /\ Grows(old, action, place)
    BY <1>1, <1>6 DEF Grows, new
  <2>2. /\ D \in Sheets /\ D.cell[p] = Blank
        /\ \A q \in At : q # p => D.cell[q] = T.cell[q]
        /\ p[1] # T.lastcol => D.lastcol = T.lastcol
        /\ p[2] # T.lastrow => D.lastrow = T.lastrow
        /\ (Paid(T) => Paid(D)) /\ (Within(T) => Within(D))
    BY DeleteCell
  <2> HIDE DEF D
  <2>3. /\ U \in Sheets /\ \A q \in At : q # p => U.cell[q] = D.cell[q]
        /\ U.lastcol = D.lastcol /\ U.lastrow = D.lastrow
        /\ Paid(D) => Paid(U)
    BY <1>4, <2>1, <2>2, AllocType
  <2>4. ASSUME Good(T), p[1] <= T.lastcol, p[2] <= T.lastrow, p[1] # T.lastcol, p[2] # T.lastrow
        PROVE  Good(U) /\ U.lastcol = T.lastcol /\ U.lastrow = T.lastrow
    <3>1. U.lastcol = T.lastcol /\ U.lastrow = T.lastrow /\ Paid(U) /\ Within(D)
      BY <2>2, <2>3, <2>4 DEF Good
    <3>2. Within(U)
      BY <2>2, <2>3, <2>4, <3>1 DEF Within
    <3> QED BY <2>3, <3>1, <3>2 DEF Good
  <2>5. \A q \in At : q # p => U.cell[q] = T.cell[q]
    BY <2>2, <2>3
  <2> QED BY <2>1, <2>3, <2>4, <2>5 DEF old
<1> QED BY <1>5, <1>6

(* One turn of the loops over the formulas. *)
Fixed(T, p, action, place) ==
  IF Is(T, p, "formula") THEN fixformula(T, p, action, place) ELSE T
Turned(T, p, action, place) ==
  IF action \in {"COLADD", "COLDEL"}
  THEN updateoflags(Fixed(T, p, action, place), <<place, p[2]>>)
  ELSE Fixed(T, p, action, place)

LEMMA TurnedGood ==
  ASSUME NEW T \in Sheets, NEW p \in At, NEW action, NEW place, IsPlace(action, place),
         NEW U, U = Turned(T, p, action, place)
  PROVE  /\ U \in Sheets
         /\ \A q \in At : q # p => U.cell[q] = T.cell[q]
         /\ /\ Good(T) /\ p[1] <= T.lastcol /\ p[2] <= T.lastrow
            /\ Is(T, p, "formula") /\ Grows(T.cell[p], action, place)
                 => p[1] # T.lastcol /\ p[2] # T.lastrow
            => Good(U) /\ U.lastcol = T.lastcol /\ U.lastrow = T.lastrow
<1> DEFINE V == Fixed(T, p, action, place)
           fits == /\ Good(T) /\ p[1] <= T.lastcol /\ p[2] <= T.lastrow
                   /\ Is(T, p, "formula") /\ Grows(T.cell[p], action, place)
                        => p[1] # T.lastcol /\ p[2] # T.lastrow
<1>1. /\ V \in Sheets
      /\ \A q \in At : q # p => V.cell[q] = T.cell[q]
      /\ fits => Good(V) /\ V.lastcol = T.lastcol /\ V.lastrow = T.lastrow
  <2>1. CASE Is(T, p, "formula")
    <3>1. V = fixformula(T, p, action, place)
      BY <2>1 DEF Fixed
    <3> HIDE DEF V
    <3> QED BY <2>1, <3>1, FixFormula
  <2>2. CASE ~Is(T, p, "formula")
    <3>1. V = T
      BY <2>2 DEF Fixed
    <3> HIDE DEF V
    <3> QED BY <3>1
  <2> QED BY <2>1, <2>2
<1>2. Alike(V, U)
  <2>1. U = V \/ U = updateoflags(V, <<place, p[2]>>)
    BY DEF Turned
  <2> HIDE DEF V
  <2> QED BY <1>1, <2>1, FlagsOnly DEF Alike
<1> HIDE DEF V
<1>3. /\ U \in Sheets /\ U.cell = V.cell /\ U.lastcol = V.lastcol /\ U.lastrow = V.lastrow
      /\ Good(V) => Good(U)
  BY <1>2, AlikeGood DEF Alike
<1> QED BY <1>1, <1>3

(* Where the lengths change, it is not in the last column or row in use. *)
Spared(R, action, place) ==
  \A p \in At : Is(R, p, "formula") /\ Grows(R.cell[p], action, place)
                => p[1] # R.lastcol /\ p[2] # R.lastrow

LEMMA FixedGood ==
  ASSUME NEW R, Good(R), NEW action, NEW place, IsPlace(action, place),
         Spared(R, action, place)
  PROVE  Good(fixformulas(R, action, place))
<1> DEFINE n == (R.lastcol + 1) * (R.lastrow + 1)
           q == ByColumns(R)
           X == Sheets
           J == [k \in 0 .. n |-> {T \in X : /\ Good(T) /\ T.lastcol = R.lastcol /\ T.lastrow = R.lastrow
                                          /\ \A i \in k + 1 .. n : T.cell[q[i]] = R.cell[q[i]]}]
           body(T, i) == IF q[i][1] <= T.lastcol /\ q[i][2] <= T.lastrow
                         THEN Turned(T, q[i], action, place) ELSE T
           h == [a \in X \X (1 .. n) |-> body(a[1], a[2])]
           F(it) == [s \in SUBSET (1 .. n) |->
                       IF s = {} THEN R ELSE body(it[s \ {Max(s)}], Max(s))]
           c == CHOOSE it : it = F(it)
<1>1. R \in X
  BY DEF Good
<1>2. /\ n \in Nat /\ DOMAIN q = 1 .. n
      /\ \A i \in 1 .. n : q[i] \in At /\ q[i][1] <= R.lastcol /\ q[i][2] <= R.lastrow
      /\ \A i, j \in 1 .. n : q[i] = q[j] => i = j
  BY <1>1, Columns
<1>3. R \in X /\ fixformulas(R, action, place) = c[1 .. n]
  <2>1. fixformulas(R, action, place)
          = (CHOOSE it : it = [s \in SUBSET DOMAIN q |->
               IF s = {} THEN R ELSE body(it[s \ {Max(s)}], Max(s))])[DOMAIN q]
    BY DEF fixformulas, FoldLeft, MapThenFoldSet, Turned, Fixed
  <2> QED BY <1>1, <1>2, <2>1
<1> HIDE DEF n, q
<1>4. \A T \in X : \A i \in 1 .. n : body(T, i) \in X
  BY <1>2, TurnedGood
<1>5. \A T \in X : \A i \in 1 .. n : h[<<T, i>>] = body(T, i) /\ h[<<T, i>>] \in X
  <2> HIDE DEF X, body
  <2> QED BY <1>4
<1> HIDE DEF X, h, body
<1>6. c = F(c)
  <2>1. PICK e : Folded(e, n, X, R, h)
    BY <1>2, <1>3, <1>5, FoldExists
  <2>2. \A s \in SUBSET (1 .. n) : s # {} =>
          h[<<e[s \ {Max(s)}], Max(s)>>] = body(e[s \ {Max(s)}], Max(s))
    BY <1>5, <2>1 DEF Folded
  <2>3. e = F(e)
    BY <2>1, <2>2 DEF Folded
  <2> QED BY <2>3
<1> HIDE DEF c
<1>7. /\ c[{}] = R
      /\ \A s \in SUBSET (1 .. n) : s # {} /\ Max(s) \in 1 .. n /\ c[s \ {Max(s)}] \in X
                                    => c[s] = h[<<c[s \ {Max(s)}], Max(s)>>]
  BY <1>5, <1>6
<1>8. ASSUME NEW k \in 1 .. n, NEW T \in J[k - 1]
      PROVE  h[<<T, k>>] \in J[k]
  <2>1. k - 1 \in 0 .. n /\ k \in 0 .. n /\ (k - 1) + 1 = k /\ k \in k .. n
    BY <1>2
  <2>2. /\ T \in Sheets /\ Good(T) /\ T.lastcol = R.lastcol /\ T.lastrow = R.lastrow
        /\ \A i \in k .. n : T.cell[q[i]] = R.cell[q[i]]
    BY <1>8, <2>1 DEF X
  <2> DEFINE p == q[k]
             U == Turned(T, p, action, place)
  <2>3. p \in At /\ p[1] <= T.lastcol /\ p[2] <= T.lastrow /\ T.cell[p] = R.cell[p]
    BY <1>2, <2>1, <2>2
  <2> HIDE DEF p
  <2>4. Is(T, p, "formula") /\ Grows(T.cell[p], action, place)
          => p[1] # T.lastcol /\ p[2] # T.lastrow
    BY <2>2, <2>3 DEF Spared, Is
  <2>5. /\ U \in Sheets /\ Good(U) /\ U.lastcol = T.lastcol /\ U.lastrow = T.lastrow
        /\ \A r \in At : r # p => U.cell[r] = T.cell[r]
    BY <2>2, <2>3, <2>4, TurnedGood
  <2> HIDE DEF U
  <2>6. ASSUME NEW i \in k + 1 .. n
        PROVE  U.cell[q[i]] = R.cell[q[i]]
    <3>1. i \in 1 .. n /\ i \in k .. n /\ i # k
      BY <1>2, <2>1
    <3>2. q[i] \in At /\ q[i] # p
      BY <1>2, <3>1 DEF p
    <3> QED BY <2>2, <2>5, <3>1, <3>2
  <2>7. h[<<T, k>>] = U
    BY <1>5, <2>2, <2>3 DEF X, body, p, U
  <2> QED BY <2>1, <2>2, <2>5, <2>6, <2>7 DEF X
<1>9. R \in J[0] /\ \A k \in 0 .. n : J[k] \subseteq X
  BY <1>1, <1>2
<1>10. c[1 .. n] \in J[n]
  <2> HIDE DEF J
  <2> QED BY <1>2, <1>7, <1>8, <1>9, FoldKeeps
<1>11. n \in 0 .. n
  BY <1>2
<1> QED BY <1>3, <1>10, <1>11

LEMMA ShiftedGood ==
  ASSUME NEW S, Good(S), NEW action, NEW place, IsPlace(action, place),
         CanChange(S, action, place), Harmless(S, action, place)
  PROVE  Good(shifted(S, action, place))
<1> DEFINE E == Emptied(S, action, place)
           R == Resized(Moved(E, action, place), action, place)
<1>1. Good(E) /\ Ready(E, action, place)
  BY EmptiedReady
<1>2. Good(R)
  <2> HIDE DEF E
  <2> QED BY <1>1, ResizedGood
<1>3. Spared(R, action, place)
  <2> SUFFICES ASSUME NEW p \in At, Is(R, p, "formula"), Grows(R.cell[p], action, place)
               PROVE  p[1] # R.lastcol /\ p[2] # R.lastrow
    BY DEF Spared
  <2> DEFINE longer == {q \in Used(R) : /\ Is(R, q, "formula") /\ R.cell[q].ref \in At
                                        /\ Length(Target(action, place, R.cell[q].ref))
                                             # Length(R.cell[q].ref)}
  <2>1. \A q \in longer : q[1] # R.lastcol /\ q[2] # R.lastrow
    BY DEF Harmless
  <2> HIDE DEF R
  <2>2. p \in Used(R)
    BY DEF Used, Is
  <2>3. p \in longer
    BY <2>2 DEF Grows, Renamed
  <2> QED BY <2>1, <2>3
<1>4. shifted(S, action, place) = recalc(fixformulas(R, action, place))
  BY DEF shifted
<1> HIDE DEF R
<1> QED BY <1>2, <1>3, <1>4, FixedGood, RecalcGood

-----------------------------------------------------------------------------
(* A sheet is cleared, row by row. *)
(* The cells up to the last column and row in use, row by row. *)
ByRows(S) ==
  [i \in 1 .. (S.lastcol + 1) * (S.lastrow + 1) |->
     <<(i - 1) % (S.lastcol + 1), (i - 1) \div (S.lastcol + 1)>>]

Places(S) == (S.lastcol + 1) * (S.lastrow + 1)

LEMMA RowPlaces ==
  ASSUME NEW S, S.lastcol \in 0 .. MaxCol, S.lastrow \in 0 .. MaxRow
  PROVE  /\ Places(S) \in Nat /\ DOMAIN ByRows(S) = 1 .. Places(S)
         /\ \A i \in 1 .. Places(S) : /\ ByRows(S)[i] \in At
                              /\ ByRows(S)[i][1] \in 0 .. S.lastcol
                              /\ ByRows(S)[i][2] \in 0 .. S.lastrow
         /\ \A i, j \in 1 .. Places(S) : ByRows(S)[i] = ByRows(S)[j] => i = j
         /\ \A p \in At : p[1] <= S.lastcol /\ p[2] <= S.lastrow
                           => \E i \in 1 .. Places(S) : ByRows(S)[i] = p
<1> DEFINE a == S.lastrow + 1
           b == S.lastcol + 1
           q == ByRows(S)
           n == Places(S)
<1>1. /\ a \in Nat /\ b \in Nat /\ a > 0 /\ b > 0 /\ a - 1 = S.lastrow /\ b - 1 = S.lastcol
      /\ S.lastcol \in Int /\ S.lastrow \in Int
  BY Limits
<1>2. n = a * b
  BY <1>1 DEF Places
<1>3. q = [i \in 1 .. n |-> <<(i - 1) % b, (i - 1) \div b>>]
  BY DEF ByRows, Places
<1> HIDE DEF a, b, q, n
<1>4. /\ n \in Nat
      /\ \A i \in 1 .. n : /\ (i - 1) \div b \in 0 .. a - 1
                           /\ (i - 1) % b \in 0 .. b - 1
      /\ \A i, j \in 1 .. n :
           (i - 1) \div b = (j - 1) \div b /\ (i - 1) % b = (j - 1) % b => i = j
      /\ \A x \in 0 .. a - 1, y \in 0 .. b - 1 :
           \E i \in 1 .. n : (i - 1) \div b = x /\ (i - 1) % b = y
  <2>1. /\ a * b \in Nat
        /\ \A i \in 1 .. a * b : /\ (i - 1) \div b \in 0 .. a - 1
                                 /\ (i - 1) % b \in 0 .. b - 1
        /\ \A i, j \in 1 .. a * b :
             (i - 1) \div b = (j - 1) \div b /\ (i - 1) % b = (j - 1) % b => i = j
        /\ \A x \in 0 .. a - 1, y \in 0 .. b - 1 :
             \E i \in 1 .. a * b : (i - 1) \div b = x /\ (i - 1) % b = y
    BY <1>1, Grid
  <2> QED BY <1>2, <2>1, Zenon
<1>5. ASSUME NEW i \in 1 .. n
      PROVE  q[i] \in At /\ q[i][1] \in 0 .. S.lastcol /\ q[i][2] \in 0 .. S.lastrow
  <2> DEFINE x == (i - 1) % b
             y == (i - 1) \div b
  <2>1. x \in 0 .. b - 1 /\ y \in 0 .. a - 1 /\ q[i] = <<x, y>>
    BY <1>3, <1>4
  <2> HIDE DEF x, y
  <2>2. x \in 0 .. S.lastcol /\ y \in 0 .. S.lastrow /\ x \in 0 .. MaxCol /\ y \in 0 .. MaxRow
    BY <1>1, <2>1, Limits
  <2> QED BY <2>1, <2>2, TheCells
<1>6. ASSUME NEW p \in At, p[1] <= S.lastcol, p[2] <= S.lastrow
      PROVE  \E i \in 1 .. n : q[i] = p
  <2>1. p[1] \in 0 .. b - 1 /\ p[2] \in 0 .. a - 1 /\ p = <<p[1], p[2]>>
    BY <1>1, <1>6, Limits, TheCells
  <2>2. PICK i \in 1 .. n : (i - 1) \div b = p[2] /\ (i - 1) % b = p[1]
    BY <1>4, <2>1
  <2> QED BY <1>3, <2>1, <2>2
<1>7. ASSUME NEW i \in 1 .. n, NEW j \in 1 .. n, q[i] = q[j]
      PROVE  i = j
  <2>1. (i - 1) \div b = (j - 1) \div b /\ (i - 1) % b = (j - 1) % b
    BY <1>3, <1>7
  <2> QED BY <1>4, <2>1
<1>8. n \in Nat /\ DOMAIN q = 1 .. n
  BY <1>3, <1>4
<1> QED BY <1>5, <1>6, <1>7, <1>8 DEF q, n

LEMMA AllBlank ==
  ASSUME NEW S \in Sheets, \A p \in At : S.cell[p] = Blank
  PROVE  Total(Taken(S), At) = 0
<1>1. \A p \in At : Taken(S)[p] = 0
  BY TakenType, CellKinds, SizeType
<1>2. Bars(Taken(S), At) = {}
  <2>1. \A q \in At \X Nat : q[1] \in At /\ q[2] \in Nat
    OBVIOUS
  <2> QED BY <1>1, <2>1 DEF Bars
<1> QED BY <1>2, FS_EmptySet DEF Total

LEMMA EmptyGood ==
  /\ Good(EmptySheet(Memory))
  /\ \A p \in At : EmptySheet(Memory).cell[p] = Blank
  /\ EmptySheet(Memory).memleft = Memory
<1> DEFINE T == EmptySheet(Memory)
           cell == [p \in At |-> Blank]
           width == [c \in 0 .. MaxCol |-> DefaultWidth]
<1>1. T = [cell |-> cell, over |-> {}, width |-> width, lastcol |-> 0, lastrow |-> 0,
           memleft |-> Memory]
  BY DEF EmptySheet
<1>2. /\ cell \in [At -> Contents] /\ width \in [0 .. MaxCol -> Nat] /\ {} \in SUBSET At
      /\ 0 \in 0 .. MaxCol /\ 0 \in 0 .. MaxRow /\ Memory \in Int
      /\ \A p \in At : cell[p] = Blank
  BY CellKinds, Limits
<1> HIDE DEF T, cell, width
<1>3. T \in Sheets /\ T.cell = cell /\ T.memleft = Memory
  BY <1>1, <1>2 DEF Sheets
<1>4. Within(T)
  BY <1>2, <1>3 DEF Within
<1>5. Total(Taken(T), At) = 0
  BY <1>2, <1>3, AllBlank
<1>6. Good(T)
  BY <1>2, <1>3, <1>4, <1>5 DEF Good, Paid
<1> QED BY <1>2, <1>3, <1>6 DEF T

LEMMA Cleans ==
  ASSUME NEW S, Good(S)
  PROVE  clearsheet(S) = EmptySheet(Memory)
<1> DEFINE n == (S.lastcol + 1) * (S.lastrow + 1)
           q == ByRows(S)
           X == {T \in Sheets : Good(T)}
           J == [k \in 0 .. n |-> {T \in X : /\ T.lastcol <= S.lastcol /\ T.lastrow <= S.lastrow
                                          /\ \A i \in 1 .. k : T.cell[q[i]] = Blank}]
           body(T, i) == IF q[i][1] <= T.lastcol /\ q[i][2] <= T.lastrow
                         THEN deletecell(T, q[i]) ELSE T
           h == [a \in X \X (1 .. n) |-> body(a[1], a[2])]
           F(it) == [s \in SUBSET (1 .. n) |->
                       IF s = {} THEN S ELSE body(it[s \ {Max(s)}], Max(s))]
           c == CHOOSE it : it = F(it)
<1>1. /\ S \in Sheets /\ S \in X /\ S.lastcol \in 0 .. MaxCol /\ S.lastrow \in 0 .. MaxRow
      /\ S.lastcol \in Int /\ S.lastrow \in Int
  BY DEF Good, Sheets
<1>2. /\ n \in Nat /\ DOMAIN q = 1 .. n
      /\ \A i \in 1 .. n : q[i] \in At
      /\ \A p \in At : p[1] <= S.lastcol /\ p[2] <= S.lastrow => \E i \in 1 .. n : q[i] = p
  <2>1. n = Places(S)
    BY DEF Places
  <2> HIDE DEF n, q
  <2>2. q = ByRows(S)
    BY DEF q
  <2> QED BY <1>1, <2>1, <2>2, RowPlaces
<1>3. S \in X /\ clearsheet(S) = EmptySheet(c[1 .. n].memleft)
  <2>1. clearsheet(S) = EmptySheet((CHOOSE it : it = [s \in SUBSET DOMAIN q |->
          IF s = {} THEN S ELSE body(it[s \ {Max(s)}], Max(s))])[DOMAIN q].memleft)
    BY DEF clearsheet, ByRows, FoldLeft, MapThenFoldSet
  <2> QED BY <1>1, <1>2, <2>1
<1> HIDE DEF n, q
<1>4. \A T \in X : \A i \in 1 .. n : body(T, i) \in X
  BY <1>2, DeleteCell DEF Good
<1>5. \A T \in X : \A i \in 1 .. n : h[<<T, i>>] = body(T, i) /\ h[<<T, i>>] \in X
  <2> HIDE DEF X, body
  <2> QED BY <1>4
<1> HIDE DEF X, h, body
<1>6. c = F(c)
  <2>1. PICK e : Folded(e, n, X, S, h)
    BY <1>2, <1>3, <1>5, FoldExists
  <2>2. \A s \in SUBSET (1 .. n) : s # {} =>
          h[<<e[s \ {Max(s)}], Max(s)>>] = body(e[s \ {Max(s)}], Max(s))
    BY <1>5, <2>1 DEF Folded
  <2>3. e = F(e)
    BY <2>1, <2>2 DEF Folded
  <2> QED BY <2>3
<1> HIDE DEF c
<1>7. /\ c[{}] = S
      /\ \A s \in SUBSET (1 .. n) : s # {} /\ Max(s) \in 1 .. n /\ c[s \ {Max(s)}] \in X
                                    => c[s] = h[<<c[s \ {Max(s)}], Max(s)>>]
  BY <1>5, <1>6
<1>8. ASSUME NEW k \in 1 .. n, NEW T \in J[k - 1]
      PROVE  h[<<T, k>>] \in J[k]
  <2>1. k - 1 \in 0 .. n /\ k \in 0 .. n
    BY <1>2
  <2>2. /\ T \in X /\ T.lastcol <= S.lastcol /\ T.lastrow <= S.lastrow
        /\ \A i \in 1 .. k - 1 : T.cell[q[i]] = Blank
    BY <1>8, <2>1
  <2>3. T \in Sheets /\ Within(T) /\ T.lastcol \in Int /\ T.lastrow \in Int
    BY <2>2 DEF X, Good, Sheets
  <2> DEFINE U == body(T, k)
  <2>4. U = h[<<T, k>>] /\ U \in X
    BY <1>4, <1>5, <2>2
  <2>5. /\ U.lastcol <= T.lastcol /\ U.lastrow <= T.lastrow /\ U.cell[q[k]] = Blank
        /\ \A p \in At : T.cell[p] = Blank => U.cell[p] = Blank
    <3> DEFINE p == q[k]
    <3>1. p \in At
      BY <1>2
    <3>2. U = IF p[1] <= T.lastcol /\ p[2] <= T.lastrow THEN deletecell(T, p) ELSE T
      BY DEF body
    <3> HIDE DEF p, U
    <3>3. CASE p[1] <= T.lastcol /\ p[2] <= T.lastrow
      BY <2>3, <3>1, <3>2, <3>3, DeleteCell DEF p
    <3>4. CASE ~(p[1] <= T.lastcol /\ p[2] <= T.lastrow)
      BY <2>3, <3>1, <3>2, <3>4 DEF p, Within
    <3> QED BY <3>3, <3>4
  <2>6. U.lastcol \in Int /\ U.lastrow \in Int
    BY <2>4 DEF X, Sheets
  <2> HIDE DEF U
  <2>7. \A i \in 1 .. k : U.cell[q[i]] = Blank
    <3> SUFFICES ASSUME NEW i \in 1 .. k
                 PROVE  U.cell[q[i]] = Blank
      OBVIOUS
    <3>1. i \in 1 .. n /\ (i = k \/ i \in 1 .. k - 1)
      BY <1>2
    <3> QED BY <1>2, <2>2, <2>5, <3>1
  <2>8. U.lastcol <= S.lastcol /\ U.lastrow <= S.lastrow
    BY <1>1, <2>2, <2>3, <2>5, <2>6
  <2> QED BY <2>1, <2>4, <2>7, <2>8
<1>9. S \in J[0] /\ \A k \in 0 .. n : J[k] \subseteq X
  <2>1. \A i \in 1 .. 0 : FALSE
    OBVIOUS
  <2> QED BY <1>1, <1>2, <2>1
<1>10. c[1 .. n] \in J[n]
  <2> HIDE DEF J
  <2> QED BY <1>2, <1>7, <1>8, <1>9, FoldKeeps
<1>11. n \in 0 .. n
  BY <1>2
<1> DEFINE E == c[1 .. n]
<1>12. /\ Good(E) /\ E.lastcol <= S.lastcol /\ E.lastrow <= S.lastrow
       /\ \A i \in 1 .. n : E.cell[q[i]] = Blank
  BY <1>10, <1>11 DEF X
<1> HIDE DEF E
<1>13. \A p \in At : E.cell[p] = Blank
  <2> SUFFICES ASSUME NEW p \in At, E.cell[p] # Blank
               PROVE  FALSE
    OBVIOUS
  <2>1. /\ p[1] <= E.lastcol /\ p[2] <= E.lastrow /\ E.lastcol \in Int /\ E.lastrow \in Int
        /\ p[1] \in Int /\ p[2] \in Int
    BY <1>12, TheCells DEF Good, Within, Sheets
  <2>2. p[1] <= S.lastcol /\ p[2] <= S.lastrow
    BY <1>1, <1>12, <2>1
  <2> QED BY <1>2, <1>12, <2>2
<1>14. E.memleft = Memory
  <2>1. Total(Taken(E), At) = 0 /\ E.memleft \in Int
    BY <1>12, <1>13, AllBlank DEF Good, Sheets
  <2> QED BY <1>12, <2>1 DEF Good, Paid
<1> QED BY <1>3, <1>14 DEF E

-----------------------------------------------------------------------------
(* A sheet is loaded, cell by cell, each row backwards. *)
LEMMA AllocSheet ==
  ASSUME NEW S \in Sheets, NEW p \in At, NEW x \in Contents
  PROVE  alloc(S, p, x) \in Sheets
<1>1. CASE S.memleft < Size(x)
  BY <1>1 DEF alloc
<1>2. CASE ~(S.memleft < Size(x))
  <2> DEFINE P == Put(S, p, x)
  <2>1. alloc(S, p, x) = [P EXCEPT !.memleft = P.memleft - Size(x)]
    BY <1>2 DEF alloc
  <2>2. P \in Sheets
    BY PutType
  <2> HIDE DEF P
  <2>3. Size(x) \in Nat
    BY SizeType
  <2> QED BY <2>1, <2>2, <2>3 DEF Sheets
<1> QED BY <1>1, <1>2

Loads == [sheet : Sheets, full : BOOLEAN, col : 0 .. MaxCol, row : 0 .. MaxRow]

(* The memory is right, the cells so far are up to the column and row that were
   reached, and the sheet ends there, or where the file does. *)
Loaded(L, file) ==
  /\ Paid(L.sheet)
  /\ \A p \in At : L.sheet.cell[p] # Blank => p[1] <= L.col /\ p[2] <= L.row
  /\ L.col <= file.lastcol /\ L.row <= file.lastrow
  /\ L.full => L.sheet.lastcol = L.col /\ L.sheet.lastrow = L.row
  /\ ~L.full => L.sheet.lastcol = file.lastcol /\ L.sheet.lastrow = file.lastrow

LEMMA LoadCell ==
  ASSUME NEW L \in Loads, NEW p \in At, NEW x \in Contents
  PROVE  /\ loadcell(L, p, x) \in Loads
         /\ \A q \in At : q # p /\ L.sheet.cell[p] = Blank
                           => loadcell(L, p, x).sheet.cell[q] = L.sheet.cell[q]
         /\ \A file \in Files :
              /\ Loaded(L, file) /\ L.sheet.cell[p] = Blank
              /\ p[1] <= file.lastcol /\ p[2] <= file.lastrow
              => Loaded(loadcell(L, p, x), file)
<1> DEFINE S == L.sheet
           T == alloc(S, p, x)
           U == IF Is(T, p, "text") THEN setoflags(T, p) ELSE T
           lc == Max({L.col, p[1]})
           lr == Max({L.row, p[2]})
           R == loadcell(L, p, x)
<1>1. S \in Sheets /\ T \in Sheets
  BY AllocSheet DEF Loads
<1> DEFINE E == [L EXCEPT !.full = TRUE, !.sheet = Sized(L.sheet, L.col, L.row)]
           G == [L EXCEPT !.sheet = U, !.col = lc, !.row = lr]
<1>2. R = IF L.full \/ x = Blank THEN L ELSE IF Is(T, p, "blank") THEN E ELSE G
  BY DEF loadcell, Sized
<1>3. /\ L.col \in 0 .. MaxCol /\ L.row \in 0 .. MaxRow /\ L.full \in BOOLEAN
      /\ p[1] \in 0 .. MaxCol /\ p[2] \in 0 .. MaxRow
      /\ L.col \in Int /\ L.row \in Int /\ p[1] \in Int /\ p[2] \in Int
  BY TheCells DEF Loads
<1>4. /\ lc \in {L.col, p[1]} /\ L.col <= lc /\ p[1] <= lc /\ lc \in 0 .. MaxCol
      /\ lr \in {L.row, p[2]} /\ L.row <= lr /\ p[2] <= lr /\ lr \in 0 .. MaxRow
  <2>1. /\ lc \in {L.col, p[1]} /\ L.col <= lc /\ p[1] <= lc
        /\ lr \in {L.row, p[2]} /\ L.row <= lr /\ p[2] <= lr
    BY <1>3, MaxOfTwo
  <2> HIDE DEF lc, lr
  <2> QED BY <1>3, <2>1
<1>5. Alike(T, U)
  BY <1>1, FlagsOnly DEF Alike
<1>6. S.cell[p] = Blank => /\ \A q \in At : q # p => T.cell[q] = S.cell[q]
                           /\ T.lastcol = S.lastcol /\ T.lastrow = S.lastrow
                           /\ Paid(S) => Paid(T)
  BY <1>1, AllocType
<1> HIDE DEF S, T, U, lc, lr, R, E, G
<1>8. CASE L.full \/ x = Blank
  <2>1. R = L /\ S = L.sheet
    BY <1>2, <1>8 DEF S
  <2> QED BY <2>1 DEF R
<1>9. CASE ~(L.full \/ x = Blank) /\ Is(T, p, "blank")
  <2> DEFINE V == Sized(S, L.col, L.row)
  <2>1. /\ V \in Sheets /\ V.cell = S.cell /\ V.memleft = S.memleft
        /\ V.lastcol = L.col /\ V.lastrow = L.row
    BY <1>1, <1>3 DEF Sheets, Sized
  <2> HIDE DEF V
  <2>2. /\ R \in Loads /\ R.sheet = V /\ R.full = TRUE /\ R.col = L.col /\ R.row = L.row
    <3>1. R = [L EXCEPT !.full = TRUE, !.sheet = V]
      BY <1>2, <1>9 DEF E, S, V
    <3> QED BY <2>1, <3>1 DEF Loads
  <2>3. Taken(V) = Taken(S)
    BY <2>1 DEF Taken
  <2>4. ASSUME NEW file \in Files, Loaded(L, file)
        PROVE  Loaded(R, file)
    BY <2>1, <2>2, <2>3, <2>4 DEF Loaded, Paid, S
  <2>5. R.sheet.cell = L.sheet.cell
    BY <2>1, <2>2 DEF S
  <2> QED BY <2>2, <2>4, <2>5 DEF R
<1>10. CASE ~(L.full \/ x = Blank) /\ ~Is(T, p, "blank")
  <2>1. U \in Sheets
    BY <1>5 DEF Alike
  <2>2. R \in Loads /\ R.sheet = U /\ R.full = L.full /\ R.col = lc /\ R.row = lr
    <3>1. R = [L EXCEPT !.sheet = U, !.col = lc, !.row = lr]
      BY <1>2, <1>10 DEF G
    <3> QED BY <1>4, <2>1, <3>1 DEF Loads
  <2>3. /\ U.cell = T.cell /\ U.lastcol = T.lastcol /\ U.lastrow = T.lastrow
        /\ Paid(T) => Paid(U)
    BY <1>5, AlikeGood DEF Alike
  <2>4. ASSUME NEW q \in At, q # p, L.sheet.cell[p] = Blank
        PROVE  R.sheet.cell[q] = L.sheet.cell[q]
    BY <1>6, <2>2, <2>3, <2>4 DEF S
  <2>5. ASSUME NEW file \in Files, Loaded(L, file), L.sheet.cell[p] = Blank,
               p[1] <= file.lastcol, p[2] <= file.lastrow
        PROVE  Loaded(R, file)
    <3>1. /\ R.sheet = U /\ R.full = L.full /\ R.col = lc /\ R.row = lr /\ ~L.full
          /\ S = L.sheet
      BY <1>10, <2>2 DEF S
    <3>2. Paid(R.sheet)
      BY <1>6, <2>3, <2>5, <3>1 DEF Loaded
    <3>3. R.sheet.lastcol = file.lastcol /\ R.sheet.lastrow = file.lastrow
      BY <1>6, <2>3, <2>5, <3>1 DEF Loaded
    <3>4. R.col <= file.lastcol /\ R.row <= file.lastrow
      BY <1>4, <2>5, <3>1 DEF Loaded
    <3>5. ASSUME NEW q \in At, R.sheet.cell[q] # Blank
          PROVE  q[1] <= R.col /\ q[2] <= R.row
      <4>1. CASE q = p
        BY <1>4, <3>1, <4>1
      <4>2. CASE q # p
        <5>1. q[1] <= L.col /\ q[2] <= L.row /\ q[1] \in Int /\ q[2] \in Int
          BY <2>4, <2>5, <3>5, <4>2, TheCells DEF Loaded
        <5>2. lc \in Int /\ lr \in Int
          BY <1>3, <1>4
        <5> QED BY <1>3, <1>4, <3>1, <5>1, <5>2
      <4> QED BY <4>1, <4>2
    <3> QED BY <3>1, <3>2, <3>3, <3>4, <3>5 DEF Loaded
  <2> QED BY <2>2, <2>4, <2>5 DEF R
<1> QED BY <1>8, <1>9, <1>10

(* The places a file is written at are the cells up to its last column and row. *)
LEMMA FileCells ==
  ASSUME NEW S, S.lastcol \in 0 .. MaxCol, S.lastrow \in 0 .. MaxRow,
         NEW n, n = (S.lastcol + 1) * (S.lastrow + 1)
  PROVE  /\ n \in Nat /\ DOMAIN Written(S) = 1 .. n
         /\ \A i \in 1 .. n : /\ Written(S)[i] \in At
                              /\ Written(S)[i][1] <= S.lastcol /\ Written(S)[i][2] <= S.lastrow
         /\ \A i, j \in 1 .. n : Written(S)[i] = Written(S)[j] => i = j
<1> DEFINE q == ByRows(S)
           w == Written(S)
<1>1. /\ n \in Nat
      /\ \A i \in 1 .. n : q[i] \in At /\ q[i][1] \in 0 .. S.lastcol /\ q[i][2] \in 0 .. S.lastrow
      /\ \A i, j \in 1 .. n : q[i] = q[j] => i = j
  <2>1. n = Places(S)
    BY DEF Places
  <2> QED BY <2>1, RowPlaces
<1>2. /\ DOMAIN w = 1 .. n
      /\ \A i \in 1 .. n : /\ w[i] = <<S.lastcol - q[i][1], q[i][2]>>
                           /\ q[i] = <<q[i][1], q[i][2]>>
  BY DEF Written, ByRows
<1> HIDE DEF q, w
<1>3. ASSUME NEW i \in 1 .. n
      PROVE  w[i] \in At /\ w[i][1] <= S.lastcol /\ w[i][2] <= S.lastrow
  <2> DEFINE a == q[i][1]
             b == q[i][2]
             d == S.lastcol - a
  <2>1. a \in 0 .. S.lastcol /\ b \in 0 .. S.lastrow /\ w[i] = <<d, b>> /\ d = S.lastcol - a
    BY <1>1, <1>2
  <2> HIDE DEF a, b, d
  <2>2. d \in 0 .. MaxCol /\ b \in 0 .. MaxRow /\ d <= S.lastcol /\ b <= S.lastrow
    BY <2>1, Limits
  <2> QED BY <2>1, <2>2, TheCells
<1>4. ASSUME NEW i \in 1 .. n, NEW j \in 1 .. n, w[i] = w[j]
      PROVE  i = j
  <2>1. S.lastcol - q[i][1] = S.lastcol - q[j][1] /\ q[i][2] = q[j][2]
    BY <1>2, <1>4
  <2>2. q[i][1] \in Int /\ q[j][1] \in Int /\ S.lastcol \in Int
    BY <1>1
  <2>3. q[i][1] = q[j][1]
    BY <2>1, <2>2
  <2>4. q[i] = q[j]
    BY <1>2, <2>1, <2>3
  <2> QED BY <1>1, <2>4
<1> QED BY <1>1, <1>2, <1>3, <1>4 DEF w

LEMMA LoadGood ==
  ASSUME NEW S, Good(S), NEW file \in Files
  PROVE  Good(loadsheet(S, file))
<1> DEFINE n == (file.lastcol + 1) * (file.lastrow + 1)
           q == Written(file)
           start == [EmptySheet(Memory) EXCEPT !.width = file.width, !.lastcol = file.lastcol,
                                               !.lastrow = file.lastrow]
           base == [sheet |-> start, full |-> FALSE, col |-> 0, row |-> 0]
           X == Loads
           J == [k \in 0 .. n |-> {L \in X : Loaded(L, file) /\ \A i \in k + 1 .. n : L.sheet.cell[q[i]] = Blank}]
           body(T, i) == loadcell(T, q[i], file.cell[q[i]])
           h == [a \in X \X (1 .. n) |-> body(a[1], a[2])]
           F(it) == [s \in SUBSET (1 .. n) |->
                       IF s = {} THEN base ELSE body(it[s \ {Max(s)}], Max(s))]
           c == CHOOSE it : it = F(it)
<1>1. /\ file.cell \in [At -> Contents] /\ file.width \in [0 .. MaxCol -> Nat]
      /\ file.lastcol \in 0 .. MaxCol /\ file.lastrow \in 0 .. MaxRow
  BY ContentsAssumption
<1>2. /\ n \in Nat /\ DOMAIN q = 1 .. n
      /\ \A i \in 1 .. n : q[i] \in At /\ q[i][1] <= file.lastcol /\ q[i][2] <= file.lastrow
      /\ \A i, j \in 1 .. n : q[i] = q[j] => i = j
  BY <1>1, FileCells
<1>15. /\ start \in Sheets /\ start.lastcol = file.lastcol /\ start.lastrow = file.lastrow
      /\ Paid(start) /\ \A p \in At : start.cell[p] = Blank
  <2> DEFINE T == EmptySheet(Memory)
  <2>1. T \in Sheets /\ T.memleft = Memory /\ \A p \in At : T.cell[p] = Blank
    BY EmptyGood DEF Good
  <2>2. start = [T EXCEPT !.width = file.width, !.lastcol = file.lastcol,
                          !.lastrow = file.lastrow]
    OBVIOUS
  <2> HIDE DEF T, start
  <2>3. /\ start \in Sheets /\ start.lastcol = file.lastcol /\ start.lastrow = file.lastrow
        /\ start.cell = T.cell /\ start.memleft = T.memleft
    BY <1>1, <2>1, <2>2 DEF Sheets
  <2>4. Total(Taken(start), At) = 0
    BY <2>1, <2>3, AllBlank
  <2> QED BY <2>1, <2>3, <2>4, Limits DEF Paid
<1>3. base \in X /\ loadsheet(S, file) = c[1 .. n].sheet
  <2>1. loadsheet(S, file) = (CHOOSE it : it = [s \in SUBSET DOMAIN q |->
          IF s = {} THEN base ELSE body(it[s \ {Max(s)}], Max(s))])[DOMAIN q].sheet
    <3> DEFINE old == [clearsheet(S) EXCEPT !.width = file.width, !.lastcol = file.lastcol,
                                            !.lastrow = file.lastrow]
               first == [sheet |-> old, full |-> FALSE, col |-> 0, row |-> 0]
               run(b) == (CHOOSE it : it = [s \in SUBSET DOMAIN q |->
                            IF s = {} THEN b ELSE body(it[s \ {Max(s)}], Max(s))])[DOMAIN q].sheet
    <3>1. loadsheet(S, file) = run(first)
      BY DEF loadsheet, FoldLeft, MapThenFoldSet
    <3>2. first = base
      BY Cleans
    <3> HIDE DEF run, first, base
    <3>3. loadsheet(S, file) = run(base)
      BY <3>1, <3>2
    <3> QED BY <3>3 DEF run
  <2>2. base \in X
    <3> HIDE DEF start
    <3> QED BY <1>15, Limits DEF Loads
  <2> QED BY <1>2, <2>1, <2>2
<1> HIDE DEF start
<1> HIDE DEF n, q
<1>4. \A T \in X : \A i \in 1 .. n : body(T, i) \in X
  BY <1>1, <1>2, LoadCell
<1>5. \A T \in X : \A i \in 1 .. n : h[<<T, i>>] = body(T, i) /\ h[<<T, i>>] \in X
  <2> HIDE DEF X, body
  <2> QED BY <1>4
<1> HIDE DEF X, h, body
<1>6. c = F(c)
  <2>1. PICK e : Folded(e, n, X, base, h)
    BY <1>2, <1>3, <1>5, FoldExists
  <2>2. \A s \in SUBSET (1 .. n) : s # {} =>
          h[<<e[s \ {Max(s)}], Max(s)>>] = body(e[s \ {Max(s)}], Max(s))
    BY <1>5, <2>1 DEF Folded
  <2>3. e = F(e)
    BY <2>1, <2>2 DEF Folded
  <2> QED BY <2>3
<1> HIDE DEF c
<1>7. /\ c[{}] = base
      /\ \A s \in SUBSET (1 .. n) : s # {} /\ Max(s) \in 1 .. n /\ c[s \ {Max(s)}] \in X
                                    => c[s] = h[<<c[s \ {Max(s)}], Max(s)>>]
  BY <1>5, <1>6
<1>8. ASSUME NEW k \in 1 .. n, NEW T \in J[k - 1]
      PROVE  h[<<T, k>>] \in J[k]
  <2>1. k - 1 \in 0 .. n /\ k \in 0 .. n
    BY <1>2
  <2>2. /\ T \in X /\ Loaded(T, file)
        /\ \A i \in k .. n : T.sheet.cell[q[i]] = Blank
    <3>1. (k - 1) + 1 = k
      OBVIOUS
    <3> QED BY <1>8, <2>1, <3>1
  <2> DEFINE p == q[k]
             U == loadcell(T, p, file.cell[p])
  <2>3. /\ p \in At /\ p[1] <= file.lastcol /\ p[2] <= file.lastrow
        /\ T.sheet.cell[p] = Blank /\ file.cell[p] \in Contents
    BY <1>1, <1>2, <2>1, <2>2
  <2> HIDE DEF p
  <2>4. /\ U \in Loads /\ Loaded(U, file)
        /\ \A r \in At : r # p => U.sheet.cell[r] = T.sheet.cell[r]
    BY <2>2, <2>3, LoadCell DEF X
  <2> HIDE DEF U
  <2>5. ASSUME NEW i \in k + 1 .. n
        PROVE  U.sheet.cell[q[i]] = Blank
    <3>1. i \in 1 .. n /\ i \in k .. n /\ i # k
      BY <1>2, <2>1
    <3>2. q[i] \in At /\ q[i] # p
      BY <1>2, <3>1 DEF p
    <3> QED BY <2>2, <2>4, <3>1, <3>2
  <2>6. h[<<T, k>>] = U
    BY <1>5, <2>2 DEF body, p, U
  <2> QED BY <2>1, <2>4, <2>5, <2>6 DEF X
<1>9. base \in J[0] /\ \A k \in 0 .. n : J[k] \subseteq X
  <2>1. Loaded(base, file)
    <3>1. 0 <= file.lastcol /\ 0 <= file.lastrow
      BY <1>1
    <3> QED BY <1>15, <3>1 DEF Loaded
  <2>2. \A i \in 1 .. n : base.sheet.cell[q[i]] = Blank
    BY <1>15, <1>2
  <2>3. 0 \in 0 .. n /\ 0 + 1 = 1
    BY <1>2
  <2> HIDE DEF base
  <2> QED BY <1>3, <2>1, <2>2, <2>3
<1>10. c[1 .. n] \in J[n]
  <2> HIDE DEF J
  <2> QED BY <1>2, <1>7, <1>8, <1>9, FoldKeeps
<1>11. n \in 0 .. n
  BY <1>2
<1> DEFINE E == c[1 .. n]
<1>12. E \in Loads /\ Loaded(E, file)
  BY <1>10, <1>11 DEF X
<1> HIDE DEF E
<1>13. Within(E.sheet)
  <2> SUFFICES ASSUME NEW p \in At, E.sheet.cell[p] # Blank
               PROVE  p[1] <= E.sheet.lastcol /\ p[2] <= E.sheet.lastrow
    BY DEF Within
  <2>1. p[1] <= E.col /\ p[2] <= E.row /\ E.col <= file.lastcol /\ E.row <= file.lastrow
    BY <1>12 DEF Loaded
  <2>2. /\ p[1] \in Int /\ p[2] \in Int /\ E.col \in Int /\ E.row \in Int
        /\ file.lastcol \in Int /\ file.lastrow \in Int /\ E.full \in BOOLEAN
    BY <1>1, <1>12, TheCells DEF Loads
  <2> QED BY <1>12, <2>1, <2>2 DEF Loaded
<1>14. Good(E.sheet)
  BY <1>12, <1>13 DEF Good, Loads, Loaded
<1> QED BY <1>3, <1>14 DEF E


(* Widths and flags are no part of what is paid for. *)
LEMMA WidenedGood ==
  ASSUME NEW S, Good(S), NEW col \in 0 .. MaxCol, NEW w \in Nat
  PROVE  Good(widened(S, col, w))
<1> DEFINE n == S.lastrow + 1
           q == [r \in 1 .. S.lastrow + 1 |-> r - 1]
           start == [S EXCEPT !.width[col] = w]
           bare(T, r) == clearoflags(T, <<IF Is(T, <<col, r>>, "text") THEN col + 1 ELSE col, r>>)
           turn(T, r) == updateoflags(bare(T, r), <<col, r>>)
           X == {T \in Sheets : Good(T)}
           J == [k \in 0 .. n |-> X]
           body(T, i) == turn(T, q[i])
           h == [a \in X \X (1 .. n) |-> body(a[1], a[2])]
           F(it) == [s \in SUBSET (1 .. n) |->
                       IF s = {} THEN start ELSE body(it[s \ {Max(s)}], Max(s))]
           c == CHOOSE it : it = F(it)
<1>1. S \in Sheets /\ S.lastrow \in Nat
  BY DEF Good, Sheets
<1>2. n \in Nat /\ DOMAIN q = 1 .. n
  BY <1>1
<1>11. start \in X
  <2> DEFINE v == [S.width EXCEPT ![col] = w]
  <2>1. v \in [0 .. MaxCol -> Nat] /\ start = [S EXCEPT !.width = v]
    BY <1>1 DEF Sheets
  <2> HIDE DEF v, start
  <2>2. /\ start \in Sheets /\ start.cell = S.cell /\ start.memleft = S.memleft
        /\ start.lastcol = S.lastcol /\ start.lastrow = S.lastrow
    BY <1>1, <2>1 DEF Sheets
  <2>3. Taken(start) = Taken(S)
    BY <2>2 DEF Taken
  <2>4. Good(start)
    BY <2>2, <2>3 DEF Good, Paid, Within
  <2> QED BY <2>2, <2>4
<1>3. start \in X /\ widened(S, col, w) = c[1 .. n]
  <2>1. widened(S, col, w) = (CHOOSE it : it = [s \in SUBSET DOMAIN q |->
          IF s = {} THEN start ELSE body(it[s \ {Max(s)}], Max(s))])[DOMAIN q]
    BY DEF widened, FoldLeft, MapThenFoldSet
  <2> QED BY <1>2, <1>11, <2>1
<1> HIDE DEF start
<1> HIDE DEF n, q
<1>4. \A T \in X : \A i \in 1 .. n : body(T, i) \in X
  <2> SUFFICES ASSUME NEW T \in X, NEW r
               PROVE  turn(T, r) \in X
    OBVIOUS
  <2> DEFINE B == bare(T, r)
             V == turn(T, r)
  <2>1. T \in Sheets /\ Good(T)
    OBVIOUS
  <2>2. Alike(T, B)
    BY <2>1, FlagsOnly
  <2>3. Alike(B, V)
    <3> HIDE DEF bare
    <3> QED BY <2>2, FlagsOnly DEF Alike
  <2> HIDE DEF B, V
  <2>4. Good(V) /\ V \in Sheets
    BY <2>1, <2>2, <2>3, AlikeGood DEF Alike
  <2> QED BY <2>4 DEF V
<1>5. \A T \in X : \A i \in 1 .. n : h[<<T, i>>] = body(T, i) /\ h[<<T, i>>] \in X
  <2> HIDE DEF X, body
  <2> QED BY <1>4
<1> HIDE DEF X, h, body
<1>6. c = F(c)
  <2>1. PICK e : Folded(e, n, X, start, h)
    BY <1>2, <1>3, <1>5, FoldExists
  <2>2. \A s \in SUBSET (1 .. n) : s # {} =>
          h[<<e[s \ {Max(s)}], Max(s)>>] = body(e[s \ {Max(s)}], Max(s))
    BY <1>5, <2>1 DEF Folded
  <2>3. e = F(e)
    BY <2>1, <2>2 DEF Folded
  <2> QED BY <2>3
<1> HIDE DEF c
<1>7. /\ c[{}] = start
      /\ \A s \in SUBSET (1 .. n) : s # {} /\ Max(s) \in 1 .. n /\ c[s \ {Max(s)}] \in X
                                    => c[s] = h[<<c[s \ {Max(s)}], Max(s)>>]
  BY <1>5, <1>6
<1>8. ASSUME NEW k \in 1 .. n, NEW T \in J[k - 1]
      PROVE  h[<<T, k>>] \in J[k]
  <2>1. k - 1 \in 0 .. n /\ k \in 0 .. n
    BY <1>2
  <2> QED BY <1>5, <1>8, <2>1
<1>9. start \in J[0] /\ \A k \in 0 .. n : J[k] \subseteq X
  BY <1>2, <1>3
<1>10. c[1 .. n] \in J[n]
  <2> HIDE DEF J
  <2> QED BY <1>2, <1>7, <1>8, <1>9, FoldKeeps
<1>12. n \in 0 .. n
  BY <1>2
<1> QED BY <1>3, <1>10, <1>12 DEF X

-----------------------------------------------------------------------------
(* What the memory of the cells in use adds up to. *)
LEMMA SumOfCells ==
  ASSUME NEW S \in Sheets
  PROVE  MapThenSumSet(LAMBDA p : Size(S.cell[p]), Used(S)) = Total(Taken(S), At)
<1> DEFINE U == Used(S)
           w == Taken(S)
           F(it) == [s \in SUBSET U |->
                       IF s = {} THEN 0 ELSE Size(S.cell[Picked(s)]) + it[s \ {Picked(s)}]]
           c == CHOOSE it : it = F(it)
<1>1. MapThenSumSet(LAMBDA p : Size(S.cell[p]), U) = c[U]
  BY DEF MapThenSumSet, MapThenFoldSet, Picked
<1>2. U \subseteq At /\ Weighs(w, At) /\ \A p \in U : w[p] = Size(S.cell[p])
  BY TakenType DEF Used
<1>3. Weighs(w, U)
  BY <1>2, FS_Subset DEF Weighs
<1> HIDE DEF U, w
<1>4. \A it : F(it) = [s \in SUBSET U |->
                         IF s = {} THEN 0 ELSE w[Picked(s)] + it[s \ {Picked(s)}]]
  <2>1. \A s \in SUBSET U : s # {} => Picked(s) \in U
    BY DEF Picked
  <2> QED BY <1>2, <2>1
<1>5. \A it : Sums(it, w, U) <=> it = F(it)
  <2> HIDE DEF F
  <2> QED BY <1>4 DEF Sums
<1>6. Sums(c, w, U)
  <2>1. \E it : it = F(it)
    <3> HIDE DEF F
    <3> QED BY <1>3, <1>5, SumsExists
  <2> HIDE DEF F
  <2>2. c = F(c)
    BY <2>1
  <2> QED BY <1>5, <2>2
<1> HIDE DEF c
<1>7. c[U] = Total(w, U)
  BY <1>3, <1>6, SumsTotal
<1>8. Bars(w, U) = Bars(w, At)
  <2>1. \A p \in At : p \notin U => w[p] = 0
    BY TakenType, BlankIs, SizeType DEF U, w
  <2>2. ASSUME NEW q \in At \X Nat, 1 <= q[2], q[2] <= w[q[1]]
        PROVE  q \in U \X Nat
    <3>1. q[1] \in At /\ q[2] \in Nat /\ q = <<q[1], q[2]>>
      OBVIOUS
    <3>2. q[1] \in U
      BY <2>1, <2>2, <3>1
    <3> QED BY <3>1, <3>2
  <2>3. U \X Nat \subseteq At \X Nat
    BY <1>2
  <2> QED BY <2>2, <2>3 DEF Bars
<1> QED BY <1>1, <1>7, <1>8 DEF Total, U, w

LEMMA GoodAccounted == Good(sheet) => Accounted
  BY SumOfCells DEF Good, Paid, Accounted

LEMMA ChangeGood ==
  ASSUME ~Careless, Good(sheet), NEW action, NEW place, IsPlace(action, place),
         Change(action, place)
  PROVE  Good(sheet')
  BY ShiftedGood DEF Change

(* Every step of the sheet pays for what it takes. *)
LEMMA SheetStep ==
  ASSUME ~Careless, Good(sheet), [SheetNext]_sheetVars
  PROVE  Good(sheet')
<1>1. ASSUME NEW p \in At, Delete(p)
      PROVE  Good(sheet')
  <2> DEFINE T == deletecell(sheet, p)
  <2>1. Good(T)
    BY DeleteCell DEF Good
  <2>2. sheet' = recalcIf(T)
    BY <1>1 DEF Delete
  <2> HIDE DEF T
  <2> QED BY <2>1, <2>2, RecalcIfGood
<1>2. ASSUME NEW p \in At, NEW x \in Typed, Enter(p, x)
      PROVE  Good(sheet')
  <2>1. x \in Contents /\ x # Blank
    BY ContentsAssumption
  <2> QED BY <1>2, <2>1, ActGood DEF Enter
<1>3. ASSUME NEW c \in 0 .. MaxCol, InsertCol(c) \/ DeleteCol(c)
      PROVE  Good(sheet')
  <2>1. IsPlace("COLADD", c) /\ IsPlace("COLDEL", c)
    BY DEF IsPlace
  <2>2. Change("COLADD", c) \/ Change("COLDEL", c)
    BY <1>3 DEF InsertCol, DeleteCol
  <2> QED BY <2>1, <2>2, ChangeGood
<1>4. ASSUME NEW r \in 0 .. MaxRow, InsertRow(r) \/ DeleteRow(r)
      PROVE  Good(sheet')
  <2>1. IsPlace("ROWADD", r) /\ IsPlace("ROWDEL", r)
    BY DEF IsPlace
  <2>2. Change("ROWADD", r) \/ Change("ROWDEL", r)
    BY <1>4 DEF InsertRow, DeleteRow
  <2> QED BY <2>1, <2>2, ChangeGood
<1>5. ASSUME NEW c \in 0 .. MaxCol, NEW w \in Widths, SetColWidth(c, w)
      PROVE  Good(sheet')
  <2>1. w \in Nat
    BY Limits
  <2> QED BY <1>5, <2>1, WidenedGood DEF SetColWidth
<1>6. CASE Recalc \/ ChangeAutocalc
  BY <1>6, RecalcGood DEF Recalc, ChangeAutocalc
<1>7. CASE Clear
  BY <1>7, Cleans, EmptyGood DEF Clear
<1>8. ASSUME NEW file \in Files, Load(file)
      PROVE  Good(sheet')
  BY <1>8, LoadGood DEF Load
<1>9. CASE UNCHANGED sheetVars
  <2>1. sheet' = sheet
    BY <1>9 DEF sheetVars
  <2> QED BY <2>1
<1> QED BY <1>1, <1>2, <1>3, <1>4, <1>5, <1>6, <1>7, <1>8, <1>9 DEF SheetNext

(* THEOREM SheetAccounted: the free memory MicroCalc shows and what the cells
   take add up to the memory there was, after any number of entries, deletions,
   insertions, widenings, recalculations, clears and loads, with any sheet, cells
   and files; for users that insert and delete no column or row where
   fixformula goes wrong (Harmless). *)
THEOREM SheetAccounted == ~Careless => (SheetInit /\ [][SheetNext]_sheetVars => []Accounted)
<1> SUFFICES ASSUME ~Careless
             PROVE  SheetInit /\ [][SheetNext]_sheetVars => []Accounted
  OBVIOUS
<1>1. SheetInit => Good(sheet)
  BY EmptyGood DEF SheetInit
<1>2. Good(sheet) /\ [SheetNext]_sheetVars => Good(sheet)'
  <2>1. Good(sheet) /\ [SheetNext]_sheetVars => Good(sheet')
    BY SheetStep
  <2>2. Good(sheet') => Good(sheet)'
    BY DEF Good, Sheets, Paid, Within, Taken
  <2> QED BY <2>1, <2>2
<1>3. SheetInit /\ [][SheetNext]_sheetVars => []Good(sheet)
  BY <1>1, <1>2, PTL
<1> QED BY <1>3, GoodAccounted, PTL
=============================================================================
