---------------------------- MODULE PrintfProofs ----------------------------
(***************************************************************************)
(* For every format, every arguments, any text before and a screen of any  *)
(* size: what the screen shows, which arguments the scanner takes, where   *)
(* it passes the end of a format, and that a call prints what it means.    *)
(***************************************************************************)
EXTENDS Printf, NatLemmas, SequenceTheorems, FiniteSetTheorems

-----------------------------------------------------------------------------
\* Rows, one character at a time.
\* The provers know no literal as a member of STRING.
Digits == {"0", "1", "2", "3", "4", "5", "6", "7", "8", "9", "a", "b", "c", "d", "e", "f"}
Char == STRING \cup Digits \cup {Space, NUL, "-", "x", "W", "E", "P", "(", "n", "u", "l", ")"}
Step(done, c) ==
  LET row == done[Len(done)]
      grown == [done EXCEPT ![Len(done)] = Append(row, c)]
  IN  IF c \in LineBreaks THEN Append(done, <<>>)
      ELSE IF Len(row) = TTY_MAX_WIDTH - 1 THEN Append(grown, <<>>) ELSE grown
RowsBy(f, str, n) == f = [k \in 0..n |-> IF k = 0 THEN <<<<>>>> ELSE Step(f[k - 1], str[k])]

LEMMA RowsSteps ==
  ASSUME NEW n \in Nat, NEW str, NEW f, RowsBy(f, str, n)
  PROVE  /\ f[0] = <<<<>>>>
         /\ \A k \in 1..n : k - 1 \in 0..n /\ f[k] = Step(f[k - 1], str[k])
<1>1. \A k \in 0..n : f[k] = IF k = 0 THEN <<<<>>>> ELSE Step(f[k - 1], str[k])
  BY DEF RowsBy
<1>2. 0 \in 0..n /\ \A k \in 1..n : k \in 0..n /\ k # 0 /\ k - 1 \in 0..n
  OBVIOUS
<1> QED BY <1>1, <1>2

LEMMA RowsExist ==
  ASSUME NEW n \in Nat, NEW str
  PROVE  \E f : RowsBy(f, str, n)
<1> DEFINE Bad == {k \in Nat : ~ \E f : RowsBy(f, str, k)}
<1>1. SUFFICES ASSUME Bad # {} PROVE FALSE
  OBVIOUS
<1>2. PICK k \in Bad : \A j \in Bad : k <= j
  <2>1. Bad \in SUBSET Nat
    OBVIOUS
  <2> HIDE DEF Bad
  <2> QED BY <1>1, <2>1, LeastNatural
<1>3. CASE k = 0
  <2> DEFINE g == [j \in 0..0 |-> <<<<>>>>]
  <2>1. g = [j \in 0..0 |-> IF j = 0 THEN <<<<>>>> ELSE Step(g[j - 1], str[j])]
    OBVIOUS
  <2>2. RowsBy(g, str, 0)
    BY <2>1 DEF RowsBy
  <2> QED BY <1>2, <1>3, <2>2
<1>4. CASE k # 0
  <2>1. k - 1 \in Nat /\ k - 1 \notin Bad
    BY <1>2, <1>4
  <2>2. PICK f : RowsBy(f, str, k - 1)
    BY <2>1
  <2> DEFINE g == [j \in 0..k |-> IF j = k THEN Step(f[k - 1], str[k]) ELSE f[j]]
  <2>3. \A j \in 0..(k - 1) : g[j] = f[j]
    BY <2>1
  <2>4. g[k] = Step(f[k - 1], str[k])
    BY <2>1
  <2>5. g = [j \in 0..k |-> g[j]]
    OBVIOUS
  <2> HIDE DEF g
  <2>6. f[0] = <<<<>>>> /\ \A j \in 1..(k - 1) : j - 1 \in 0..(k - 1) /\ f[j] = Step(f[j - 1], str[j])
    BY <2>1, <2>2, RowsSteps
  <2>7. ASSUME NEW j \in 0..k PROVE g[j] = IF j = 0 THEN <<<<>>>> ELSE Step(g[j - 1], str[j])
    <3>1. CASE j = k
      <4>1. k - 1 \in 0..(k - 1)
        BY <2>1
      <4> QED BY <1>4, <2>3, <2>4, <3>1, <4>1
    <3>2. CASE j = 0
      <4>1. 0 \in 0..(k - 1)
        BY <2>1
      <4> QED BY <2>3, <2>6, <3>2, <4>1
    <3>3. CASE j # k /\ j # 0
      <4>1. j \in 0..(k - 1) /\ j \in 1..(k - 1)
        BY <2>1, <3>3
      <4> QED BY <2>3, <2>6, <3>3, <4>1
    <3> QED BY <3>1, <3>2, <3>3
  <2>8. RowsBy(g, str, k)
    BY <2>5, <2>7 DEF RowsBy
  <2> QED BY <1>2, <2>8
<1> QED BY <1>3, <1>4

\* What agrees on the first characters agrees on the rows.
LEMMA RowsAgree ==
  ASSUME NEW m \in Nat, NEW n \in Nat, m <= n, NEW s, NEW t, \A k \in 1..m : s[k] = t[k],
         NEW f, RowsBy(f, s, m), NEW g, RowsBy(g, t, n)
  PROVE  \A k \in 0..m : f[k] = g[k]
<1> DEFINE Bad == {k \in 0..m : f[k] # g[k]}
<1>1. SUFFICES ASSUME Bad # {} PROVE FALSE
  OBVIOUS
<1>2. PICK k \in Bad : \A j \in Bad : k <= j
  <2>1. Bad \in SUBSET Nat
    OBVIOUS
  <2> HIDE DEF Bad
  <2> QED BY <1>1, <2>1, LeastNatural
<1>3. k \in 0..m /\ f[k] # g[k]
  BY <1>2
<1>4. k # 0
  BY <1>3, RowsSteps
<1>5. k \in 1..m /\ k \in 1..n /\ k - 1 \in 0..m /\ ~(k <= k - 1)
  BY <1>3, <1>4
<1>6. f[k - 1] = g[k - 1]
  BY <1>2, <1>5
<1>7. f[k] = Step(f[k - 1], s[k]) /\ g[k] = Step(g[k - 1], t[k]) /\ s[k] = t[k]
  BY <1>5, RowsSteps
<1> QED BY <1>3, <1>6, <1>7

LEMMA RowsValue ==
  ASSUME NEW str \in Seq(Char), NEW f, RowsBy(f, str, Len(str))
  PROVE  Rows(str) = f[Len(str)]
<1> DEFINE P(h) == h = [n \in 0..Len(str) |->
             IF n = 0 THEN <<<<>>>>
             ELSE LET done == h[n - 1]
                      row == done[Len(done)]
                      grown == [done EXCEPT ![Len(done)] = Append(row, str[n])]
                  IN  IF str[n] \in LineBreaks THEN Append(done, <<>>)
                      ELSE IF Len(row) = TTY_MAX_WIDTH - 1 THEN Append(grown, <<>>) ELSE grown]
           g == CHOOSE h : P(h)
<1>1. Rows(str) = g[Len(str)]
  BY DEF Rows
<1>2. \A h : P(h) <=> RowsBy(h, str, Len(str))
  BY DEF RowsBy, Step
<1> HIDE DEF P
<1>3. P(g)
  BY <1>2, Zenon
<1> HIDE DEF g
<1>4. Len(str) \in Nat /\ Len(str) \in 0..Len(str)
  OBVIOUS
<1>5. g[Len(str)] = f[Len(str)]
  BY <1>2, <1>3, <1>4, RowsAgree
<1> QED BY <1>1, <1>5

LEMMA RowsEmpty == Rows(<<>>) = <<<<>>>>
<1>1. PICK f : RowsBy(f, <<>>, 0)
  BY RowsExist
<1>2. <<>> \in Seq(Char) /\ Len(<<>>) = 0
  OBVIOUS
<1> QED BY <1>1, <1>2, RowsValue, RowsSteps

LEMMA RowsNext ==
  ASSUME NEW str \in Seq(Char), NEW c \in Char
  PROVE  Rows(Append(str, c)) = Step(Rows(str), c)
<1> DEFINE n == Len(str)
           t == Append(str, c)
<1>1. n \in Nat /\ t \in Seq(Char) /\ Len(t) = n + 1 /\ t[n + 1] = c /\ \A k \in 1..n : str[k] = t[k]
  OBVIOUS
<1> HIDE DEF n, t
<1>2. PICK f : RowsBy(f, str, n)
  BY <1>1, RowsExist
<1>3. PICK m \in Nat : m = n + 1
  BY <1>1
<1>4. PICK g : RowsBy(g, t, m)
  BY <1>3, RowsExist
<1>5. f[n] = g[n]
  <2>1. n \in 0..n /\ n <= m
    BY <1>1, <1>3
  <2>2. \A k \in 1..n : str[k] = t[k]
    BY <1>1
  <2>3. \A k \in 0..n : f[k] = g[k]
    BY <1>1, <1>2, <1>3, <1>4, <2>1, <2>2, RowsAgree
  <2> QED BY <2>1, <2>3
<1>6. g[m] = Step(g[n], c)
  <2>1. m \in 1..m /\ m - 1 = n
    BY <1>1, <1>3
  <2> QED BY <1>1, <1>3, <1>4, <2>1, RowsSteps
<1> QED BY <1>1, <1>2, <1>3, <1>4, <1>5, <1>6, RowsValue DEF n, t

-----------------------------------------------------------------------------
\* Rows of text, the last of them not full, and what the screen shows of them.
Sheet(rows) == rows \in Seq(Seq(Char)) /\ Len(rows) # 0
Good(rows) == Sheet(rows) /\ Len(rows[Len(rows)]) < TTY_MAX_WIDTH

First(rows) == ((Len(rows) - 1) \div TTY_MAX_HEIGHT) * TTY_MAX_HEIGHT
CharOf(row, c) == IF c + 1 > Len(row) THEN Space ELSE row[c + 1]
CellOf(rows, l, c) ==
  IF First(rows) + l + 1 > Len(rows) THEN Space ELSE CharOf(rows[First(rows) + l + 1], c)
Picture(rows) ==
  [columns |-> Len(rows[Len(rows)]), lines |-> Len(rows) - 1 - First(rows),
   video |-> [i \in Cells |-> CellOf(rows, i \div TTY_MAX_WIDTH, i % TTY_MAX_WIDTH)]]

LEMMA LayoutShows == \A str : Layout(str) = Picture(Rows(str))
BY DEF Layout, Picture, CellOf, CharOf, First

\* The row of the screen the last of n rows is in.
LEMMA LastLine ==
  ASSUME NEW n \in Nat \ {0}, NEW h \in Nat \ {0}
  PROVE  LET first == ((n - 1) \div h) * h
             lines == n - 1 - first
         IN  /\ first \in Nat /\ lines \in 0..(h - 1) /\ first + lines = n - 1
             /\ (((n + 1) - 1) \div h) * h = IF lines + 1 >= h THEN n ELSE first
<1> DEFINE q == (n - 1) \div h
           r == (n - 1) % h
<1>1. q \in Nat /\ r \in 0..(h - 1) /\ n - 1 = h * q + r /\ n - 1 \in Nat
  OBVIOUS
<1> HIDE DEF r
<1>2. q * h = h * q /\ q * h \in Nat
  BY <1>1
<1>3. r = n - 1 - q * h
  <2> HIDE DEF q
  <2> QED BY <1>1, <1>2
<1>4. CASE r + 1 >= h
  <2>1. n = h * (q + 1) + 0 /\ q + 1 \in Nat /\ 0 \in 0..(h - 1)
    <3>1. h * (q + 1) = h * q + h /\ q + 1 \in Nat
      BY <1>1
    <3>2. r + 1 = h /\ n = (n - 1) + 1
      BY <1>1, <1>4
    <3> HIDE DEF q
    <3> QED BY <1>1, <1>2, <3>1, <3>2
  <2>2. n \div h = q + 1
    BY <2>1, QuotientOf
  <2>3. (q + 1) * h = n
    <3> HIDE DEF q
    <3> QED BY <1>1, <2>1
  <2>4. (n + 1) - 1 = n
    OBVIOUS
  <2> QED BY <1>1, <1>2, <1>3, <1>4, <2>2, <2>3, <2>4
<1>5. CASE ~(r + 1 >= h)
  <2>1. n = h * q + (r + 1) /\ r + 1 \in 0..(h - 1)
    <3> HIDE DEF q
    <3> QED BY <1>1, <1>2, <1>5
  <2>2. n \div h = q
    BY <1>1, <2>1, QuotientOf
  <2>3. (n + 1) - 1 = n
    OBVIOUS
  <2> QED BY <1>1, <1>2, <1>3, <1>5, <2>2, <2>3
<1> QED BY <1>4, <1>5

LEMMA SheetLines ==
  ASSUME NEW rows, Sheet(rows)
  PROVE  /\ Len(rows) \in Nat \ {0} /\ rows[Len(rows)] \in Seq(Char)
         /\ First(rows) \in Nat /\ Picture(rows).lines \in 0..(TTY_MAX_HEIGHT - 1)
         /\ First(rows) + Picture(rows).lines = Len(rows) - 1
         /\ \A more : Len(more) = Len(rows) + 1 =>
              First(more) = IF Picture(rows).lines + 1 >= TTY_MAX_HEIGHT THEN Len(rows) ELSE First(rows)
<1>1. Len(rows) \in Nat \ {0} /\ rows[Len(rows)] \in Seq(Char)
  BY DEF Sheet
<1>2. Picture(rows).lines = Len(rows) - 1 - First(rows)
  BY DEF Picture
<1> QED BY <1>1, <1>2, LastLine, TtyAssumption DEF First

\* A place of the screen, by row and column.
LEMMA Places ==
  ASSUME NEW i \in Cells
  PROVE  /\ i \div TTY_MAX_WIDTH \in 0..(TTY_MAX_HEIGHT - 1)
         /\ i % TTY_MAX_WIDTH \in 0..(TTY_MAX_WIDTH - 1)
         /\ i = (i \div TTY_MAX_WIDTH) * TTY_MAX_WIDTH + (i % TTY_MAX_WIDTH)
<1> DEFINE w == TTY_MAX_WIDTH
           h == TTY_MAX_HEIGHT
           q == i \div w
           r == i % w
<1>1. w \in Nat \ {0} /\ h \in Nat \ {0} /\ w * h \in Nat /\ i \in Nat /\ i < w * h
  BY TtyAssumption DEF Cells
<1> HIDE DEF w, h
<1>2. q \in Nat /\ r \in 0..(w - 1) /\ i = w * q + r
  BY <1>1
<1> HIDE DEF q, r
<1>3. q * w = w * q /\ q * w \in Nat
  BY <1>1, <1>2
<1>4. q < h
  <2>1. SUFFICES ASSUME q >= h PROVE FALSE
    BY <1>1, <1>2
  <2>2. q = h + (q - h) /\ q - h \in Nat
    BY <1>1, <1>2, <2>1
  <2>3. w * q = w * h + w * (q - h) /\ w * (q - h) \in Nat
    BY <1>1, <2>2
  <2> QED BY <1>1, <1>2, <2>3
<1>5. i = q * w + r
  BY <1>1, <1>2, <1>3
<1> QED BY <1>1, <1>2, <1>4, <1>5 DEF w, h, q, r

LEMMA PlaceOf ==
  ASSUME NEW l \in 0..(TTY_MAX_HEIGHT - 1), NEW c \in 0..(TTY_MAX_WIDTH - 1)
  PROVE  /\ l * TTY_MAX_WIDTH + c \in Cells
         /\ (l * TTY_MAX_WIDTH + c) \div TTY_MAX_WIDTH = l
         /\ (l * TTY_MAX_WIDTH + c) % TTY_MAX_WIDTH = c
<1> DEFINE w == TTY_MAX_WIDTH
           h == TTY_MAX_HEIGHT
<1>1. w \in Nat \ {0} /\ h \in Nat \ {0} /\ l \in Nat /\ l <= h - 1 /\ c \in 0..(w - 1)
  BY TtyAssumption
<1>2. l * w = w * l /\ w * l \in Nat
  BY <1>1
<1>3. l * w + c \in 0..(w * h - 1)
  <2>1. w * h = w * (l + 1) + w * (h - (l + 1)) /\ w * (l + 1) = w * l + w
        /\ w * (h - (l + 1)) \in Nat
    <3>1. h = (l + 1) + (h - (l + 1)) /\ h - (l + 1) \in Nat /\ l + 1 \in Nat
      BY <1>1
    <3>2. \A x, y, z \in Nat : x * (y + z) = x * y + x * z /\ x * y \in Nat
      OBVIOUS
    <3> QED BY <1>1, <3>1, <3>2
  <2> QED BY <1>1, <1>2, <2>1
<1>4. (w * l + c) \div w = l /\ (w * l + c) % w = c
  BY <1>1, QuotientOf, Modulo
<1> QED BY <1>2, <1>3, <1>4 DEF Cells

\* A cell, from the number of rows and the first of them that is shown.
LEMMA CellIs ==
  ASSUME NEW rows, NEW n \in Nat, Len(rows) = n, NEW first \in Nat, First(rows) = first,
         NEW l \in Nat, NEW c \in Nat
  PROVE  \A k \in Nat : k = first + l + 1 =>
           CellOf(rows, l, c) = IF k > n THEN Space ELSE CharOf(rows[k], c)
BY DEF CellOf

LEMMA EmptyRow ==
  ASSUME NEW row, Len(row) = 0, NEW c \in Nat
  PROVE  CharOf(row, c) = Space
BY DEF CharOf

LEMMA GrownRow ==
  ASSUME NEW row \in Seq(Char), NEW c \in Char
  PROVE  /\ CharOf(Append(row, c), Len(row)) = c
         /\ \A k \in Nat : k # Len(row) => CharOf(Append(row, c), k) = CharOf(row, k)
<1> DEFINE new == Append(row, c)
<1>1. /\ Len(row) \in Nat /\ Len(new) = Len(row) + 1 /\ new[Len(row) + 1] = c
      /\ \A k \in 1..Len(row) : new[k] = row[k]
  OBVIOUS
<1> HIDE DEF new
<1>2. CharOf(new, Len(row)) = c
  BY <1>1 DEF CharOf
<1>3. ASSUME NEW k \in Nat, k # Len(row) PROVE CharOf(new, k) = CharOf(row, k)
  <2>1. CASE k < Len(row)
    <3>1. k + 1 \in 1..Len(row) /\ ~(k + 1 > Len(new)) /\ ~(k + 1 > Len(row))
      BY <1>1, <2>1
    <3> QED BY <1>1, <3>1 DEF CharOf
  <2>2. CASE k > Len(row)
    <3>1. k + 1 > Len(new) /\ k + 1 > Len(row)
      BY <1>1, <2>2
    <3> QED BY <3>1 DEF CharOf
  <2> QED BY <1>1, <1>3, <2>1, <2>2
<1> QED BY <1>2, <1>3 DEF new

-----------------------------------------------------------------------------
\* putchar adds to the picture what Step adds to the rows.
LEMMA NewlineShows ==
  ASSUME NEW rows, Sheet(rows)
  PROVE  newline(Picture(rows)) = Picture(Append(rows, <<>>)) /\ Sheet(Append(rows, <<>>))
<1> DEFINE n == Len(rows)
           more == Append(rows, <<>>)
           p == Picture(rows)
<1>1. /\ n \in Nat \ {0} /\ Len(more) = n + 1 /\ more[n + 1] = <<>> /\ more \in Seq(Seq(Char))
      /\ \A k \in 1..n : more[k] = rows[k]
  <2>1. rows \in Seq(Seq(Char)) /\ <<>> \in Seq(Char)
    BY DEF Sheet
  <2> QED BY <2>1, SheetLines
<1>2. Sheet(more)
  BY <1>1 DEF Sheet
<1>3. /\ First(rows) \in Nat /\ p.lines \in 0..(TTY_MAX_HEIGHT - 1) /\ First(rows) + p.lines = n - 1
      /\ First(more) = IF p.lines + 1 >= TTY_MAX_HEIGHT THEN n ELSE First(rows)
  BY <1>1, SheetLines
<1> HIDE DEF more
<1>4. Len(more[Len(more)]) = 0 /\ Len(more) \in Nat
  BY <1>1
<1>5. /\ p = [columns |-> p.columns, lines |-> p.lines, video |-> p.video]
      /\ p.video = [i \in Cells |-> CellOf(rows, i \div TTY_MAX_WIDTH, i % TTY_MAX_WIDTH)]
  BY DEF Picture
<1> HIDE DEF p
<1>6. CASE p.lines + 1 >= TTY_MAX_HEIGHT
  <2>1. newline(p) = [columns |-> 0, lines |-> 0, video |-> [i \in Cells |-> Space]]
    BY <1>5, <1>6 DEF newline, cls
  <2>2. First(more) = n
    BY <1>3, <1>6
  <2>3. ASSUME NEW i \in Cells PROVE CellOf(more, i \div TTY_MAX_WIDTH, i % TTY_MAX_WIDTH) = Space
    <3>1. PICK l \in Nat, c \in Nat : l = i \div TTY_MAX_WIDTH /\ c = i % TTY_MAX_WIDTH
      BY Places
    <3>2. PICK k \in Nat : k = n + l + 1
      BY <1>1
    <3>3. k > n + 1 \/ k = n + 1
      BY <1>1, <3>2
    <3>4. CellOf(more, l, c) = IF k > n + 1 THEN Space ELSE CharOf(more[k], c)
      BY <1>1, <2>2, <3>2, CellIs
    <3>5. CharOf(more[n + 1], c) = Space
      BY <1>1, <1>4, EmptyRow
    <3> QED BY <3>1, <3>3, <3>4, <3>5
  <2>4. Len(more) - 1 - First(more) = 0
    BY <1>1, <2>2
  <2> QED BY <1>2, <1>4, <2>1, <2>3, <2>4 DEF Picture, more, p
<1>7. CASE ~(p.lines + 1 >= TTY_MAX_HEIGHT)
  <2>1. newline(p) = [columns |-> 0, lines |-> p.lines + 1, video |-> p.video]
    BY <1>5, <1>7 DEF newline
  <2>2. First(more) = First(rows)
    BY <1>3, <1>7
  <2>3. ASSUME NEW i \in Cells
        PROVE  CellOf(more, i \div TTY_MAX_WIDTH, i % TTY_MAX_WIDTH)
                 = CellOf(rows, i \div TTY_MAX_WIDTH, i % TTY_MAX_WIDTH)
    <3>1. PICK l \in Nat, c \in Nat : l = i \div TTY_MAX_WIDTH /\ c = i % TTY_MAX_WIDTH
      BY Places
    <3>2. PICK k \in Nat : k = First(rows) + l + 1 /\ k >= 1
      BY <1>3
    <3>3. CellOf(rows, l, c) = IF k > n THEN Space ELSE CharOf(rows[k], c)
      <4>1. n \in Nat /\ First(rows) \in Nat
        BY <1>1, <1>3
      <4> QED BY <3>2, <4>1, CellIs
    <3>4. CellOf(more, l, c) = IF k > n + 1 THEN Space ELSE CharOf(more[k], c)
      <4>1. n + 1 \in Nat /\ First(rows) \in Nat /\ Len(more) = n + 1
        BY <1>1, <1>3
      <4> QED BY <2>2, <3>2, <4>1, CellIs
    <3>5. k \in 1..n \/ k = n + 1 \/ k > n + 1
      BY <1>1, <3>2
    <3>6. CharOf(more[n + 1], c) = Space
      BY <1>1, <1>4, EmptyRow
    <3>7. CASE k \in 1..n
      BY <1>1, <3>1, <3>3, <3>4, <3>7
    <3>8. CASE k = n + 1 \/ k > n + 1
      BY <1>1, <3>1, <3>3, <3>4, <3>6, <3>8
    <3> QED BY <3>5, <3>7, <3>8
  <2>4. Len(more) - 1 - First(more) = p.lines + 1
    BY <1>1, <1>3, <2>2
  <2> QED BY <1>2, <1>4, <1>5, <2>1, <2>3, <2>4 DEF Picture, more, p
<1> QED BY <1>6, <1>7

LEMMA WriteIs ==
  ASSUME NEW columns, NEW lines, NEW video, NEW x, x = lines * TTY_MAX_WIDTH + columns, NEW c
  PROVE  Write([columns |-> columns, lines |-> lines, video |-> video], c)
           = [columns |-> columns + 1, lines |-> lines, video |-> [video EXCEPT ![x] = c]]
<1> DEFINE p == [columns |-> columns, lines |-> lines, video |-> video]
<1>1. p.columns = columns /\ p.lines = lines /\ p.video = video
  OBVIOUS
<1>2. Write(p, c) = [p EXCEPT !.video = [video EXCEPT ![x] = c], !.columns = columns + 1]
  BY <1>1, Zenon DEF Write
<1> QED BY <1>2

LEMMA WriteShows ==
  ASSUME NEW rows, Good(rows), NEW c \in Char
  PROVE  LET grown == [rows EXCEPT ![Len(rows)] = Append(rows[Len(rows)], c)]
         IN  /\ Write(Picture(rows), c) = Picture(grown) /\ Sheet(grown) /\ Len(grown) = Len(rows)
             /\ Len(grown[Len(rows)]) = Len(rows[Len(rows)]) + 1
<1> DEFINE n == Len(rows)
           row == rows[n]
           grown == [rows EXCEPT ![n] = Append(row, c)]
           p == Picture(rows)
           w == TTY_MAX_WIDTH
<1>1. /\ n \in Nat \ {0} /\ row \in Seq(Char) /\ Len(row) \in Nat /\ rows \in Seq(Seq(Char))
      /\ Len(row) <= w - 1
  BY SheetLines, TtyAssumption DEF Good, Sheet
<1>2. PICK new : new = Append(row, c)
  OBVIOUS
<1>3. /\ new \in Seq(Char) /\ Len(new) = Len(row) + 1 /\ new[Len(row) + 1] = c
      /\ \A k \in 1..Len(row) : new[k] = row[k]
  <2> HIDE DEF row
  <2> QED BY <1>1, <1>2
<1>4. /\ grown \in Seq(Seq(Char)) /\ Len(grown) = n /\ grown[n] = new
      /\ \A k \in 1..n : k # n => grown[k] = rows[k]
  <2>1. grown = [rows EXCEPT ![n] = new]
    BY <1>2
  <2>2. [rows EXCEPT ![n] = new] \in Seq(Seq(Char)) /\ Len([rows EXCEPT ![n] = new]) = n
    BY <1>1, <1>3
  <2> QED BY <1>1, <2>1, <2>2
<1>5. Sheet(grown)
  BY <1>1, <1>4 DEF Sheet
<1>6. /\ First(rows) \in Nat /\ p.lines \in 0..(TTY_MAX_HEIGHT - 1) /\ First(rows) + p.lines = n - 1
  BY SheetLines DEF Good
<1>7. First(grown) = First(rows)
  BY <1>4 DEF First
<1>8. /\ p = [columns |-> Len(row), lines |-> p.lines, video |-> p.video]
      /\ p.video = [i \in Cells |-> CellOf(rows, i \div w, i % w)]
      /\ p.lines = n - 1 - First(rows)
  BY DEF Picture
<1> HIDE DEF p, row, grown
<1>9. PICK x : x = p.lines * w + Len(row)
  OBVIOUS
<1>10. Len(row) \in 0..(w - 1)
  BY <1>1, TtyAssumption
<1>11. x \in Cells /\ x \div w = p.lines /\ x % w = Len(row)
  BY <1>6, <1>9, <1>10, PlaceOf
<1>12. Write(p, c) = [columns |-> Len(row) + 1, lines |-> p.lines, video |-> [p.video EXCEPT ![x] = c]]
  <2>1. PICK v : v = p.video
    OBVIOUS
  <2>2. PICK l : l = p.lines
    OBVIOUS
  <2>3. p = [columns |-> Len(row), lines |-> l, video |-> v] /\ x = l * w + Len(row)
    BY <1>8, <1>9, <2>1, <2>2
  <2>4. Write(p, c) = [columns |-> Len(row) + 1, lines |-> l, video |-> [v EXCEPT ![x] = c]]
    BY <2>3, WriteIs
  <2> QED BY <2>1, <2>2, <2>4
<1>13. ASSUME NEW i \in Cells
       PROVE  [p.video EXCEPT ![x] = c][i] = CellOf(grown, i \div w, i % w)
  <2>1. PICK l \in Nat, k \in Nat : l = i \div w /\ k = i % w /\ i = l * w + k
    BY Places
  <2>2. i # x => p.video[i] = CellOf(rows, l, k)
    BY <1>8, <2>1
  <2>3. PICK j \in Nat : j = First(rows) + l + 1 /\ j >= 1
    BY <1>6
  <2>7. CellOf(grown, l, k) = IF j > n THEN Space ELSE CharOf(grown[j], k)
    <3>1. n \in Nat /\ Len(grown) = n /\ First(rows) \in Nat /\ First(grown) = First(rows)
      BY <1>1, <1>4, <1>6, <1>7
    <3> QED BY <2>3, <3>1, CellIs
  <2>8. CellOf(rows, l, k) = IF j > n THEN Space ELSE CharOf(rows[j], k)
    BY <1>1, <1>6, <2>3, CellIs
  <2>4. CASE i = x
    <3>1. l = p.lines /\ k = Len(row) /\ j = n
      <4>1. l = p.lines /\ k = Len(row)
        BY <1>11, <2>1, <2>4, Zenon
      <4> QED BY <1>1, <1>6, <2>3, <4>1
    <3>2. CharOf(new, k) = c
      BY <1>1, <1>2, <3>1, GrownRow
    <3>3. CellOf(grown, l, k) = c
      BY <1>1, <1>4, <2>7, <3>1, <3>2
    <3>4. [p.video EXCEPT ![x] = c][i] = c
      BY <1>8, <2>4
    <3> QED BY <2>1, <3>3, <3>4
  <2>5. CASE i # x /\ j # n
    <3>1. CellOf(grown, l, k) = CellOf(rows, l, k)
      <4>1. CASE j > n
        BY <2>7, <2>8, <4>1
      <4>2. CASE ~(j > n)
        <5>1. j \in 1..n /\ grown[j] = rows[j]
          BY <1>1, <1>4, <2>3, <2>5, <4>2
        <5> QED BY <2>7, <2>8, <5>1
      <4> QED BY <4>1, <4>2
    <3> QED BY <1>8, <2>1, <2>2, <2>5, <3>1
  <2>6. CASE i # x /\ j = n
    <3>1. l = p.lines
      BY <1>1, <1>6, <2>3, <2>6
    <3>2. k # Len(row)
      BY <1>9, <2>1, <2>6, <3>1
    <3>3. CharOf(new, k) = CharOf(row, k)
      BY <1>1, <1>2, <3>2, GrownRow
    <3>4. ~(j > n) /\ rows[j] = row
      BY <1>1, <2>6 DEF row
    <3>5. CellOf(grown, l, k) = CellOf(rows, l, k)
      BY <1>4, <2>6, <2>7, <2>8, <3>3, <3>4
    <3> QED BY <1>8, <2>1, <2>2, <2>6, <3>5
  <2> QED BY <2>4, <2>5, <2>6
<1>14. [p.video EXCEPT ![x] = c] = [i \in Cells |-> CellOf(grown, i \div w, i % w)]
  BY <1>8, <1>13
<1>15. Write(p, c) = Picture(grown)
  BY <1>3, <1>4, <1>7, <1>8, <1>12, <1>14 DEF Picture
<1> QED BY <1>3, <1>4, <1>5, <1>15 DEF p, row, grown

LEMMA StepShows ==
  ASSUME NEW rows, Good(rows), NEW c \in Char
  PROVE  putchar(Picture(rows), c) = Picture(Step(rows, c)) /\ Good(Step(rows, c))
<1> DEFINE n == Len(rows)
           row == rows[n]
           grown == [rows EXCEPT ![n] = Append(row, c)]
<1>1. /\ Sheet(rows) /\ n \in Nat \ {0} /\ Len(row) \in Nat /\ Len(row) < TTY_MAX_WIDTH
      /\ Picture(rows).columns = Len(row) /\ TTY_MAX_WIDTH \in Nat \ {0}
  BY SheetLines, TtyAssumption DEF Good, Picture
<1>2. \A r : Sheet(r) => Good(Append(r, <<>>)) /\ newline(Picture(r)) = Picture(Append(r, <<>>))
  <2> TAKE r
  <2> HAVE Sheet(r)
  <2>1. newline(Picture(r)) = Picture(Append(r, <<>>)) /\ Sheet(Append(r, <<>>))
    BY NewlineShows
  <2>2. Len(Append(r, <<>>)[Len(Append(r, <<>>))]) = 0
    <3>1. r \in Seq(Seq(Char)) /\ <<>> \in Seq(Char)
      BY DEF Sheet
    <3> QED BY <3>1
  <2> QED BY <1>1, <2>1, <2>2 DEF Good
<1>3. CASE c \in LineBreaks
  BY <1>1, <1>2, <1>3 DEF putchar, Step
<1>4. CASE c \notin LineBreaks
  <2>1. /\ Write(Picture(rows), c) = Picture(grown) /\ Sheet(grown) /\ Len(grown) = n
        /\ Len(grown[n]) = Len(row) + 1
    BY WriteShows
  <2> HIDE DEF grown
  <2>2. CASE Len(row) = TTY_MAX_WIDTH - 1
    <3>1. Step(rows, c) = Append(grown, <<>>)
      BY <1>4, <2>2 DEF Step, grown
    <3>2. putchar(Picture(rows), c) = newline(Write(Picture(rows), c))
      BY <1>1, <1>4, <2>2 DEF putchar
    <3> QED BY <1>2, <2>1, <3>1, <3>2
  <2>3. CASE Len(row) # TTY_MAX_WIDTH - 1
    <3>1. Step(rows, c) = grown
      BY <1>4, <2>3 DEF Step, grown
    <3>2. putchar(Picture(rows), c) = Write(Picture(rows), c)
      BY <1>1, <1>4, <2>3 DEF putchar
    <3>3. Good(grown)
      BY <1>1, <2>1, <2>3 DEF Good
    <3> QED BY <2>1, <3>1, <3>2, <3>3
  <2> QED BY <2>2, <2>3
<1> QED BY <1>3, <1>4

-----------------------------------------------------------------------------
LEMMA FirstGood == Good(<<<<>>>>)
<1>1. <<>> \in Seq(Char)
  OBVIOUS
<1>2. <<<<>>>> \in Seq(Seq(Char)) /\ Len(<<<<>>>>) = 1 /\ <<<<>>>>[1] = <<>>
  BY <1>1
<1> QED BY <1>2, TtyAssumption DEF Good, Sheet

LEMMA RowsGood ==
  ASSUME NEW str \in Seq(Char)
  PROVE  Good(Rows(str))
<1>1. Len(str) \in Nat /\ \A k \in 1..Len(str) : str[k] \in Char
  OBVIOUS
<1>2. PICK n \in Nat : n = Len(str)
  BY <1>1
<1>3. PICK f : RowsBy(f, str, n)
  BY RowsExist
<1> DEFINE S == {k \in 0..n : Good(f[k])}
<1>4. 0 \in S
  BY <1>3, FirstGood, RowsSteps
<1>5. ASSUME NEW k \in 1..n, k - 1 \in S PROVE k \in S
  <2>1. f[k] = Step(f[k - 1], str[k])
    BY <1>3, RowsSteps
  <2>2. Good(f[k - 1]) /\ str[k] \in Char /\ k \in 0..n
    BY <1>1, <1>2, <1>5
  <2> QED BY <2>1, <2>2, StepShows
<1> HIDE DEF S
<1>6. \A k \in 0..n : k \in S
  BY <1>4, <1>5, UpTo
<1>7. n \in 0..n
  OBVIOUS
<1> QED BY <1>2, <1>3, <1>6, <1>7, RowsValue DEF S

LEMMA LayoutOfNothing == Layout(<<>>) = cls(Screen)
<1>1. Layout(<<>>) = Picture(<<<<>>>>)
  BY LayoutShows, RowsEmpty
<1>2. /\ Len(<<<<>>>>) = 1 /\ <<<<>>>>[1] = <<>> /\ Len(<<>>) = 0
  OBVIOUS
<1>3. PICK rows : rows = <<<<>>>>
  OBVIOUS
<1>4. Len(rows) = 1 /\ Len(rows[1]) = 0 /\ Sheet(rows)
  BY <1>2, <1>3, FirstGood DEF Good
<1>5. First(rows) = 0
  <2>1. First(rows) + Picture(rows).lines = 0 /\ First(rows) \in Nat /\ Picture(rows).lines \in Nat
    BY <1>4, SheetLines, TtyAssumption
  <2> QED BY <2>1
<1>6. ASSUME NEW i \in Cells PROVE CellOf(rows, i \div TTY_MAX_WIDTH, i % TTY_MAX_WIDTH) = Space
  <2>1. PICK l \in Nat, c \in Nat : l = i \div TTY_MAX_WIDTH /\ c = i % TTY_MAX_WIDTH
    BY Places
  <2>2. PICK k \in Nat : k = 0 + l + 1
    OBVIOUS
  <2>3. CellOf(rows, l, c) = IF k > 1 THEN Space ELSE CharOf(rows[k], c)
    <3>2. PICK one \in Nat : one = 1
      OBVIOUS
    <3>3. PICK zero \in Nat : zero = 0
      OBVIOUS
    <3>4. Len(rows) = one /\ First(rows) = zero /\ k = zero + l + 1
      BY <1>4, <1>5, <2>2, <3>2, <3>3
    <3>5. CellOf(rows, l, c) = IF k > one THEN Space ELSE CharOf(rows[k], c)
      BY <3>4, CellIs
    <3> QED BY <3>2, <3>5
  <2>4. k > 1 \/ k = 1
    BY <2>2
  <2>5. CharOf(rows[1], c) = Space
    BY <1>4, EmptyRow
  <2> QED BY <2>1, <2>3, <2>4, <2>5
<1>7. Picture(rows) = [columns |-> 0, lines |-> 0, video |-> [i \in Cells |-> Space]]
  <2>1. rows[Len(rows)] = rows[1] /\ Len(rows) - 1 - First(rows) = 0
    BY <1>4, <1>5
  <2> QED BY <1>4, <1>6, <2>1 DEF Picture
<1> QED BY <1>1, <1>3, <1>7 DEF cls, Screen

-----------------------------------------------------------------------------
\* puts, one character at a time.
PutsBy(f, screen, s, n) == f = [k \in 0..n |-> IF k = 0 THEN screen ELSE putchar(f[k - 1], s[k])]

LEMMA PutsLayout ==
  ASSUME NEW before \in Seq(Char), NEW s \in Seq(Char)
  PROVE  puts(Layout(before), s) = Layout(before \o s)
<1> DEFINE n == Len(s)
           so(k) == before \o SubSeq(s, 1, k)
           shown == [k \in 0..n |-> Layout(so(k))]
           P(h) == h = [k \in 0..Len(s) |-> IF k = 0 THEN Layout(before) ELSE putchar(h[k - 1], s[k])]
           g == CHOOSE h : P(h)
<1>1. n \in Nat /\ n \in 0..n
  OBVIOUS
<1>2. so(0) = before /\ so(n) = before \o s
  OBVIOUS
<1>3. ASSUME NEW k \in 1..n
      PROVE  k - 1 \in 0..n /\ k # 0 /\ k \in 0..n /\ shown[k] = putchar(shown[k - 1], s[k])
  <2>1. k - 1 \in 0..n /\ k # 0 /\ k \in 0..n
    BY <1>1
  <2>2. so(k) = Append(so(k - 1), s[k]) /\ so(k - 1) \in Seq(Char) /\ s[k] \in Char
    <3>1. SubSeq(s, 1, k - 1) \in Seq(Char) /\ s[k] \in Char
      BY <1>1
    <3>2. SubSeq(s, 1, k) = Append(SubSeq(s, 1, k - 1), s[k])
      BY <1>1
    <3>3. \A a, b \in Seq(Char), c \in Char : a \o Append(b, c) = Append(a \o b, c) /\ a \o b \in Seq(Char)
      OBVIOUS
    <3> QED BY <3>1, <3>2, <3>3
  <2> HIDE DEF so
  <2>3. Layout(so(k)) = putchar(Layout(so(k - 1)), s[k])
    BY <2>2, LayoutShows, RowsNext, RowsGood, StepShows
  <2> QED BY <2>1, <2>3
<1>4. shown[0] = Layout(before) /\ shown[n] = Layout(before \o s)
  <2>1. 0 \in 0..n
    BY <1>1
  <2> HIDE DEF so, n
  <2>2. shown[0] = Layout(so(0)) /\ shown[n] = Layout(so(n))
    BY <1>1, <2>1
  <2> QED BY <1>2, <2>2
<1>5. shown = [k \in 0..n |-> shown[k]]
  OBVIOUS
<1>6. \A k \in 0..n : k = 0 \/ k \in 1..n
  BY <1>1
<1> HIDE DEF shown, so
<1>7. P(shown)
  <2>1. ASSUME NEW k \in 0..n
        PROVE  shown[k] = IF k = 0 THEN Layout(before) ELSE putchar(shown[k - 1], s[k])
    BY <1>3, <1>4, <1>6
  <2> QED BY <1>5, <2>1
<1> HIDE DEF P
<1>8. P(g)
  BY <1>7, Zenon
<1>9. puts(Layout(before), s) = g[n]
  BY DEF puts, P
<1> HIDE DEF g
<1>10. \A k \in 0..n : g[k] = IF k = 0 THEN Layout(before) ELSE putchar(g[k - 1], s[k])
  BY <1>8 DEF P
<1> DEFINE S == {k \in 0..n : g[k] = shown[k]}
<1>11. 0 \in S
  BY <1>1, <1>4, <1>10
<1>12. \A k \in 1..n : k - 1 \in S => k \in S
  BY <1>3, <1>10
<1> HIDE DEF S, n
<1>13. \A k \in 0..n : k \in S
  BY <1>1, <1>11, <1>12, UpTo
<1> QED BY <1>1, <1>4, <1>9, <1>13 DEF S

-----------------------------------------------------------------------------
\* Rows as long as those of a text, without its characters.
Blanks(rows, blank) ==
  /\ Good(rows) /\ Good(blank) /\ Len(blank) = Len(rows)
  /\ \A j \in 1..Len(rows) : Len(blank[j]) = Len(rows[j]) /\ \A c \in Nat : CharOf(blank[j], c) = Space

LEMMA SpaceIs == Space \in Char /\ Space \notin LineBreaks
<1>1. Space \in Char
  BY DEF Char
<1>2. Space \notin LineBreaks
  BY DEF Space, LineBreaks
<1> QED BY <1>1, <1>2

LEMMA RowReplaced ==
  ASSUME NEW rows \in Seq(Seq(Char)), NEW n \in 1..Len(rows), NEW new \in Seq(Char),
         NEW grown, grown = [rows EXCEPT ![n] = new]
  PROVE  /\ grown \in Seq(Seq(Char)) /\ Len(grown) = Len(rows) /\ grown[n] = new
         /\ \A j \in 1..Len(rows) : j # n => grown[j] = rows[j]
OBVIOUS

LEMMA BlanksStep ==
  ASSUME NEW rows, NEW blank, Blanks(rows, blank), NEW c \in Char
  PROVE  Blanks(Step(rows, c), Step(blank, IF c \in LineBreaks THEN c ELSE Space))
<1> DEFINE n == Len(rows)
           d == IF c \in LineBreaks THEN c ELSE Space
           row == rows[n]
           brow == blank[n]
           grown == [rows EXCEPT ![n] = Append(row, c)]
           bgrown == [blank EXCEPT ![n] = Append(brow, Space)]
<1>1. d \in Char /\ (d \in LineBreaks <=> c \in LineBreaks) /\ (c \notin LineBreaks => d = Space)
  BY SpaceIs
<1>2. /\ n \in Nat \ {0} /\ Len(blank) = n
      /\ rows \in Seq(Seq(Char)) /\ blank \in Seq(Seq(Char))
      /\ Len(brow) = Len(row) /\ row \in Seq(Char) /\ brow \in Seq(Char) /\ Len(row) \in Nat
      /\ \A k \in Nat : CharOf(brow, k) = Space
  <2>1. Good(rows) /\ Good(blank) /\ Len(blank) = n
    BY DEF Blanks
  <2>2. n \in Nat \ {0} /\ n \in 1..n /\ rows \in Seq(Seq(Char)) /\ blank \in Seq(Seq(Char))
    BY <2>1 DEF Good, Sheet
  <2> QED BY <2>1, <2>2 DEF Blanks
<1>3. Good(Step(rows, c)) /\ Good(Step(blank, d))
  BY <1>1, StepShows DEF Blanks
<1> DEFINE Alike(r, b) ==
             /\ r \in Seq(Seq(Char)) /\ b \in Seq(Seq(Char)) /\ Len(b) = Len(r)
             /\ \A j \in 1..Len(r) : Len(b[j]) = Len(r[j]) /\ \A k \in Nat : CharOf(b[j], k) = Space
<1>4. Alike(rows, blank)
  BY <1>2 DEF Blanks
<1>5. \A r, b : Alike(r, b) => Alike(Append(r, <<>>), Append(b, <<>>))
  <2> TAKE r, b
  <2> HAVE Alike(r, b)
  <2>1. PICK m \in Nat : m = Len(r)
    OBVIOUS
  <2>2. PICK e : e = <<>> /\ e \in Seq(Char) /\ Len(e) = 0
    <3>1. <<>> \in Seq(Char) /\ Len(<<>>) = 0
      OBVIOUS
    <3> QED BY <3>1, Zenon
  <2>3. /\ Append(r, e) \in Seq(Seq(Char)) /\ Append(b, e) \in Seq(Seq(Char))
        /\ Len(Append(r, e)) = m + 1 /\ Len(Append(b, e)) = m + 1
        /\ Append(r, e)[m + 1] = e /\ Append(b, e)[m + 1] = e
        /\ \A j \in 1..m : Append(r, e)[j] = r[j] /\ Append(b, e)[j] = b[j]
    <3>1. r \in Seq(Seq(Char)) /\ b \in Seq(Seq(Char)) /\ Len(b) = m
      BY <2>1
    <3> HIDE DEF Alike
    <3> QED BY <2>1, <2>2, <3>1
  <2>4. \A k \in Nat : CharOf(e, k) = Space
    BY <2>2, EmptyRow
  <2>5. \A j \in 1..(m + 1) : j \in 1..m \/ j = m + 1
    OBVIOUS
  <2>6. \A j \in 1..m : Len(b[j]) = Len(r[j]) /\ \A k \in Nat : CharOf(b[j], k) = Space
    BY <2>1
  <2>7. ASSUME NEW j \in 1..(m + 1)
        PROVE  /\ Len(Append(b, e)[j]) = Len(Append(r, e)[j])
               /\ \A k \in Nat : CharOf(Append(b, e)[j], k) = Space
    <3> HIDE DEF Alike
    <3> QED BY <2>3, <2>4, <2>5, <2>6
  <2>8. Alike(Append(r, e), Append(b, e))
    BY <2>3, <2>7
  <2> QED BY <2>2, <2>8
<1>6. Alike(grown, bgrown)
  <2> DEFINE new == Append(row, c)
             bnew == Append(brow, Space)
  <2>1. new \in Seq(Char) /\ Len(new) = Len(row) + 1
    <3> HIDE DEF row
    <3> QED BY <1>2
  <2>2. bnew \in Seq(Char) /\ Len(bnew) = Len(row) + 1
    <3> HIDE DEF row, brow
    <3> QED BY <1>2, SpaceIs
  <2>3. \A k \in Nat : CharOf(bnew, k) = Space
    <3>1. CharOf(bnew, Len(brow)) = Space /\ \A k \in Nat : k # Len(brow) => CharOf(bnew, k) = CharOf(brow, k)
      BY <1>2, SpaceIs, GrownRow
    <3> QED BY <1>2, <3>1
  <2>4. grown = [rows EXCEPT ![n] = new] /\ bgrown = [blank EXCEPT ![n] = bnew]
    OBVIOUS
  <2> HIDE DEF row, brow, n, grown, bgrown, new, bnew
  <2>5. /\ grown \in Seq(Seq(Char)) /\ bgrown \in Seq(Seq(Char)) /\ Len(grown) = n /\ Len(bgrown) = n
        /\ grown[n] = new /\ bgrown[n] = bnew
        /\ \A j \in 1..n : j # n => grown[j] = rows[j] /\ bgrown[j] = blank[j]
    <3>1. Len(rows) = n /\ n \in 1..n
      BY <1>2 DEF n
    <3> HIDE DEF Alike
    <3> QED BY <1>2, <2>1, <2>2, <2>4, <3>1, RowReplaced
  <2>6. \A j \in 1..n : Len(blank[j]) = Len(rows[j]) /\ \A k \in Nat : CharOf(blank[j], k) = Space
    BY <1>4 DEF n
  <2>7. ASSUME NEW j \in 1..n
        PROVE  Len(bgrown[j]) = Len(grown[j]) /\ \A k \in Nat : CharOf(bgrown[j], k) = Space
    <3> HIDE DEF Alike
    <3>1. CASE j = n
      BY <2>1, <2>2, <2>3, <2>5, <3>1
    <3>2. CASE j # n
      BY <2>5, <2>6, <3>2
    <3> QED BY <3>1, <3>2
  <2> QED BY <2>5, <2>7
<1>7. c \notin LineBreaks => d = Space
  BY <1>1
<1> HIDE DEF d
<1>8. Alike(Step(rows, c), Step(blank, d))
  <2>1. CASE c \in LineBreaks
    <3>1. Step(rows, c) = Append(rows, <<>>) /\ Step(blank, d) = Append(blank, <<>>)
      BY <1>1, <2>1 DEF Step
    <3> HIDE DEF Alike
    <3> QED BY <1>4, <1>5, <3>1
  <2>2. CASE c \notin LineBreaks /\ Len(row) = TTY_MAX_WIDTH - 1
    <3>1. Step(rows, c) = Append(grown, <<>>) /\ Step(blank, d) = Append(bgrown, <<>>)
      BY <1>1, <1>2, <2>2 DEF Step
    <3> HIDE DEF Alike, grown, bgrown
    <3> QED BY <1>5, <1>6, <3>1
  <2>3. CASE c \notin LineBreaks /\ Len(row) # TTY_MAX_WIDTH - 1
    <3>1. Step(rows, c) = grown /\ Step(blank, d) = bgrown
      BY <1>1, <1>2, <2>3 DEF Step
    <3> HIDE DEF Alike, grown, bgrown
    <3> QED BY <1>6, <3>1
  <2> QED BY <2>1, <2>2, <2>3
<1> QED BY <1>3, <1>8 DEF Blanks, d

LEMMA ClsBlanks ==
  ASSUME NEW rows, NEW blank, Blanks(rows, blank)
  PROVE  cls(Picture(rows)) = Picture(blank)
<1>1. PICK n \in Nat \ {0} : n = Len(rows) /\ n = Len(blank) /\ Sheet(rows) /\ Sheet(blank)
  BY SheetLines DEF Blanks, Good
<1>2. First(rows) \in Nat /\ First(blank) = First(rows) /\ Len(blank[n]) = Len(rows[n])
  <2>1. First(rows) \in Nat /\ n \in 1..n
    BY <1>1, SheetLines
  <2>2. Len(blank[n]) = Len(rows[n])
    BY <1>1, <2>1 DEF Blanks
  <2> QED BY <1>1, <2>1, <2>2 DEF First
<1>3. \A j \in 1..n : \A c \in Nat : CharOf(blank[j], c) = Space
  BY <1>1 DEF Blanks
<1>4. ASSUME NEW i \in Cells PROVE CellOf(blank, i \div TTY_MAX_WIDTH, i % TTY_MAX_WIDTH) = Space
  <2>1. PICK l \in Nat, c \in Nat : l = i \div TTY_MAX_WIDTH /\ c = i % TTY_MAX_WIDTH
    BY Places
  <2>2. PICK k \in Nat : k = First(blank) + l + 1 /\ k >= 1
    BY <1>2
  <2>3. CellOf(blank, l, c) = IF k > n THEN Space ELSE CharOf(blank[k], c)
    BY <1>1, <1>2, <2>2, CellIs
  <2>4. CellOf(blank, l, c) = Space
    BY <1>3, <2>2, <2>3
  <2> QED BY <2>1, <2>4
<1>5. Picture(blank) = [columns |-> Len(rows[Len(rows)]), lines |-> Len(rows) - 1 - First(rows),
                        video |-> [i \in Cells |-> Space]]
  <2>1. Len(blank[Len(blank)]) = Len(rows[Len(rows)]) /\ Len(blank) - 1 - First(blank) = Len(rows) - 1 - First(rows)
    BY <1>1, <1>2
  <2> QED BY <1>4, <2>1 DEF Picture
<1>6. cls(Picture(rows)) = [columns |-> Len(rows[Len(rows)]), lines |-> Len(rows) - 1 - First(rows),
                           video |-> [i \in Cells |-> Space]]
  <2> DEFINE a == Len(rows[Len(rows)])
             b == Len(rows) - 1 - First(rows)
             v == [i \in Cells |-> CellOf(rows, i \div TTY_MAX_WIDTH, i % TTY_MAX_WIDTH)]
             e == [i \in Cells |-> Space]
  <2>1. Picture(rows) = [columns |-> a, lines |-> b, video |-> v]
    BY DEF Picture
  <2>2. cls(Picture(rows)) = [Picture(rows) EXCEPT !.video = e]
    BY DEF cls
  <2> HIDE DEF a, b, v, e
  <2>3. cls(Picture(rows)) = [columns |-> a, lines |-> b, video |-> e]
    BY <2>1, <2>2
  <2> QED BY <2>3 DEF a, b, e
<1> QED BY <1>5, <1>6

LEMMA ClsLayout ==
  ASSUME NEW before \in Seq(Char)
  PROVE  cls(Layout(before)) = Layout(Blanked(before)) /\ Blanked(before) \in Seq(Char)
         /\ Len(Blanked(before)) = Len(before)
<1>1. PICK n \in Nat : n = Len(before) /\ DOMAIN before = 1..n /\ \A k \in 1..n : before[k] \in Char
  OBVIOUS
<1>2. PICK b : b = Blanked(before)
  OBVIOUS
<1>3. b = [k \in 1..n |-> IF before[k] \in LineBreaks THEN before[k] ELSE Space]
  BY <1>1, <1>2 DEF Blanked
<1>4. \A k \in 1..n : b[k] = IF before[k] \in LineBreaks THEN before[k] ELSE Space
  BY <1>3
<1>5. b \in Seq(Char) /\ Len(b) = n
  BY <1>1, <1>3, SpaceIs
<1>6. PICK f : RowsBy(f, before, n)
  BY RowsExist
<1>7. PICK g : RowsBy(g, b, n)
  BY RowsExist
<1> DEFINE S == {k \in 0..n : Blanks(f[k], g[k])}
<1>8. 0 \in S
  <2>1. f[0] = <<<<>>>> /\ g[0] = <<<<>>>>
    BY <1>6, <1>7, RowsSteps
  <2>2. PICK r : r = <<<<>>>> /\ Len(r) = 1 /\ Len(r[1]) = 0 /\ Good(r)
    BY FirstGood
  <2>3. \A c \in Nat : CharOf(r[1], c) = Space
    BY <2>2, EmptyRow
  <2>4. \A j \in 1..1 : j = 1
    OBVIOUS
  <2>5. Blanks(r, r)
    BY <2>2, <2>3, <2>4 DEF Blanks
  <2> QED BY <2>1, <2>2, <2>5
<1>9. ASSUME NEW k \in 1..n, k - 1 \in S PROVE k \in S
  <2>1. f[k] = Step(f[k - 1], before[k]) /\ g[k] = Step(g[k - 1], b[k])
    BY <1>6, <1>7, RowsSteps
  <2>2. Blanks(f[k - 1], g[k - 1]) /\ before[k] \in Char /\ k \in 0..n
    BY <1>1, <1>9
  <2>3. Blanks(f[k], g[k])
    BY <1>4, <2>1, <2>2, BlanksStep
  <2> QED BY <2>2, <2>3
<1> HIDE DEF S
<1>10. n \in S
  <2>1. n \in 0..n
    OBVIOUS
  <2> QED BY <1>8, <1>9, <2>1, UpTo
<1>11. cls(Picture(f[n])) = Picture(g[n])
  BY <1>10, ClsBlanks DEF S
<1> QED BY <1>1, <1>2, <1>5, <1>6, <1>7, <1>11, LayoutShows, RowsValue

-----------------------------------------------------------------------------
\* The powers of two and the halves of a word.
LEMMA PowerDoubles == LONG \in Nat /\ Doubles(Power, LONG)
<1>1. PICK n \in Nat : n = LONG
  BY PrintfAssumption
<1>2. \E f : f = [k \in 0..n |-> IF k = 0 THEN 1 ELSE 2 * f[k - 1]]
  BY DoublesExists DEF Doubles
<1>3. Power = CHOOSE f : f = [k \in 0..n |-> IF k = 0 THEN 1 ELSE 2 * f[k - 1]]
  BY <1>1 DEF Power
<1>4. Doubles(Power, n)
  BY <1>2, <1>3, Zenon DEF Doubles
<1> QED BY <1>1, <1>4

LEMMA Powers ==
  /\ Power[LONG] \in Nat \ {0} /\ Power[INT] \in Nat \ {0} /\ Power[INT] <= Power[LONG]
<1>1. INT \in Nat /\ LONG \in Nat /\ INT <= LONG /\ INT \in 0..LONG /\ LONG \in 0..LONG
  BY PrintfAssumption
<1> QED BY <1>1, PowerDoubles, DoublesTyped, DoublesGrows

LEMMA Words32 ==
  ASSUME NEW w \in Nat
  PROVE  Low(w) \in Nat /\ SignExtend(w) \in Nat
<1>1. Low(w) \in Nat
  BY Powers DEF Low
<1>2. PICK a \in Nat, b \in Nat, c \in Nat : a = Low(w) /\ b = Power[LONG] /\ c = Power[INT] /\ c <= b
  BY <1>1, Powers
<1>3. SignExtend(w) = a + b - c \/ SignExtend(w) = a
  BY <1>2 DEF SignExtend
<1> QED BY <1>1, <1>2, <1>3

\* uitoa: digits, and as many of them as there are.
LEMMA DigitIs == \A d \in 0..15 : Digit(d) \in Digits
BY DEF Digit, Digits

UitoaBy(f, base, n) ==
  f = [v \in 0..n |-> IF v < base THEN <<Digit(v)>> ELSE <<Digit(v % base)>> \o f[v \div base]]

LEMMA Quotients ==
  ASSUME NEW base \in 2..16, NEW v \in Nat
  PROVE  /\ v % base \in 0..15 /\ v \div base \in Nat
         /\ ~(v < base) => v \div base <= v - 1 /\ v - 1 \in Nat
<1>1. v % base \in 0..(base - 1) /\ v \div base \in Nat /\ v = base * (v \div base) + (v % base)
  <2>1. base \in Nat \ {0}
    OBVIOUS
  <2> QED BY <2>1, DividedBy
<1>2. PICK q \in Nat, r \in Nat : q = v \div base /\ r = v % base /\ v = base * q + r
  BY <1>1
<1>3. base * q >= q + q
  BY <1>2
<1> QED BY <1>1, <1>2, <1>3

LEMMA UitoaExists ==
  ASSUME NEW base \in 2..16, NEW n \in Nat
  PROVE  \E f : UitoaBy(f, base, n)
<1> DEFINE S == {k \in 0..n : \E f : UitoaBy(f, base, k)}
<1>1. 0 \in S
  <2> DEFINE g == [v \in 0..0 |-> <<Digit(0)>>]
  <2>1. ASSUME NEW v \in 0..0 PROVE v < base /\ g[v] = <<Digit(v)>>
    OBVIOUS
  <2>2. g = [v \in 0..0 |-> g[v]]
    OBVIOUS
  <2> HIDE DEF g
  <2>3. UitoaBy(g, base, 0)
    BY <2>1, <2>2 DEF UitoaBy
  <2> QED BY <2>3
<1>2. ASSUME NEW k \in 1..n, k - 1 \in S PROVE k \in S
  <2>1. PICK f : UitoaBy(f, base, k - 1)
    BY <1>2
  <2> DEFINE new == IF k < base THEN <<Digit(k)>> ELSE <<Digit(k % base)>> \o f[k \div base]
             g == [v \in 0..k |-> IF v = k THEN new ELSE f[v]]
  <2>2. g[k] = new /\ (\A v \in 0..(k - 1) : g[v] = f[v]) /\ g = [v \in 0..k |-> g[v]]
    OBVIOUS
  <2> HIDE DEF g
  <2>3. \A v \in 0..(k - 1) :
          f[v] = IF v < base THEN <<Digit(v)>> ELSE <<Digit(v % base)>> \o f[v \div base]
    BY <2>1 DEF UitoaBy
  <2>4. ASSUME NEW v \in 0..k
        PROVE  g[v] = IF v < base THEN <<Digit(v)>> ELSE <<Digit(v % base)>> \o g[v \div base]
    <3>1. ~(v < base) => v \div base \in 0..(k - 1)
      <4>1. PICK q \in Nat : q = v \div base /\ (~(v < base) => q <= v - 1)
        BY Quotients
      <4> QED BY <4>1
    <3>2. ~(v < base) => g[v \div base] = f[v \div base]
      BY <2>2, <3>1
    <3>3. CASE v = k
      BY <2>2, <3>2, <3>3
    <3>4. CASE v # k
      <4>1. v \in 0..(k - 1)
        BY <3>4
      <4> QED BY <2>2, <2>3, <3>2, <4>1
    <3> QED BY <3>3, <3>4
  <2>5. UitoaBy(g, base, k)
    BY <2>2, <2>4 DEF UitoaBy
  <2> QED BY <2>5
<1> HIDE DEF S
<1>3. \A k \in 0..n : k \in S
  BY <1>1, <1>2, UpTo
<1> QED BY <1>3 DEF S

LEMMA BackwardsTyped ==
  ASSUME NEW base \in 2..16, NEW n \in Nat
  PROVE  Backwards(n, base) \in Seq(Char)
<1> DEFINE g == CHOOSE f : UitoaBy(f, base, n)
<1>1. Backwards(n, base) = g[n]
  BY DEF Backwards, UitoaBy
<1>2. UitoaBy(g, base, n)
  BY UitoaExists, Zenon
<1> HIDE DEF g
<1>3. \A v \in 0..n : g[v] = IF v < base THEN <<Digit(v)>> ELSE <<Digit(v % base)>> \o g[v \div base]
  BY <1>2 DEF UitoaBy
<1> DEFINE Bad == {v \in 0..n : g[v] \notin Seq(Char)}
<1>4. SUFFICES ASSUME Bad # {} PROVE FALSE
  <2>1. n \in 0..n
    OBVIOUS
  <2> QED BY <1>1, <2>1
<1>5. PICK v \in Bad : \A j \in Bad : v <= j
  <2>1. Bad \in SUBSET Nat
    OBVIOUS
  <2> HIDE DEF Bad
  <2> QED BY <1>4, <2>1, LeastNatural
<1>6. \A d \in 0..15 : Digit(d) \in Char /\ <<Digit(d)>> \in Seq(Char)
  <2>1. \A d \in 0..15 : Digit(d) \in Char
    BY DigitIs DEF Char
  <2> QED BY <2>1
<1>7. v \in 0..n /\ g[v] \notin Seq(Char)
  BY <1>5
<1>8. CASE v < base
  <2>1. v \in 0..15
    BY <1>7, <1>8
  <2> QED BY <1>3, <1>6, <1>7, <1>8, <2>1
<1>9. CASE ~(v < base)
  <2>1. PICK q \in Nat : q = v \div base /\ q <= v - 1
    BY <1>7, <1>9, Quotients
  <2>2. q \in 0..n /\ ~(v <= q)
    BY <1>7, <2>1
  <2>3. g[q] \in Seq(Char)
    BY <1>5, <2>2
  <2>4. v % base \in 0..15
    BY <1>7, Quotients
  <2>5. \A a, b \in Seq(Char) : a \o b \in Seq(Char)
    OBVIOUS
  <2>6. g[v] = <<Digit(v % base)>> \o g[q]
    BY <1>3, <1>7, <1>9, <2>1
  <2> QED BY <1>6, <1>7, <2>3, <2>4, <2>5, <2>6
<1> QED BY <1>8, <1>9

LEMMA UitoaTyped ==
  ASSUME NEW base \in 2..16, NEW n \in Nat
  PROVE  uitoa(n, base) \in Seq(Char)
<1>1. PICK buf \in Seq(Char) : buf = Backwards(n, base)
  BY BackwardsTyped
<1>2. Swapped(buf) \in Seq(Char)
  <2>1. PICK m \in Nat : m = Len(buf)
    OBVIOUS
  <2>2. ASSUME NEW k \in 1..m
        PROVE  (IF k <= m \div 2 \/ m - k + 1 <= m \div 2 THEN buf[m - k + 1] ELSE buf[k]) \in Char
    <3>1. m - k + 1 \in 1..m
      OBVIOUS
    <3> QED BY <2>1, <3>1
  <2> QED BY <2>1, <2>2 DEF Swapped
<1> QED BY <1>1, <1>2 DEF uitoa

LEMMA FmtnumTyped ==
  ASSUME NEW w \in Nat, NEW base \in {8, 10, 16}, NEW issigned \in BOOLEAN
  PROVE  fmtnum(w, base, issigned) \in Seq(Char)
<1>1. \A a, b \in Seq(Char) : a \o b \in Seq(Char)
  OBVIOUS
<1>2. base \in 2..16
  OBVIOUS
<1> DEFINE prefix == CASE base = 8 -> <<"0">> [] base = 16 -> <<"0", "x">> [] OTHER -> <<>>
<1>3. prefix \in Seq(Char) /\ <<"-">> \in Seq(Char)
  <2>1. {"0", "x", "-"} \subseteq Char
    BY DEF Char, Digits
  <2>2. <<"0">> \in Seq(Char) /\ <<"0", "x">> \in Seq(Char) /\ <<"-">> \in Seq(Char) /\ <<>> \in Seq(Char)
    BY <2>1
  <2> QED BY <2>2
<1>4. (Power[LONG] - w) % Power[LONG] \in Nat
  BY Powers
<1>5. uitoa(w, base) \in Seq(Char) /\ uitoa((Power[LONG] - w) % Power[LONG], base) \in Seq(Char)
  BY <1>2, <1>4, UitoaTyped
<1> DEFINE minus == uitoa((Power[LONG] - w) % Power[LONG], base)
           plus == uitoa(w, base)
<1>6. fmtnum(w, base, issigned) = <<"-">> \o prefix \o minus \/ fmtnum(w, base, issigned) = prefix \o plus
  BY DEF fmtnum
<1> HIDE DEF prefix, minus, plus
<1>7. <<"-">> \o prefix \o minus \in Seq(Char) /\ prefix \o plus \in Seq(Char)
  BY <1>1, <1>3, <1>5 DEF minus, plus
<1> QED BY <1>6, <1>7

LEMMA NumbersTyped ==
  ASSUME NEW c, NEW w \in Nat
  PROVE  fmtnum64(c, w) \in Seq(Char) /\ fmtnum32(c, w) \in Seq(Char)
<1>1. Base(c) \in {8, 10, 16} /\ (c \in {"d", "i"}) \in BOOLEAN
  BY DEF Base
<1>2. Low(w) \in Nat /\ SignExtend(w) \in Nat
  BY Words32
<1> QED BY <1>1, <1>2, FmtnumTyped DEF fmtnum64, fmtnum32

-----------------------------------------------------------------------------
\* The digits of a number.  uitoa takes them off the end, the numeral has each at
\* its place: both have as many, the same ones.
PlacesBy(f, base, n) == f = [k \in 0..n |-> IF k = 0 THEN 1 ELSE base * f[k - 1]]

LEMMA PlacesExist ==
  ASSUME NEW base \in 2..16, NEW n \in Nat
  PROVE  \E f : PlacesBy(f, base, n)
<1> DEFINE S == {k \in 0..n : \E f : PlacesBy(f, base, k)}
<1>1. 0 \in S
  <2> DEFINE g == [j \in 0..0 |-> 1]
  <2>1. g = [j \in 0..0 |-> IF j = 0 THEN 1 ELSE base * g[j - 1]]
    OBVIOUS
  <2> HIDE DEF g
  <2>2. PlacesBy(g, base, 0)
    BY <2>1 DEF PlacesBy
  <2> QED BY <2>2
<1>2. ASSUME NEW k \in 1..n, k - 1 \in S PROVE k \in S
  <2>1. PICK f : PlacesBy(f, base, k - 1)
    BY <1>2
  <2> DEFINE g == [j \in 0..k |-> IF j = k THEN base * f[k - 1] ELSE f[j]]
  <2>2. g[k] = base * f[k - 1] /\ (\A j \in 0..(k - 1) : g[j] = f[j]) /\ g = [j \in 0..k |-> g[j]]
    OBVIOUS
  <2> HIDE DEF g
  <2>3. \A j \in 0..(k - 1) : f[j] = IF j = 0 THEN 1 ELSE base * f[j - 1]
    BY <2>1 DEF PlacesBy
  <2>4. ASSUME NEW j \in 0..k PROVE g[j] = IF j = 0 THEN 1 ELSE base * g[j - 1]
    <3>1. CASE j = k
      <4>1. k - 1 \in 0..(k - 1) /\ k # 0
        OBVIOUS
      <4> QED BY <2>2, <3>1, <4>1
    <3>2. CASE j # k
      <4>1. j \in 0..(k - 1) /\ (j # 0 => j - 1 \in 0..(k - 1))
        BY <3>2
      <4> QED BY <2>2, <2>3, <4>1
    <3> QED BY <3>1, <3>2
  <2>5. PlacesBy(g, base, k)
    BY <2>2, <2>4 DEF PlacesBy
  <2> QED BY <2>5
<1> HIDE DEF S
<1>3. \A k \in 0..n : k \in S
  BY <1>1, <1>2, UpTo
<1> QED BY <1>3 DEF S

LEMMA PlaceValues ==
  ASSUME NEW base \in 2..16
  PROVE  /\ PlaceValue(base)[0] = 1
         /\ \A k \in 1..LONG : PlaceValue(base)[k] = base * PlaceValue(base)[k - 1]
         /\ \A k \in 0..LONG : PlaceValue(base)[k] \in Nat \ {0} /\ Power[k] <= PlaceValue(base)[k]
<1>1. PICK n \in Nat : n = LONG
  BY PrintfAssumption
<1>2. PICK g : g = PlaceValue(base)
  OBVIOUS
<1>3. g = CHOOSE f : f = [k \in 0..n |-> IF k = 0 THEN 1 ELSE base * f[k - 1]]
  BY <1>1, <1>2 DEF PlaceValue
<1>4. \E f : f = [k \in 0..n |-> IF k = 0 THEN 1 ELSE base * f[k - 1]]
  BY PlacesExist DEF PlacesBy
<1>5. g = [k \in 0..n |-> IF k = 0 THEN 1 ELSE base * g[k - 1]]
  BY <1>3, <1>4, Zenon
<1>6. \A k \in 0..n : g[k] = IF k = 0 THEN 1 ELSE base * g[k - 1]
  BY <1>5
<1>7. g[0] = 1 /\ \A k \in 1..n : g[k] = base * g[k - 1]
  BY <1>6
<1> DEFINE S == {k \in 0..n : g[k] \in Nat \ {0} /\ Power[k] <= g[k]}
<1>8. \A k \in 0..n : Power[k] = (IF k = 0 THEN 1 ELSE 2 * Power[k - 1]) /\ Power[k] \in Nat
  BY <1>1, PowerDoubles, DoublesSteps, DoublesTyped
<1>9. 0 \in S
  BY <1>7, <1>8
<1>10. ASSUME NEW k \in 1..n, k - 1 \in S PROVE k \in S
  <2>1. PICK a \in Nat \ {0}, p \in Nat : a = g[k - 1] /\ p = Power[k - 1] /\ p <= a
    BY <1>8, <1>10
  <2>2. g[k] = base * a /\ Power[k] = 2 * p
    BY <1>7, <1>8, <2>1
  <2>3. base * a >= 2 * a /\ base * a \in Nat
    <3>1. \A x \in 2..16, y \in Nat \ {0} : x * y >= 2 * y /\ x * y \in Nat
      OBVIOUS
    <3> QED BY <3>1
  <2> QED BY <2>1, <2>2, <2>3
<1> HIDE DEF S
<1>11. \A k \in 0..n : k \in S
  BY <1>9, <1>10, UpTo
<1> QED BY <1>1, <1>2, <1>7, <1>11 DEF S

\* Dividing twice is dividing by the product.
LEMMA DividedTwice ==
  ASSUME NEW v \in Nat, NEW b \in Nat \ {0}, NEW m \in Nat \ {0}
  PROVE  (v \div b) \div m = v \div (b * m)
<1>1. PICK q \in Nat, r \in 0..(b - 1) : q = v \div b /\ v = b * q + r
  BY DividedBy
<1>2. PICK s \in Nat, t \in 0..(m - 1) : s = q \div m /\ q = m * s + t
  BY DividedBy
<1>3. PICK c \in Nat, p \in Nat \ {0} : c = b * t + r /\ p = b * m
  OBVIOUS
<1>4. c <= p - 1
  <2>1. b * t <= b * (m - 1) /\ b * (m - 1) = b * m - b
    OBVIOUS
  <2> QED BY <1>3, <2>1
<1>5. v = p * s + c
  <2>1. b * q = b * (m * s) + b * t /\ b * (m * s) = (b * m) * s
    BY <1>2
  <2> QED BY <1>1, <1>3, <2>1
<1>6. v \div p = s
  BY <1>3, <1>4, <1>5, QuotientOf
<1> QED BY <1>1, <1>2, <1>3, <1>6

\* How many digits a number has, and that LONG suffice.
Long(v, base, n) ==
  n \in 1..LONG /\ PlaceValue(base)[n] > v /\ (n = 1 \/ PlaceValue(base)[n - 1] <= v)

LEMMA LongEnough ==
  ASSUME NEW base \in 2..16, NEW v \in Nat, v < Power[LONG]
  PROVE  \E n \in 1..LONG : Long(v, base, n)
<1> DEFINE T == {k \in 1..LONG : PlaceValue(base)[k] > v}
<1>1. LONG \in Nat /\ LONG \in 1..LONG /\ LONG \in 0..LONG
  BY PrintfAssumption
<1>2. LONG \in T
  <2>1. PICK p \in Nat, q \in Nat : p = Power[LONG] /\ q = PlaceValue(base)[LONG] /\ p <= q
    BY <1>1, PlaceValues, Powers
  <2> QED BY <1>1, <2>1
<1>3. PICK n \in T : \A m \in T : n <= m
  <2>1. T \in SUBSET Nat
    OBVIOUS
  <2> HIDE DEF T
  <2> QED BY <1>2, <2>1, LeastNatural
<1>4. n \in 1..LONG /\ PlaceValue(base)[n] > v
  BY <1>3
<1>5. n # 1 => PlaceValue(base)[n - 1] <= v
  <2>1. SUFFICES ASSUME n # 1, ~(PlaceValue(base)[n - 1] <= v) PROVE FALSE
    OBVIOUS
  <2>2. n - 1 \in 1..LONG /\ n - 1 \in 0..LONG /\ ~(n <= n - 1)
    BY <1>1, <1>4, <2>1
  <2>3. PlaceValue(base)[n - 1] \in Nat
    BY <2>2, PlaceValues
  <2>4. n - 1 \in T
    BY <2>1, <2>2, <2>3
  <2> QED BY <1>3, <2>2, <2>4
<1> QED BY <1>4, <1>5 DEF Long

\* Claim: f, the digits as uitoa finds them, has those of v for every v with k of them.
Digital(f, base, top, k) ==
  \A v \in 0..top : Long(v, base, k) =>
    /\ f[v] \in Seq(Digits) /\ Len(f[v]) = k
    /\ \A j \in 1..k : f[v][j] = Digit((v \div PlaceValue(base)[j - 1]) % base)

LEMMA OneDigit ==
  ASSUME NEW base \in 2..16, NEW top \in Nat, NEW f, UitoaBy(f, base, top)
  PROVE  Digital(f, base, top, 1)
<1> SUFFICES ASSUME NEW v \in 0..top, Long(v, base, 1)
             PROVE  /\ f[v] \in Seq(Digits) /\ Len(f[v]) = 1
                    /\ \A j \in 1..1 : f[v][j] = Digit((v \div PlaceValue(base)[j - 1]) % base)
  BY DEF Digital
<1>1. 1 \in 1..LONG /\ PlaceValue(base)[1] > v
  BY DEF Long
<1>2. PlaceValue(base)[0] = 1 /\ PlaceValue(base)[1] = base
  <2>1. PlaceValue(base)[1] = base * PlaceValue(base)[1 - 1]
    BY <1>1, PlaceValues
  <2> QED BY <2>1, PlaceValues
<1>3. v < base
  BY <1>1, <1>2
<1>4. f[v] = <<Digit(v)>>
  BY <1>3 DEF UitoaBy
<1>5. v \div 1 = v /\ v % base = v /\ v \in 0..15
  BY <1>3
<1>6. Digit(v) \in Digits
  BY <1>5, DigitIs
<1>7. ASSUME NEW j \in 1..1 PROVE f[v][j] = Digit((v \div PlaceValue(base)[j - 1]) % base)
  <2>1. j = 1 /\ j - 1 = 0
    OBVIOUS
  <2>2. (v \div PlaceValue(base)[j - 1]) % base = v
    BY <1>2, <1>5, <2>1
  <2> QED BY <1>4, <2>1, <2>2
<1> QED BY <1>4, <1>6, <1>7

LEMMA OneDigitMore ==
  ASSUME NEW base \in 2..16, NEW top \in Nat, NEW f, UitoaBy(f, base, top),
         NEW k \in 2..LONG, Digital(f, base, top, k - 1)
  PROVE  Digital(f, base, top, k)
<1> SUFFICES ASSUME NEW v \in 0..top, Long(v, base, k)
             PROVE  /\ f[v] \in Seq(Digits) /\ Len(f[v]) = k
                    /\ \A j \in 1..k : f[v][j] = Digit((v \div PlaceValue(base)[j - 1]) % base)
  BY DEF Digital
<1>1. LONG \in Nat /\ k - 1 \in 1..LONG /\ k \in 1..LONG /\ k - 2 \in 0..LONG /\ k - 1 \in 0..LONG
      /\ (k - 1) - 1 = k - 2
  BY PrintfAssumption
<1>2. PICK a \in Nat \ {0}, b \in Nat \ {0}, c \in Nat \ {0} :
        /\ a = PlaceValue(base)[k - 2] /\ b = PlaceValue(base)[k - 1] /\ c = PlaceValue(base)[k]
        /\ b = base * a /\ c = base * b
  <2>1. PICK g : g = PlaceValue(base)
    OBVIOUS
  <2>2. g[k] = base * g[k - 1] /\ g[k - 1] = base * g[(k - 1) - 1]
    BY <1>1, <2>1, PlaceValues
  <2>3. g[k - 2] \in Nat \ {0} /\ g[k - 1] \in Nat \ {0} /\ g[k] \in Nat \ {0}
    <3>1. k \in 0..LONG
      BY <1>1
    <3> QED BY <1>1, <2>1, <3>1, PlaceValues
  <2> QED BY <1>1, <2>1, <2>2, <2>3
<1>3. b <= v /\ v < c
  BY <1>1, <1>2 DEF Long
<1>4. PICK q \in Nat, r \in 0..(base - 1) : q = v \div base /\ r = v % base /\ v = base * q + r
  <2>1. base \in Nat \ {0} /\ v \in Nat
    OBVIOUS
  <2>2. v \div base \in Nat /\ v % base \in 0..(base - 1) /\ v = base * (v \div base) + (v % base)
    BY <2>1, DividedBy
  <2> QED BY <2>2
<1>5. a <= q
  <2>1. SUFFICES ASSUME q < a PROVE FALSE
    BY <1>2, <1>4
  <2>2. base * q + base <= base * a
    <3>1. \A x \in 2..16, y, z \in Nat : y < z => x * y + x <= x * z
      OBVIOUS
    <3> QED BY <1>2, <1>4, <2>1, <3>1
  <2> QED BY <1>2, <1>3, <1>4, <2>2
<1>6. q < b
  <2>1. SUFFICES ASSUME b <= q PROVE FALSE
    BY <1>2, <1>4
  <2>2. base * b <= base * q
    <3>1. \A x \in 2..16, y, z \in Nat : y <= z => x * y <= x * z
      OBVIOUS
    <3> QED BY <1>2, <1>4, <2>1, <3>1
  <2> QED BY <1>2, <1>3, <1>4, <2>2
<1>7. ~(v < base) /\ q <= v
  <2>1. base <= base * a /\ q <= base * q
    BY <1>2, <1>4
  <2> QED BY <1>2, <1>3, <1>4, <2>1
<1>8. Long(q, base, k - 1) /\ q \in 0..top
  <2>1. PlaceValue(base)[(k - 1) - 1] <= q /\ PlaceValue(base)[k - 1] > q
    BY <1>1, <1>2, <1>5, <1>6
  <2> QED BY <1>1, <1>4, <1>7, <2>1 DEF Long
<1>9. /\ f[q] \in Seq(Digits) /\ Len(f[q]) = k - 1
      /\ \A j \in 1..(k - 1) : f[q][j] = Digit((q \div PlaceValue(base)[j - 1]) % base)
  BY <1>8 DEF Digital
<1>10. f[v] = <<Digit(r)>> \o f[q]
  BY <1>4, <1>7 DEF UitoaBy
<1>11. Digit(r) \in Digits
  <2>1. r \in 0..15
    OBVIOUS
  <2> QED BY <2>1, DigitIs
<1>12. f[v] \in Seq(Digits) /\ Len(f[v]) = k
       /\ f[v][1] = Digit(r) /\ \A j \in 2..k : f[v][j] = f[q][j - 1]
  <2>1. PICK d \in Digits : d = Digit(r)
    BY <1>11
  <2>2. PICK s \in Seq(Digits) : s = f[q] /\ Len(s) = k - 1
    BY <1>9
  <2>3. <<d>> \o s \in Seq(Digits) /\ Len(<<d>> \o s) = k /\ (<<d>> \o s)[1] = d
    BY <2>2
  <2>4. \A j \in 2..k : (<<d>> \o s)[j] = s[j - 1]
    BY <2>2
  <2> QED BY <1>10, <2>1, <2>2, <2>3, <2>4
<1>13. ASSUME NEW j \in 1..k PROVE f[v][j] = Digit((v \div PlaceValue(base)[j - 1]) % base)
  <2>1. CASE j = 1
    <3>1. PlaceValue(base)[j - 1] = 1
      BY <2>1, PlaceValues
    <3>2. v \div PlaceValue(base)[j - 1] = v
      BY <3>1
    <3> QED BY <1>4, <1>12, <2>1, <3>2
  <2>2. CASE j # 1
    <3>1. j - 1 \in 1..(k - 1) /\ j \in 2..k /\ j - 1 \in 1..LONG /\ (j - 1) - 1 \in 0..LONG
      BY <1>1, <2>2
    <3>2. PICK p \in Nat \ {0} : p = PlaceValue(base)[(j - 1) - 1] /\ PlaceValue(base)[j - 1] = base * p
      BY <3>1, PlaceValues
    <3>3. q \div p = v \div (base * p)
      <4>1. base \in Nat \ {0} /\ v \in Nat
        OBVIOUS
      <4> QED BY <1>4, <4>1, DividedTwice
    <3>4. f[q][j - 1] = Digit((q \div p) % base)
      BY <1>9, <3>1, <3>2
    <3>5. f[v][j] = f[q][j - 1]
      BY <1>12, <3>1
    <3> QED BY <3>2, <3>3, <3>4, <3>5
  <2> QED BY <2>1, <2>2
<1> QED BY <1>12, <1>13

LEMMA AllDigits ==
  ASSUME NEW base \in 2..16, NEW v \in Nat, NEW k, Long(v, base, k)
  PROVE  /\ Backwards(v, base) \in Seq(Digits) /\ Len(Backwards(v, base)) = k
         /\ \A j \in 1..k : Backwards(v, base)[j] = Digit((v \div PlaceValue(base)[j - 1]) % base)
<1>0. PICK n \in Nat : n = LONG
  BY PrintfAssumption
<1>1. PICK f : UitoaBy(f, base, v) /\ Backwards(v, base) = f[v]
  <2> DEFINE g == CHOOSE f : UitoaBy(f, base, v)
  <2>1. Backwards(v, base) = g[v]
    BY DEF Backwards, UitoaBy
  <2>2. UitoaBy(g, base, v)
    BY UitoaExists, Zenon
  <2> HIDE DEF g
  <2> QED BY <2>1, <2>2
<1> DEFINE S == {j \in 0..n : j # 0 => Digital(f, base, v, j)}
<1>2. 0 \in S
  OBVIOUS
<1>3. ASSUME NEW j \in 1..n, j - 1 \in S PROVE j \in S
  <2>1. j \in 0..n
    OBVIOUS
  <2>2. CASE j = 1
    BY <1>1, <2>1, <2>2, OneDigit
  <2>3. CASE j # 1
    <3>1. j \in 2..LONG /\ j - 1 # 0
      BY <1>0, <2>3
    <3>2. Digital(f, base, v, j - 1)
      BY <1>3, <3>1
    <3> QED BY <1>1, <2>1, <3>1, <3>2, OneDigitMore
  <2> QED BY <2>2, <2>3
<1> HIDE DEF S
<1>4. \A j \in 0..n : j \in S
  BY <1>2, <1>3, UpTo
<1>5. k \in 0..n /\ k # 0
  BY <1>0 DEF Long
<1>6. Digital(f, base, v, k) /\ v \in 0..v
  BY <1>4, <1>5 DEF S
<1> QED BY <1>1, <1>6 DEF Digital

\* Swapping pairs up to the middle turns the digits round.
LEMMA SwappedAll ==
  ASSUME NEW buf \in Seq(Digits), NEW n, n = Len(buf)
  PROVE  Swapped(buf) = [k \in 1..n |-> buf[n - k + 1]]
<1>1. n \in Nat
  OBVIOUS
<1>2. PICK m \in Nat : m = n \div 2 /\ n <= 2 * m + 1
  BY <1>1
<1>3. ASSUME NEW k \in 1..n, ~(k <= m \/ n - k + 1 <= m) PROVE k = n - k + 1
  BY <1>1, <1>2, <1>3
<1>4. \A k \in 1..n : (IF k <= m \/ n - k + 1 <= m THEN buf[n - k + 1] ELSE buf[k]) = buf[n - k + 1]
  BY <1>3
<1>5. Swapped(buf) = [k \in 1..n |-> IF k <= m \/ n - k + 1 <= m THEN buf[n - k + 1] ELSE buf[k]]
  BY <1>2 DEF Swapped
<1> QED BY <1>4, <1>5

\* uitoa writes the number.
LEMMA UitoaWrites ==
  ASSUME NEW base \in 2..16, NEW v \in Nat, v < Power[LONG]
  PROVE  uitoa(v, base) = Numeral(v, base)
<1> DEFINE n == CHOOSE k \in 1..LONG :
                  PlaceValue(base)[k] > v /\ (k = 1 \/ PlaceValue(base)[k - 1] <= v)
<1>1. Long(v, base, n)
  <2>1. \E k \in 1..LONG : PlaceValue(base)[k] > v /\ (k = 1 \/ PlaceValue(base)[k - 1] <= v)
    BY LongEnough DEF Long
  <2>2. /\ n \in 1..LONG /\ PlaceValue(base)[n] > v /\ (n = 1 \/ PlaceValue(base)[n - 1] <= v)
    BY <2>1, Zenon
  <2> QED BY <2>2 DEF Long
<1>2. Numeral(v, base) = [k \in 1..n |-> Digit((v \div PlaceValue(base)[n - k]) % base)]
  BY DEF Numeral
<1> HIDE DEF n
<1>3. PICK buf \in Seq(Digits) :
        /\ buf = Backwards(v, base) /\ Len(buf) = n
        /\ \A j \in 1..n : buf[j] = Digit((v \div PlaceValue(base)[j - 1]) % base)
  BY <1>1, AllDigits
<1>4. uitoa(v, base) = [k \in 1..n |-> buf[n - k + 1]]
  BY <1>3, SwappedAll DEF uitoa
<1>5. ASSUME NEW k \in 1..n PROVE buf[n - k + 1] = Digit((v \div PlaceValue(base)[n - k]) % base)
  <2>1. n \in Nat /\ n - k + 1 \in 1..n /\ (n - k + 1) - 1 = n - k
    BY <1>3
  <2> QED BY <1>3, <2>1
<1> QED BY <1>2, <1>4, <1>5

\* A word is printed as the number its letter says it is, whole or its lower half.
LEMMA WordsWithin ==
  /\ INT - 1 \in Nat /\ LONG - 1 \in Nat
  /\ Power[LONG] = 2 * Power[LONG - 1] /\ Power[INT] = 2 * Power[INT - 1]
  /\ Power[LONG - 1] \in Nat \ {0} /\ Power[INT - 1] \in Nat \ {0}
  /\ Power[INT - 1] <= Power[LONG - 1] /\ Power[INT] <= Power[LONG]
<1>1. /\ INT \in Nat /\ LONG \in Nat /\ INT <= LONG /\ INT # 0 /\ LONG # 0
      /\ INT - 1 \in Nat /\ LONG - 1 \in Nat /\ INT - 1 <= LONG - 1 /\ LONG - 1 <= LONG
      /\ INT \in 0..LONG /\ LONG \in 0..LONG /\ INT - 1 \in 0..LONG /\ LONG - 1 \in 0..LONG
  BY PrintfAssumption
<1>2. Power[LONG] = 2 * Power[LONG - 1] /\ Power[INT] = 2 * Power[INT - 1]
  BY <1>1, PowerDoubles, DoublesSteps
<1>3. Power[LONG - 1] \in Nat \ {0} /\ Power[INT - 1] \in Nat \ {0}
  BY <1>1, PowerDoubles, DoublesTyped
<1>4. Power[INT - 1] <= Power[LONG - 1]
  BY <1>1, PowerDoubles, DoublesGrows
<1> QED BY <1>1, <1>2, <1>3, <1>4, Powers

LEMMA Modular ==
  ASSUME NEW m \in Nat \ {0}, NEW a \in Nat, a < m
  PROVE  a % m = a
<1>1. a \in 0..(m - 1) /\ m * 0 + a = a
  OBVIOUS
<1> QED BY <1>1, Modulo

LEMMA SignedWord ==
  ASSUME NEW w \in Nat, w < Power[LONG]
  PROVE  fmtnum(w, 10, TRUE) =
           IF w >= Power[LONG - 1] THEN <<"-">> \o Numeral(Power[LONG] - w, 10) ELSE Numeral(w, 10)
<1>1. PICK full \in Nat \ {0}, half \in Nat \ {0} : full = Power[LONG] /\ half = Power[LONG - 1] /\ full = 2 * half
  BY WordsWithin, Powers
<1>2. CASE w >= half
  <2>1. full - w \in Nat /\ full - w < full
    BY <1>1, <1>2
  <2>2. (full - w) % full = full - w
    BY <1>1, <2>1, Modular
  <2>3. uitoa(full - w, 10) = Numeral(full - w, 10)
    BY <1>1, <2>1, UitoaWrites
  <2>4. fmtnum(w, 10, TRUE) = <<"-">> \o <<>> \o uitoa((full - w) % full, 10)
    BY <1>1, <1>2 DEF fmtnum
  <2>5. <<"-">> \o <<>> = <<"-">>
    <3>1. <<"-">> \in Seq({"-"})
      OBVIOUS
    <3> QED BY <3>1
  <2> QED BY <1>1, <1>2, <2>2, <2>3, <2>4, <2>5
<1>3. CASE ~(w >= half)
  <2>1. uitoa(w, 10) = Numeral(w, 10) /\ uitoa(w, 10) \in Seq(Char)
    BY UitoaWrites, UitoaTyped
  <2>2. fmtnum(w, 10, TRUE) = <<>> \o uitoa(w, 10)
    BY <1>1, <1>3 DEF fmtnum
  <2>3. <<>> \o uitoa(w, 10) = uitoa(w, 10)
    BY <2>1
  <2> QED BY <1>1, <1>3, <2>1, <2>2, <2>3
<1> QED BY <1>2, <1>3

LEMMA UnsignedWord ==
  ASSUME NEW w \in Nat, w < Power[LONG]
  PROVE  /\ fmtnum(w, 10, FALSE) = Numeral(w, 10)
         /\ fmtnum(w, 8, FALSE) = <<"0">> \o Numeral(w, 8)
         /\ fmtnum(w, 16, FALSE) = <<"0", "x">> \o Numeral(w, 16)
<1>1. \A base \in {8, 10, 16} : uitoa(w, base) = Numeral(w, base) /\ uitoa(w, base) \in Seq(Char)
  <2>1. {8, 10, 16} \subseteq 2..16
    OBVIOUS
  <2> QED BY <2>1, UitoaWrites, UitoaTyped
<1>2. fmtnum(w, 10, FALSE) = <<>> \o uitoa(w, 10)
  BY DEF fmtnum
<1>3. fmtnum(w, 8, FALSE) = <<"0">> \o uitoa(w, 8)
  BY DEF fmtnum
<1>4. fmtnum(w, 16, FALSE) = <<"0", "x">> \o uitoa(w, 16)
  BY DEF fmtnum
<1>5. <<>> \o uitoa(w, 10) = uitoa(w, 10)
  BY <1>1
<1> QED BY <1>1, <1>2, <1>3, <1>4, <1>5

LEMMA LongsPrinted ==
  ASSUME NEW c \in Numbers, NEW w \in Nat, w < Power[LONG]
  PROVE  fmtnum64(c, w) = Meaning(c, LONG, w)
<1>1. w % Power[LONG] = w
  BY Powers, Modular
<1>2. CASE c \in {"d", "i"}
  <2>1. Base(c) = 10 /\ (c \in {"d", "i"}) = TRUE
    BY <1>2 DEF Base
  <2>2. Meaning(c, LONG, w) = Signed(w, LONG)
    BY <1>2 DEF Meaning
  <2>3. fmtnum64(c, w) = fmtnum(w, 10, TRUE)
    BY <2>1, Zenon DEF fmtnum64
  <2> QED BY <1>1, <2>2, <2>3, SignedWord DEF Signed
<1>3. CASE c \notin {"d", "i"}
  <2>1. c \in {"o", "x", "u"} /\ (c \in {"d", "i"}) = FALSE
    BY <1>3 DEF Numbers
  <2>2. fmtnum64(c, w) = fmtnum(w, Base(c), FALSE)
    BY <2>1, Zenon DEF fmtnum64
  <2>3. CASE c = "u"
    BY <1>1, <2>2, <2>3, UnsignedWord DEF Base, Meaning
  <2>4. CASE c = "o"
    BY <1>1, <2>2, <2>4, UnsignedWord DEF Base, Meaning
  <2>5. CASE c = "x"
    BY <1>1, <2>2, <2>5, UnsignedWord DEF Base, Meaning
  <2> QED BY <2>1, <2>3, <2>4, <2>5
<1> QED BY <1>2, <1>3

LEMMA IntsPrinted ==
  ASSUME NEW c \in Numbers, NEW w \in Nat
  PROVE  fmtnum32(c, w) = Meaning(c, INT, w)
<1>1. PICK int \in Nat \ {0}, half \in Nat \ {0}, full \in Nat \ {0}, top \in Nat \ {0} :
        /\ int = Power[INT] /\ half = Power[INT - 1] /\ full = Power[LONG] /\ top = Power[LONG - 1]
        /\ int = 2 * half /\ full = 2 * top /\ half <= top
  <2>1. Power[INT] \in Nat \ {0} /\ Power[LONG] \in Nat \ {0}
    BY WordsWithin, Powers
  <2> QED BY <2>1, WordsWithin
<1>2. PICK low \in Nat : low = w % int /\ low < int
  <2>1. w % int \in 0..(int - 1)
    BY DividedBy
  <2>2. w % int \in Nat /\ w % int < int
    BY <2>1
  <2> QED BY <2>2
<1>3. /\ low = Low(w) /\ int = Power[INT] /\ half = Power[INT - 1] /\ full = Power[LONG]
      /\ top = Power[LONG - 1] /\ int = 2 * half /\ full = 2 * top /\ half <= top
      /\ low < int /\ low = w % Power[INT]
  BY <1>1, <1>2 DEF Low
<1>4. low < full
  BY <1>3
<1>5. CASE c \in {"d", "i"}
  <2>1. fmtnum32(c, w) = fmtnum(SignExtend(w), 10, TRUE) /\ Meaning(c, INT, w) = Signed(w, INT)
    BY <1>5 DEF fmtnum32, Meaning
  <2>2. CASE low >= half
    <3>0. PICK e \in Int : e = low + full - int
      BY <1>3
    <3>1. e \in Nat /\ e < full /\ e >= top /\ full - e = int - low
      BY <1>3, <2>2, <3>0
    <3>2. SignExtend(w) = e
      BY <1>3, <2>2, <3>0 DEF SignExtend
    <3>3. fmtnum(e, 10, TRUE) = <<"-">> \o Numeral(full - e, 10)
      BY <1>3, <3>1, SignedWord
    <3>4. Signed(w, INT) = <<"-">> \o Numeral(int - low, 10)
      BY <1>3, <2>2 DEF Signed
    <3> QED BY <2>1, <3>1, <3>2, <3>3, <3>4
  <2>3. CASE ~(low >= half)
    <3>1. SignExtend(w) = low
      BY <1>3, <2>3 DEF SignExtend
    <3>2. ~(low >= top)
      BY <1>3, <2>3
    <3>3. fmtnum(low, 10, TRUE) = Numeral(low, 10)
      BY <1>3, <1>4, <3>2, SignedWord
    <3>4. Signed(w, INT) = Numeral(low, 10)
      BY <1>3, <2>3 DEF Signed
    <3> QED BY <2>1, <3>1, <3>3, <3>4
  <2> QED BY <2>2, <2>3
<1>6. CASE c \notin {"d", "i"}
  <2>1. c \in {"o", "x", "u"}
    BY <1>6 DEF Numbers
  <2>2. fmtnum32(c, w) = fmtnum(low, Base(c), FALSE)
    BY <1>3, <1>6 DEF fmtnum32
  <2>3. CASE c = "u"
    BY <1>3, <1>4, <2>2, <2>3, UnsignedWord DEF Base, Meaning
  <2>4. CASE c = "o"
    BY <1>3, <1>4, <2>2, <2>4, UnsignedWord DEF Base, Meaning
  <2>5. CASE c = "x"
    BY <1>3, <1>4, <2>2, <2>5, UnsignedWord DEF Base, Meaning
  <2> QED BY <2>1, <2>3, <2>4, <2>5
<1> QED BY <1>5, <1>6

-----------------------------------------------------------------------------
\* The invariant.  An argument was taken at most for each place before pos that
\* takes one; an end passed is one that StopsAtEnd names.
Taken(fmt, p) == {q \in Taking(fmt) : q < p}
CallTyped(c) ==
  /\ c.fmt \in Seq(STRING) /\ c.args \in Seq([word : Nat, string : STRING])
  /\ Cardinality(Taking(c.fmt)) <= Len(c.args)
ShownInv == text \in Seq(Char) /\ scr = Layout(text)
ScanInv ==
  /\ pc \in {"idle", "scan", "done", "beyond"}
  /\ pos \in Nat \ {0} /\ (pc # "beyond" => pos <= Len(call.fmt) + 1) /\ (pc = "idle" => pos = 1 /\ arg = 0)
  /\ arg \in Nat /\ arg <= Cardinality(Taken(call.fmt, pos))
  /\ CallTyped(call)
  /\ StopsAtEnd
PrintfInv == ShownInv /\ ScanInv

LEMMA TakenCount ==
  ASSUME NEW fmt \in Seq(STRING), NEW p \in Nat, NEW q \in Nat, p <= q
  PROVE  /\ Cardinality(Taken(fmt, p)) \in Nat /\ Cardinality(Taking(fmt)) \in Nat
         /\ Cardinality(Taken(fmt, p)) <= Cardinality(Taken(fmt, q))
         /\ Cardinality(Taken(fmt, p)) <= Cardinality(Taking(fmt))
         /\ p \in Taking(fmt) =>
              /\ p < q => Cardinality(Taken(fmt, p)) + 1 <= Cardinality(Taken(fmt, q))
              /\ Cardinality(Taken(fmt, p)) + 1 <= Cardinality(Taking(fmt))
<1> DEFINE T == Taking(fmt)
           a == Taken(fmt, p)
           b == Taken(fmt, q)
<1>1. Len(fmt) - 1 \in Int /\ T \subseteq 1..(Len(fmt) - 1)
  BY DEF Taking
<1>2. IsFiniteSet(T)
  <2>1. IsFiniteSet(1..(Len(fmt) - 1))
    BY <1>1, FS_Interval
  <2> QED BY <1>1, <2>1, FS_Subset
<1>3. a \subseteq T /\ b \subseteq T /\ a \subseteq b
  BY <1>1 DEF Taken
<1>4. IsFiniteSet(a) /\ IsFiniteSet(b)
  BY <1>2, <1>3, FS_Subset
<1>5. /\ Cardinality(a) \in Nat /\ Cardinality(T) \in Nat /\ Cardinality(b) \in Nat
      /\ Cardinality(a) <= Cardinality(b) /\ Cardinality(a) <= Cardinality(T)
  BY <1>2, <1>3, <1>4, FS_Subset, FS_CardinalityType
<1>6. ASSUME p \in T
      PROVE  /\ p < q => Cardinality(a) + 1 <= Cardinality(b)
             /\ Cardinality(a) + 1 <= Cardinality(T)
  <2>1. p \notin a /\ a \cup {p} \subseteq T /\ (p < q => a \cup {p} \subseteq b)
    BY <1>3, <1>6 DEF Taken
  <2>2. Cardinality(a \cup {p}) = Cardinality(a) + 1
    BY <1>4, <2>1, FS_AddElement
  <2>3. Cardinality(a \cup {p}) <= Cardinality(T)
    BY <1>2, <2>1, FS_Subset
  <2>4. p < q => Cardinality(a \cup {p}) <= Cardinality(b)
    BY <1>4, <2>1, FS_Subset
  <2> QED BY <2>2, <2>3, <2>4
<1> QED BY <1>5, <1>6

\* What is printed is shown.
LEMMA EmitShows ==
  ASSUME ShownInv, NEW s \in Seq(Char), Emit(s)
  PROVE  ShownInv'
<1>1. text' = text \o s /\ text' \in Seq(Char)
  BY DEF ShownInv, Emit
<1>2. scr' = Layout(text')
  BY <1>1, PutsLayout DEF ShownInv, Emit
<1> QED BY <1>1, <1>2 DEF ShownInv

LEMMA CallWords == \A who : Words(who) \in Seq(Char)
<1>1. {"W", "E", "P", Space} \subseteq Char
  BY DEF Char
<1>2. Space = " "
  BY DEF Space
<1>3. <<>> \in Seq(Char) /\ \A a, b \in Char : <<a, b>> \in Seq(Char)
  OBVIOUS
<1> QED BY <1>1, <1>2, <1>3, Zenon DEF Words

\* Where the scanner is, and what is there.
LEMMA Reading ==
  ASSUME ScanInv, NEW p \in Nat \ {0}
  PROVE  /\ At(p) \in Char /\ (p > Len(call.fmt) => At(p) = NUL)
         /\ At(p) # NUL => p \in 1..Len(call.fmt) /\ At(p) = call.fmt[p]
<1>1. call.fmt \in Seq(STRING) /\ Len(call.fmt) \in Nat
  BY DEF ScanInv, CallTyped
<1>2. CASE p <= Len(call.fmt)
  <2>1. p \in 1..Len(call.fmt) /\ At(p) = call.fmt[p]
    BY <1>1, <1>2 DEF At
  <2>2. call.fmt[p] \in STRING
    BY <1>1, <2>1
  <2> QED BY <1>1, <1>2, <2>1, <2>2 DEF Char
<1>3. CASE p > Len(call.fmt)
  <2>1. At(p) = NUL
    BY <1>1, <1>3 DEF At
  <2> QED BY <1>1, <2>1 DEF Char
<1> QED BY <1>1, <1>2, <1>3

\* An argument that is taken was passed.
LEMMA Passed ==
  ASSUME ScanInv, pc = "scan", At(pos) = "%",
         At(pos + 1) \in {"d", "i", "o", "x", "u", "l", "s"}
  PROVE  /\ pos \in Taking(call.fmt) /\ pos + 1 <= Len(call.fmt)
         /\ arg + 1 \in 1..Len(call.args) /\ call.args[arg + 1] \in [word : Nat, string : STRING]
<1>1. pos \in Nat \ {0} /\ pos + 1 \in Nat \ {0} /\ call.fmt \in Seq(STRING) /\ Len(call.fmt) \in Nat
  BY DEF ScanInv, CallTyped
<1>2. At(pos) # NUL /\ At(pos + 1) # NUL
  BY DEF NUL
<1>3. pos + 1 \in 1..Len(call.fmt) /\ call.fmt[pos] = "%" /\ call.fmt[pos + 1] = At(pos + 1)
  BY <1>1, <1>2, Reading
<1>4. pos \in 1..(Len(call.fmt) - 1)
  BY <1>1, <1>3
<1>5. pos \in Taking(call.fmt)
  BY <1>3, <1>4 DEF Taking
<1>6. /\ Cardinality(Taken(call.fmt, pos)) + 1 <= Cardinality(Taking(call.fmt))
      /\ Cardinality(Taken(call.fmt, pos)) \in Nat /\ Cardinality(Taking(call.fmt)) \in Nat
  <2>1. pos \in Nat /\ pos <= pos
    BY <1>1
  <2> QED BY <1>1, <1>5, <2>1, TakenCount
<1>7. arg \in Nat /\ Len(call.args) \in Nat /\ arg <= Cardinality(Taken(call.fmt, pos))
      /\ Cardinality(Taking(call.fmt)) <= Len(call.args) /\ call.args \in Seq([word : Nat, string : STRING])
  BY DEF ScanInv, CallTyped
<1>8. arg + 1 \in 1..Len(call.args)
  BY <1>6, <1>7
<1>9. call.args[arg + 1] \in [word : Nat, string : STRING]
  BY <1>7, <1>8, ElementOfSeq
<1>10. pos + 1 <= Len(call.fmt)
  BY <1>1, <1>3
<1> QED BY <1>5, <1>8, <1>9, <1>10

-----------------------------------------------------------------------------
LEMMA PrintfStarts == Init => PrintfInv
<1> SUFFICES ASSUME Init PROVE PrintfInv
  OBVIOUS
<1>1. ShownInv
  <2>1. text \in Seq(Char)
    <3>1. text \in Seq(STRING) /\ STRING \subseteq Char
      BY PrintfAssumption DEF Init, Char
    <3> QED BY <3>1, SeqMonotonic
  <2>2. <<>> \in Seq(Char) /\ <<>> \o text = text
    BY <2>1
  <2>3. scr = puts(Layout(<<>>), text)
    BY LayoutOfNothing DEF Init
  <2> QED BY <2>1, <2>2, <2>3, PutsLayout DEF ShownInv
<1>2. pc = "idle" /\ pos = 1 /\ arg = 0 /\ call.fmt = <<>> /\ call.args = <<>>
  BY DEF Init
<1>3. <<>> \in Seq(STRING) /\ <<>> \in Seq([word : Nat, string : STRING]) /\ Len(<<>>) = 0
  OBVIOUS
<1>4. Taking(<<>>) = {} /\ Taken(<<>>, 1) = {} /\ Cardinality({}) = 0
  BY <1>3, FS_EmptySet DEF Taking, Taken
<1>5. ScanInv
  <2>1. Cardinality(Taking(call.fmt)) = 0 /\ Cardinality(Taken(call.fmt, pos)) = 0
    BY <1>2, <1>4, Zenon
  <2>2. /\ call.fmt \in Seq(STRING) /\ call.args \in Seq([word : Nat, string : STRING])
        /\ Len(call.fmt) = 0 /\ Len(call.args) = 0
    BY <1>2, <1>3, Zenon
  <2>3. CallTyped(call)
    BY <2>1, <2>2 DEF CallTyped
  <2> QED BY <1>2, <2>1, <2>2, <2>3 DEF ScanInv, StopsAtEnd
<1> QED BY <1>1, <1>5 DEF PrintfInv

LEMMA CallKeeps ==
  ASSUME PrintfInv, NEW c \in Calls, Call(c)
  PROVE  PrintfInv'
<1>1. ShownInv'
  BY CallWords, EmitShows DEF PrintfInv, Call
<1>2. /\ c = [who |-> c.who, fmt |-> c.fmt, args |-> c.args, expected |-> c.expected, start |-> 0]
      /\ CallTyped(c)
  BY PrintfAssumption DEF CallTyped
<1>3. call' = [c EXCEPT !.start = Len(text)] /\ call'.fmt = c.fmt /\ call'.args = c.args
  <2>1. call' = [c EXCEPT !.start = Len(text)]
    BY DEF Call
  <2>2. \A w, f, a, e, s : [[who |-> w, fmt |-> f, args |-> a, expected |-> e, start |-> 0] EXCEPT !.start = s].fmt = f
         /\ [[who |-> w, fmt |-> f, args |-> a, expected |-> e, start |-> 0] EXCEPT !.start = s].args = a
    OBVIOUS
  <2> QED BY <1>2, <2>1, <2>2
<1>4. CallTyped(call')
  BY <1>2, <1>3 DEF CallTyped
<1>5. pos' = 1 /\ arg' = 0 /\ pc' \in {"scan", "done"}
  BY DEF Call, PrintfInv, ScanInv
<1>6. /\ call'.fmt \in Seq(STRING) /\ Len(call'.fmt) \in Nat
      /\ Cardinality(Taken(call'.fmt, pos')) \in Nat
  <2>1. call'.fmt \in Seq(STRING) /\ pos' \in Nat /\ pos' <= pos'
    BY <1>4, <1>5 DEF CallTyped
  <2> QED BY <2>1, TakenCount
<1>7. ScanInv'
  BY <1>4, <1>5, <1>6 DEF ScanInv, CallTyped, StopsAtEnd
<1> QED BY <1>1, <1>7 DEF PrintfInv

LEMMA ClsKeeps ==
  ASSUME PrintfInv, Cls
  PROVE  PrintfInv'
<1>1. text \in Seq(Char) /\ scr = Layout(text) /\ scr' = cls(scr) /\ text' = Blanked(text)
  BY DEF PrintfInv, ShownInv, Cls
<1>2. ShownInv'
  BY <1>1, ClsLayout DEF ShownInv
<1>3. ScanInv'
  BY DEF PrintfInv, ScanInv, CallTyped, StopsAtEnd, Cls
<1> QED BY <1>2, <1>3 DEF PrintfInv

LEMMA ReturnKeeps ==
  ASSUME PrintfInv, Return
  PROVE  PrintfInv'
<1>1. ShownInv'
  BY DEF PrintfInv, ShownInv, Return
<1>2. ScanInv'
  BY DEF PrintfInv, ScanInv, CallTyped, StopsAtEnd, Return
<1> QED BY <1>1, <1>2 DEF PrintfInv

\* Going on behind what was read.
LEMMA GoesOn ==
  ASSUME ScanInv, pc = "scan", call' = call,
         NEW taken \in {0, 1}, NEW next \in Nat \ {0}, next > pos,
         arg' = arg + taken, pos' = next,
         taken = 1 => pos \in Taking(call.fmt),
         pc' = IF next > Len(call.fmt) + 1 THEN "beyond" ELSE "scan",
         next > Len(call.fmt) + 1 =>
           LET n == Len(call.fmt)
           IN  call.fmt[n] = "%" \/ (n > 2 /\ SubSeq(call.fmt, n - 2, n) = <<"%", "l", "l">>)
  PROVE  ScanInv'
<1>1. /\ call.fmt \in Seq(STRING) /\ pos \in Nat \ {0} /\ arg \in Nat /\ CallTyped(call)
      /\ arg <= Cardinality(Taken(call.fmt, pos)) /\ Len(call.fmt) \in Nat
  BY DEF ScanInv, CallTyped
<1>2. /\ Cardinality(Taken(call.fmt, pos)) \in Nat /\ Cardinality(Taken(call.fmt, next)) \in Nat
      /\ Cardinality(Taken(call.fmt, pos)) <= Cardinality(Taken(call.fmt, next))
      /\ taken = 1 => Cardinality(Taken(call.fmt, pos)) + 1 <= Cardinality(Taken(call.fmt, next))
  <2>1. pos \in Nat /\ next \in Nat /\ pos <= next /\ pos < next /\ next <= next
    BY <1>1
  <2> QED BY <1>1, <2>1, TakenCount
<1>3. arg' \in Nat /\ arg' <= Cardinality(Taken(call.fmt, next))
  BY <1>1, <1>2
<1>4. CallTyped(call')
  BY <1>1
<1>5. StopsAtEnd'
  BY DEF StopsAtEnd
<1>6. pc' # "beyond" => pos' <= Len(call'.fmt) + 1
  BY <1>1
<1>7. pc' \in {"scan", "beyond"} /\ pos' \in Nat \ {0}
  OBVIOUS
<1>8. arg' <= Cardinality(Taken(call'.fmt, pos'))
  BY <1>3
<1> QED BY <1>3, <1>4, <1>5, <1>6, <1>7, <1>8 DEF ScanInv

LEMMA OrdinaryKeeps ==
  ASSUME PrintfInv, Ordinary
  PROVE  PrintfInv'
<1>1. ScanInv /\ pc = "scan" /\ pos \in Nat \ {0} /\ Len(call.fmt) \in Nat
  BY DEF PrintfInv, ScanInv, CallTyped, Ordinary
<1>2. At(pos) \in Char /\ pos \in 1..Len(call.fmt)
  BY <1>1, Reading DEF Ordinary
<1>3. <<At(pos)>> \in Seq(Char)
  BY <1>2
<1>4. ShownInv'
  BY <1>3, EmitShows DEF PrintfInv, Ordinary
<1>5. pos + 1 \in Nat \ {0} /\ pos + 1 > pos /\ ~(pos + 1 > Len(call.fmt) + 1)
  BY <1>1, <1>2
<1>6. call' = call /\ pos' = pos + 1 /\ arg' = arg /\ pc' = pc /\ arg \in Nat
  BY DEF PrintfInv, ScanInv, Ordinary
<1>7. arg' = arg + 0
  BY <1>6
<1>8. ScanInv'
  BY <1>1, <1>5, <1>6, <1>7, GoesOn
<1> QED BY <1>4, <1>8 DEF PrintfInv

\* What every directive does.
LEMMA DirectiveKeeps ==
  ASSUME PrintfInv, NEW s \in Seq(Char), NEW taken \in {0, 1}, NEW next \in Nat \ {0},
         Directive(s, taken, next), next > pos, taken = 1 => pos \in Taking(call.fmt),
         next > Len(call.fmt) + 1 =>
           LET n == Len(call.fmt)
           IN  call.fmt[n] = "%" \/ (n > 2 /\ SubSeq(call.fmt, n - 2, n) = <<"%", "l", "l">>)
  PROVE  PrintfInv'
<1>1. ShownInv'
  BY EmitShows DEF PrintfInv, Directive
<1>2. ScanInv'
  BY GoesOn DEF PrintfInv, Directive
<1> QED BY <1>1, <1>2 DEF PrintfInv

LEMMA WordKeeps ==
  ASSUME PrintfInv, pc = "scan", At(pos) = "%", At(pos + 1) = "l", NEW c, NEW next \in Nat \ {0}, next > pos,
         Number64(c, next),
         c \notin Numbers /\ next > Len(call.fmt) + 1 =>
           LET n == Len(call.fmt)
           IN  call.fmt[n] = "%" \/ (n > 2 /\ SubSeq(call.fmt, n - 2, n) = <<"%", "l", "l">>),
         c \in Numbers => next <= Len(call.fmt) + 1
  PROVE  PrintfInv'
<1>0. ScanInv /\ Len(call.fmt) \in Nat
  BY DEF PrintfInv, ScanInv, CallTyped
<1>1. pos \in Taking(call.fmt) /\ call.args[arg + 1] \in [word : Nat, string : STRING]
  BY <1>0, Passed
<1>2. CASE c \in Numbers
  <2>1. fmtnum64(c, Word) \in Seq(Char)
    <3>1. Word \in Nat
      BY <1>1 DEF Word
    <3> QED BY <3>1, NumbersTyped
  <2>2. Directive(fmtnum64(c, Word), 1, next)
    BY <1>2 DEF Number64
  <2>3. ~(next > Len(call.fmt) + 1)
    BY <1>0, <1>2
  <2> QED BY <1>1, <2>1, <2>2, <2>3, DirectiveKeeps
<1>3. CASE c \notin Numbers
  <2>1. Directive(<<>>, 0, next) /\ <<>> \in Seq(Char)
    BY <1>3 DEF Number64
  <2>2. 0 \in {0, 1} /\ 0 # 1
    OBVIOUS
  <2> QED BY <1>3, <2>1, <2>2, DirectiveKeeps
<1> QED BY <1>2, <1>3

LEMMA LongKeeps ==
  ASSUME PrintfInv, LongDirective, pc = "scan", At(pos) = "%"
  PROVE  PrintfInv'
<1>1. ScanInv /\ pos \in Nat \ {0} /\ Len(call.fmt) \in Nat
  BY DEF PrintfInv, ScanInv, CallTyped
<1>2. At(pos + 1) = "l" /\ Number64(At(pos + 2), pos + 2)
  BY DEF LongDirective
<1>3. pos + 1 <= Len(call.fmt)
  BY <1>1, <1>2, Passed
<1>4. pos + 2 \in Nat \ {0} /\ pos + 2 > pos /\ ~(pos + 2 > Len(call.fmt) + 1) /\ pos + 2 <= Len(call.fmt) + 1
  BY <1>1, <1>3
<1> QED BY <1>2, <1>4, WordKeeps

LEMMA LongLongKeeps ==
  ASSUME PrintfInv, LongLongDirective, pc = "scan", At(pos) = "%"
  PROVE  PrintfInv'
<1> DEFINE n == Len(call.fmt)
<1>1. /\ ScanInv /\ pos \in Nat \ {0} /\ n \in Nat /\ call.fmt \in Seq(STRING)
      /\ pos + 1 \in Nat \ {0} /\ pos + 2 \in Nat \ {0} /\ pos + 3 \in Nat \ {0} /\ pos + 4 \in Nat \ {0}
      /\ pos + 4 > pos
  BY DEF PrintfInv, ScanInv, CallTyped
<1>2. At(pos + 1) = "l" /\ At(pos + 2) = "l" /\ Number64(At(pos + 3), pos + 4)
  BY DEF LongLongDirective
<1>3. At(pos) # NUL /\ At(pos + 1) # NUL /\ At(pos + 2) # NUL /\ NUL \notin Numbers
  BY <1>2 DEF NUL, Numbers
<1>4. /\ pos \in 1..n /\ pos + 1 \in 1..n /\ pos + 2 \in 1..n
      /\ call.fmt[pos] = "%" /\ call.fmt[pos + 1] = "l" /\ call.fmt[pos + 2] = "l"
  BY <1>1, <1>2, <1>3, Reading
<1>5. At(pos + 3) \in Numbers => pos + 4 <= n + 1
  <2>1. At(pos + 3) # NUL => pos + 3 \in 1..n
    BY <1>1, Reading
  <2> QED BY <1>1, <1>3, <2>1
<1>6. pos + 4 > n + 1 => n > 2 /\ SubSeq(call.fmt, n - 2, n) = <<"%", "l", "l">>
  <2> SUFFICES ASSUME pos + 4 > n + 1 PROVE n > 2 /\ SubSeq(call.fmt, n - 2, n) = <<"%", "l", "l">>
    OBVIOUS
  <2>1. n = pos + 2 /\ n > 2 /\ n - 2 = pos /\ n - 1 = pos + 1
    BY <1>1, <1>4
  <2>2. PICK last : last = SubSeq(call.fmt, n - 2, n)
    OBVIOUS
  <2>3. last \in Seq(STRING) /\ Len(last) = 3 /\ last[1] = call.fmt[n - 2] /\ last[2] = call.fmt[n - 1]
        /\ last[3] = call.fmt[n]
    <3>1. /\ n - 2 \in 1..n /\ n \in (n - 2)..n /\ n - (n - 2) + 1 = 3
          /\ n - 2 + 1 - 1 = n - 2 /\ n - 2 + 2 - 1 = n - 1 /\ n - 2 + 3 - 1 = n
      BY <1>1, <2>1
    <3>2. \A q \in Seq(STRING) : \A a \in 1..Len(q) : \A b \in a..Len(q) :
            LET t == SubSeq(q, a, b)
            IN  t \in Seq(STRING) /\ Len(t) = b - a + 1 /\ \A i \in 1..(b - a + 1) : t[i] = q[a + i - 1]
      OBVIOUS
    <3> HIDE DEF n
    <3>3. n \in (n - 2)..Len(call.fmt)
      BY <3>1 DEF n
    <3>4. n - 2 \in 1..Len(call.fmt)
      BY <3>1 DEF n
    <3>5. last \in Seq(STRING) /\ Len(last) = 3 /\ \A i \in 1..3 : last[i] = call.fmt[n - 2 + i - 1]
      BY <1>1, <2>2, <3>1, <3>2, <3>3, <3>4
    <3> QED BY <1>1, <3>1, <3>5
  <2>4. last[1] = "%" /\ last[2] = "l" /\ last[3] = "l"
    BY <1>4, <2>1, <2>3
  <2>5. last = <<last[1], last[2], last[3]>>
    BY <2>3
  <2> QED BY <2>1, <2>2, <2>4, <2>5
<1>7. Number64(At(pos + 3), pos + 4)
  BY <1>2
<1> QED BY <1>1, <1>2, <1>5, <1>6, <1>7, WordKeeps

LEMMA ShownString ==
  ASSUME NEW str \in STRING
  PROVE  (IF str = NUL THEN <<"(", "n", "u", "l", "l", ")">> ELSE <<str, str>>) \in Seq(Char)
<1>1. str \in Char /\ {"(", "n", "u", "l", ")"} \subseteq Char
  BY DEF Char
<1>2. \A a \in Char : <<a, a>> \in Seq(Char)
  OBVIOUS
<1>3. \A a, b, c, d, e \in Char : <<a, b, c, d, d, e>> \in Seq(Char)
  OBVIOUS
<1>4. <<"(", "n", "u", "l", "l", ")">> \in Seq(Char)
  BY <1>1, <1>3
<1> QED BY <1>1, <1>2, <1>4

LEMMA StringKeeps ==
  ASSUME PrintfInv, StringDirective, pc = "scan", At(pos) = "%"
  PROVE  PrintfInv'
<1> DEFINE str == call.args[arg + 1].string
           s == IF str = NUL THEN <<"(", "n", "u", "l", "l", ")">> ELSE <<str, str>>
<1>1. ScanInv /\ pos \in Nat \ {0} /\ Len(call.fmt) \in Nat
  BY DEF PrintfInv, ScanInv, CallTyped
<1>2. At(pos + 1) = "s" /\ Directive(s, 1, pos + 2)
  BY DEF StringDirective
<1>3. pos \in Taking(call.fmt) /\ pos + 1 <= Len(call.fmt) /\ str \in STRING
  BY <1>1, <1>2, Passed
<1>4. s \in Seq(Char)
  BY <1>3, ShownString
<1>5. pos + 2 \in Nat \ {0} /\ pos + 2 > pos /\ ~(pos + 2 > Len(call.fmt) + 1) /\ 1 \in {0, 1}
  BY <1>1, <1>3
<1> HIDE DEF s
<1> QED BY <1>2, <1>3, <1>4, <1>5, DirectiveKeeps

LEMMA IntKeeps ==
  ASSUME PrintfInv, IntDirective, pc = "scan", At(pos) = "%"
  PROVE  PrintfInv'
<1> DEFINE s == fmtnum32(At(pos + 1), Word)
<1>1. ScanInv /\ pos \in Nat \ {0} /\ Len(call.fmt) \in Nat
  BY DEF PrintfInv, ScanInv, CallTyped
<1>2. At(pos + 1) \in Numbers /\ Directive(s, 1, pos + 2)
  BY DEF IntDirective
<1>3. At(pos + 1) \in {"d", "i", "o", "x", "u", "l", "s"}
  BY <1>2 DEF Numbers
<1>4. pos \in Taking(call.fmt) /\ pos + 1 <= Len(call.fmt) /\ Word \in Nat
  BY <1>1, <1>3, Passed DEF Word
<1>5. s \in Seq(Char)
  BY <1>4, NumbersTyped
<1>6. pos + 2 \in Nat \ {0} /\ pos + 2 > pos /\ ~(pos + 2 > Len(call.fmt) + 1) /\ 1 \in {0, 1}
  BY <1>1, <1>4
<1> HIDE DEF s
<1> QED BY <1>2, <1>4, <1>5, <1>6, DirectiveKeeps

LEMMA OtherKeeps ==
  ASSUME PrintfInv, OtherDirective, pc = "scan", At(pos) = "%"
  PROVE  PrintfInv'
<1> DEFINE s == <<At(pos + 1)>>
           n == Len(call.fmt)
<1>1. ScanInv /\ pos \in Nat \ {0} /\ pos + 1 \in Nat \ {0} /\ n \in Nat /\ pos <= n + 1
  BY DEF PrintfInv, ScanInv, CallTyped
<1>2. Directive(s, 0, pos + 2)
  BY DEF OtherDirective
<1>3. s \in Seq(Char)
  <2>1. At(pos + 1) \in Char
    BY <1>1, Reading
  <2> QED BY <2>1
<1>4. pos \in 1..n /\ call.fmt[pos] = "%"
  <2>1. At(pos) # NUL
    BY DEF NUL
  <2> QED BY <1>1, <2>1, Reading
<1>5. pos + 2 > n + 1 => call.fmt[n] = "%"
  <2>1. pos + 2 > n + 1 => pos = n
    BY <1>1, <1>4
  <2> QED BY <1>4, <2>1
<1>6. pos + 2 \in Nat \ {0} /\ pos + 2 > pos /\ 0 \in {0, 1} /\ 0 # 1
  BY <1>1
<1> HIDE DEF s
<1> QED BY <1>2, <1>3, <1>5, <1>6, DirectiveKeeps

LEMMA PrintfStep == PrintfInv /\ [Next]_vars => PrintfInv'
<1> SUFFICES ASSUME PrintfInv, [Next]_vars PROVE PrintfInv'
  OBVIOUS
<1>1. CASE \E c \in Calls : Call(c)
  BY <1>1, CallKeeps
<1>2. CASE Cls
  BY <1>2, ClsKeeps
<1>3. CASE Return
  BY <1>3, ReturnKeeps
<1>4. CASE Ordinary
  BY <1>4, OrdinaryKeeps
<1>5. ASSUME NEW s, NEW taken, NEW next, Directive(s, taken, next) PROVE pc = "scan" /\ At(pos) = "%"
  BY <1>5 DEF Directive
<1>6. CASE LongDirective
  BY <1>5, <1>6, LongKeeps DEF LongDirective, Number64
<1>7. CASE LongLongDirective
  BY <1>5, <1>7, LongLongKeeps DEF LongLongDirective, Number64
<1>8. CASE StringDirective
  BY <1>5, <1>8, StringKeeps DEF StringDirective
<1>9. CASE IntDirective
  BY <1>5, <1>9, IntKeeps DEF IntDirective
<1>10. CASE OtherDirective
  BY <1>5, <1>10, OtherKeeps DEF OtherDirective
<1>11. CASE UNCHANGED vars
  BY <1>11 DEF vars, PrintfInv, ShownInv, ScanInv, CallTyped, StopsAtEnd
<1>12. Ended => UNCHANGED vars
  BY DEF Ended
<1> QED BY <1>1, <1>2, <1>3, <1>4, <1>6, <1>7, <1>8, <1>9, <1>10, <1>11, <1>12 DEF Next, Scan

LEMMA PrintfTyped == PrintfInv => TypeOK
<1> SUFFICES ASSUME PrintfInv PROVE TypeOK
  OBVIOUS
<1>1. PICK rows : rows = Rows(text) /\ Good(rows) /\ scr = Picture(rows)
  BY RowsGood, LayoutShows DEF PrintfInv, ShownInv
<1>2. scr.columns \in 0..(TTY_MAX_WIDTH - 1)
  <2>1. scr.columns = Len(rows[Len(rows)]) /\ rows[Len(rows)] \in Seq(Char)
    BY <1>1, SheetLines DEF Picture, Good
  <2>2. Len(rows[Len(rows)]) < TTY_MAX_WIDTH
    BY <1>1 DEF Good
  <2> QED BY <2>1, <2>2, TtyAssumption
<1>3. scr.lines \in 0..(TTY_MAX_HEIGHT - 1)
  BY <1>1, SheetLines DEF Good
<1>4. DOMAIN scr.video = Cells
  BY <1>1 DEF Picture
<1>5. pc \in {"idle", "scan", "done", "beyond"} /\ pos \in Nat \ {0}
  BY DEF PrintfInv, ScanInv
<1>6. arg \in 0..Len(call.args)
  <2>1. /\ arg \in Nat /\ arg <= Cardinality(Taken(call.fmt, pos)) /\ call.fmt \in Seq(STRING)
        /\ Len(call.args) \in Nat /\ Cardinality(Taking(call.fmt)) <= Len(call.args)
        /\ pos \in Nat /\ pos <= pos
    BY DEF PrintfInv, ScanInv, CallTyped
  <2> QED BY <2>1, TakenCount
<1> QED BY <1>2, <1>3, <1>4, <1>5, <1>6 DEF TypeOK

LEMMA PrintfInvariant == Spec => []PrintfInv
BY PrintfStarts, PrintfStep, PTL DEF Spec

\* The cursor of tty.c never leaves the screen and the scanner takes no argument
\* that was not passed.
THEOREM PrintfTypes == Spec => []TypeOK
BY PrintfInvariant, PrintfTyped, PTL

\* The screen shows the text, whatever was printed before and after.
THEOREM ScreenShows == Spec => []ScreenShowsText
<1>1. PrintfInv => ScreenShowsText
  BY DEF PrintfInv, ShownInv, ScreenShowsText
<1> QED BY <1>1, PrintfInvariant, PTL

\* The scanner of vprintf passes the end of a format only behind a last % or %ll.
THEOREM PassesFewEnds == Spec => []StopsAtEnd
<1>1. PrintfInv => StopsAtEnd
  BY DEF PrintfInv, ScanInv
<1> QED BY <1>1, PrintfInvariant, PTL

-----------------------------------------------------------------------------
\* A call prints what it is to print, however it is read.
Composed(c) == IF c.who = "pr_debug" THEN c.expected = <<>> ELSE \E r : ReadAs(c, r)

\* What a call has printed so far; and that this, the position and the arguments
\* taken are those of its reading: between two pieces, before the letter of a
\* %lx, or behind a last %l.
Said == SubSeq(text, call.start + 1, Len(text))
Reached(c, r, p, a, said) ==
  \/ \E k \in 0..r.n : p = r.at[k] /\ a = r.taken[k] /\ said = r.out[k]
  \/ \E k \in 1..r.n :
       /\ r.piece[k].kind = "letter" /\ p = r.at[k] - 1 /\ a = r.taken[k]
       /\ said \o <<r.piece[k].c>> = r.out[k]
  \/ r.end = <<"%", "l">> /\ p = Len(c.fmt) + 1 /\ said = c.expected

SaidInv ==
  /\ pc # "idle" => call.start \in 0..Len(text)
  /\ pc = "scan" => \E r : ReadAs(call, r) /\ Reached(call, r, pos, arg, Said)
  /\ Printed

\* Of a text that grows, what follows its first m characters grows as well.
LEMMA RestGrows ==
  ASSUME NEW t \in Seq(Char), NEW s \in Seq(Char), NEW m \in 0..Len(t)
  PROVE  /\ SubSeq(t, m + 1, Len(t)) \in Seq(Char)
         /\ SubSeq(t \o s, m + 1, Len(t \o s)) = SubSeq(t, m + 1, Len(t)) \o s
         /\ m \in 0..Len(t \o s)
<1>1. PICK n \in Nat, l \in Nat : n = Len(t) /\ l = Len(s)
  OBVIOUS
<1>2. /\ t \o s \in Seq(Char) /\ Len(t \o s) = n + l
      /\ \A j \in 1..(n + l) : (t \o s)[j] = IF j <= n THEN t[j] ELSE s[j - n]
  <2>1. /\ t \o s \in Seq(Char) /\ Len(t \o s) = Len(t) + Len(s)
        /\ \A j \in 1..(Len(t) + Len(s)) : (t \o s)[j] = IF j <= Len(t) THEN t[j] ELSE s[j - Len(t)]
    BY ConcatProperties
  <2> QED BY <1>1, <2>1, Zenon
<1>3. PICK more : more = t \o s
  OBVIOUS
<1>4. /\ m \in Nat /\ m <= n /\ m + 1 \in Int /\ n \in Int /\ n - m \in Nat /\ n + l \in Int /\ n + l - m \in Nat
      /\ n - (m + 1) + 1 = n - m /\ n + l - (m + 1) + 1 = n + l - m /\ n - m + l = n + l - m
  BY <1>1
<1>5. \A j \in Int : (m + 1) + j - 1 = m + j
  BY <1>4
<1>6. PICK a : a = SubSeq(t, m + 1, n)
  OBVIOUS
<1>7. a \in Seq(Char) /\ Len(a) = n - m /\ \A j \in 1..(n - m) : a[j] = t[m + j]
  <2>1. \A j \in (m + 1)..n : t[j] \in Char
    <3>1. \A j \in 1..n : t[j] \in Char
      BY <1>1
    <3> QED BY <1>4, <3>1
  <2>2. /\ a \in Seq(Char)
        /\ Len(a) = IF m + 1 <= n THEN n - (m + 1) + 1 ELSE 0
        /\ \A j \in 1..(n - (m + 1) + 1) : a[j] = t[(m + 1) + j - 1]
    BY <1>4, <1>6, <2>1, SubSeqProperties
  <2> QED BY <1>4, <1>5, <2>2
<1>8. PICK b : b = SubSeq(more, m + 1, n + l)
  OBVIOUS
<1>9. b \in Seq(Char) /\ Len(b) = n + l - m /\ \A j \in 1..(n + l - m) : b[j] = more[m + j]
  <2>1. \A j \in (m + 1)..(n + l) : more[j] \in Char
    <3>1. \A j \in 1..(n + l) : more[j] \in Char
      BY <1>2, <1>3
    <3> QED BY <1>4, <3>1
  <2>2. /\ b \in Seq(Char)
        /\ Len(b) = IF m + 1 <= n + l THEN n + l - (m + 1) + 1 ELSE 0
        /\ \A j \in 1..(n + l - (m + 1) + 1) : b[j] = more[(m + 1) + j - 1]
    BY <1>4, <1>8, <2>1, SubSeqProperties
  <2> QED BY <1>4, <1>5, <2>2
<1>10. PICK whole : whole = a \o s
  OBVIOUS
<1>11. /\ whole \in Seq(Char) /\ Len(whole) = n + l - m
       /\ \A j \in 1..(n + l - m) : whole[j] = IF j <= n - m THEN a[j] ELSE s[j - (n - m)]
  <2>1. /\ whole \in Seq(Char) /\ Len(whole) = Len(a) + Len(s)
        /\ \A j \in 1..(Len(a) + Len(s)) : whole[j] = IF j <= Len(a) THEN a[j] ELSE s[j - Len(a)]
    BY <1>7, <1>10, ConcatProperties
  <2>2. Len(a) = n - m /\ Len(a) + Len(s) = n + l - m
    BY <1>1, <1>4, <1>7
  <2> QED BY <2>1, <2>2, Zenon
<1>12. ASSUME NEW j \in 1..(n + l - m) PROVE b[j] = whole[j]
  <2>1. m + j \in 1..(n + l) /\ (m + j) - n = j - (n - m) /\ (m + j <= n <=> j <= n - m)
    BY <1>4
  <2>2. more[m + j] = IF m + j <= n THEN t[m + j] ELSE s[(m + j) - n]
    BY <1>2, <1>3, <2>1, Zenon
  <2>3. j <= n - m => j \in 1..(n - m)
    BY <1>4
  <2>4. b[j] = IF m + j <= n THEN t[m + j] ELSE s[(m + j) - n]
    BY <1>9, <2>2
  <2>5. whole[j] = IF j <= n - m THEN t[m + j] ELSE s[j - (n - m)]
    BY <1>7, <1>11, <2>3
  <2> QED BY <2>1, <2>4, <2>5
<1>13. b = whole
  <2>1. Len(b) = Len(whole) /\ \A j \in 1..Len(b) : b[j] = whole[j]
    BY <1>9, <1>11, <1>12
  <2> QED BY <1>9, <1>11, <2>1, SeqEqual
<1>14. m \in 0..Len(t \o s)
  BY <1>2, <1>4
<1> QED BY <1>1, <1>2, <1>3, <1>6, <1>7, <1>8, <1>10, <1>13, <1>14, Zenon

LEMMA SaidMore ==
  ASSUME ShownInv, call.start \in 0..Len(text), NEW s \in Seq(Char), Emit(s), call' = call
  PROVE  /\ Said \in Seq(Char) /\ Said' = Said \o s /\ call'.start \in 0..Len(text')
<1>1. text \in Seq(Char) /\ text' = text \o s
  BY DEF ShownInv, Emit
<1>2. Said = SubSeq(text, call.start + 1, Len(text)) /\ Said' = SubSeq(text', call'.start + 1, Len(text'))
  BY DEF Said
<1>3. /\ SubSeq(text, call.start + 1, Len(text)) \in Seq(Char)
      /\ SubSeq(text \o s, call.start + 1, Len(text \o s)) = SubSeq(text, call.start + 1, Len(text)) \o s
      /\ call.start \in 0..Len(text \o s)
  BY <1>1, RestGrows
<1> QED BY <1>1, <1>2, <1>3, Zenon

\* Which action takes the next step.
LEMMA Dispatch ==
  ASSUME Scan
  PROVE  /\ pc = "scan"
         /\ At(pos) = NUL => Return
         /\ At(pos) \notin {NUL, "%"} => Ordinary
         /\ At(pos) = "%" =>
              /\ At(pos + 1) \in Numbers => IntDirective
              /\ At(pos + 1) = "s" => StringDirective
              /\ At(pos + 1) = "l" /\ At(pos + 2) # "l" => LongDirective
              /\ At(pos + 1) = "l" /\ At(pos + 2) = "l" => LongLongDirective
              /\ At(pos + 1) \notin Numbers \cup {"l", "s"} => OtherDirective
<1>1. NUL # "%" /\ "l" \notin Numbers /\ "s" \notin Numbers /\ "l" # "s"
  BY DEF NUL, Numbers
<1>2. Return => pc = "scan" /\ At(pos) = NUL
  BY DEF Return
<1>3. Ordinary => pc = "scan" /\ At(pos) \notin {NUL, "%"}
  BY DEF Ordinary
<1>4. ASSUME NEW s, NEW taken, NEW next, Directive(s, taken, next) PROVE pc = "scan" /\ At(pos) = "%"
  BY <1>4 DEF Directive
<1>5. LongDirective => pc = "scan" /\ At(pos) = "%" /\ At(pos + 1) = "l" /\ At(pos + 2) # "l"
  BY <1>4 DEF LongDirective, Number64
<1>6. LongLongDirective => pc = "scan" /\ At(pos) = "%" /\ At(pos + 1) = "l" /\ At(pos + 2) = "l"
  BY <1>4 DEF LongLongDirective, Number64
<1>7. StringDirective => pc = "scan" /\ At(pos) = "%" /\ At(pos + 1) = "s"
  BY <1>4 DEF StringDirective
<1>8. IntDirective => pc = "scan" /\ At(pos) = "%" /\ At(pos + 1) \in Numbers
  BY <1>4 DEF IntDirective
<1>9. OtherDirective => pc = "scan" /\ At(pos) = "%" /\ At(pos + 1) \notin Numbers \cup {"l", "s"}
  BY <1>4 DEF OtherDirective
<1> QED BY <1>1, <1>2, <1>3, <1>5, <1>6, <1>7, <1>8, <1>9 DEF Scan

\* What is spelt at a position is read there.
LEMMA Spelt ==
  ASSUME ScanInv, NEW p \in Nat \ {0}, NEW s, Len(s) \in Nat, SpeltAt(call.fmt, p, s)
  PROVE  /\ p + Len(s) <= Len(call.fmt) + 1
         /\ \A j \in 0..(Len(s) - 1) : p + j <= Len(call.fmt) /\ At(p + j) = s[j + 1]
<1>1. PICK n \in Nat, l \in Nat : n = Len(call.fmt) /\ l = Len(s)
  BY DEF ScanInv, CallTyped
<1>2. p + l <= n + 1 /\ \A j \in 1..l : call.fmt[p + j - 1] = s[j]
  BY <1>1 DEF SpeltAt
<1>3. ASSUME NEW j \in 0..(l - 1) PROVE p + j <= n /\ At(p + j) = s[j + 1]
  <2>1. j + 1 \in 1..l /\ p + (j + 1) - 1 = p + j /\ p + j <= n
    BY <1>1, <1>2
  <2> QED BY <1>1, <1>2, <2>1 DEF At
<1> QED BY <1>1, <1>2, <1>3

LEMMA StillReads ==
  ASSUME call' = call, pc' \in {"scan", "beyond"}, call'.start \in 0..Len(text'),
         NEW r, ReadAs(call, r), pc' = "scan" => Reached(call, r, pos', arg', Said')
  PROVE  SaidInv'
BY DEF SaidInv, Printed

\* r reads the call and the first k of its pieces have been printed.
Standing(r, k) ==
  /\ ReadAs(call, r) /\ k \in 0..r.n
  /\ pos = r.at[k] /\ arg = r.taken[k] /\ Said = r.out[k]

LEMMA Piece ==
  ASSUME ScanInv, NEW r, NEW k \in Nat, Standing(r, k), k # r.n
  PROVE  /\ k + 1 \in 1..r.n /\ IsPiece(r.piece[k + 1])
         /\ SpeltAt(call.fmt, pos, Spelling(r.piece[k + 1]))
         /\ r.at[k + 1] = pos + Len(Spelling(r.piece[k + 1]))
         /\ r.taken[k + 1] = arg + IF Takes(r.piece[k + 1]) THEN 1 ELSE 0
         /\ r.out[k + 1] = Said \o Shows(r.piece[k + 1], call.args[arg + 1])
<1>1. r.n \in Nat /\ k \in 0..r.n /\ pos = r.at[k] /\ arg = r.taken[k] /\ Said = r.out[k]
  BY DEF Standing, ReadAs
<1>2. k + 1 \in 1..r.n /\ (k + 1) - 1 = k
  BY <1>1
<1>3. \A j \in 1..r.n :
        /\ IsPiece(r.piece[j])
        /\ SpeltAt(call.fmt, r.at[j - 1], Spelling(r.piece[j]))
        /\ r.at[j] = r.at[j - 1] + Len(Spelling(r.piece[j]))
        /\ r.taken[j] = r.taken[j - 1] + IF Takes(r.piece[j]) THEN 1 ELSE 0
        /\ r.out[j] = r.out[j - 1] \o Shows(r.piece[j], call.args[r.taken[j - 1] + 1])
  BY DEF Standing, ReadAs
<1> QED BY <1>1, <1>2, <1>3, Zenon

\* A step that prints a whole piece.
LEMMA PieceDone ==
  ASSUME PrintfInv, SaidInv, pc = "scan", NEW r, NEW k \in Nat, Standing(r, k), k # r.n,
         NEW s \in Seq(Char), s = Shows(r.piece[k + 1], call.args[arg + 1]),
         Emit(s), call' = call, pc' \in {"scan", "beyond"},
         pos' = pos + Len(Spelling(r.piece[k + 1])),
         arg' = arg + IF Takes(r.piece[k + 1]) THEN 1 ELSE 0
  PROVE  SaidInv'
<1>1. /\ k + 1 \in 1..r.n /\ pos' = r.at[k + 1] /\ arg' = r.taken[k + 1] /\ r.out[k + 1] = Said \o s
  BY Piece DEF PrintfInv
<1>2. Said' = Said \o s /\ call'.start \in 0..Len(text')
  <2>1. call.start \in 0..Len(text)
    BY DEF SaidInv
  <2> QED BY <2>1, SaidMore DEF PrintfInv
<1>3. k + 1 \in 0..r.n
  BY <1>1
<1>4. Reached(call, r, pos', arg', Said')
  BY <1>1, <1>2, <1>3 DEF Reached
<1>5. ReadAs(call, r)
  BY DEF Standing
<1> QED BY <1>2, <1>4, <1>5, StillReads

LEMMA PlainRead ==
  ASSUME PrintfInv, SaidInv, Scan, NEW r, NEW k \in Nat, Standing(r, k), k # r.n,
         r.piece[k + 1].kind = "plain"
  PROVE  SaidInv'
<1> DEFINE p == r.piece[k + 1]
<1>1. IsPiece(p) /\ SpeltAt(call.fmt, pos, Spelling(p))
  BY Piece DEF PrintfInv
<1>2. Spelling(p) = <<p.c>> /\ Shows(p, call.args[arg + 1]) = <<p.c>> /\ ~Takes(p)
  BY DEF Spelling, Shows, Takes
<1>3. p.c \notin {"%", NUL}
  BY <1>1 DEF IsPiece
<1> HIDE DEF p
<1>4. Len(<<p.c>>) = 1 /\ <<p.c>>[1] = p.c
  OBVIOUS
<1>5. ScanInv /\ pos \in Nat \ {0} /\ arg \in Nat
  BY DEF PrintfInv, ScanInv
<1>6. At(pos) = p.c
  <2>1. \A j \in 0..(1 - 1) : At(pos + j) = <<p.c>>[j + 1]
    BY <1>1, <1>2, <1>4, <1>5, Spelt
  <2>2. pos + 0 = pos /\ 0 \in 0..(1 - 1) /\ 0 + 1 = 1
    BY <1>5
  <2> QED BY <1>4, <2>1, <2>2
<1>7. Ordinary /\ pc = "scan"
  BY <1>3, <1>6, Dispatch
<1>8. Emit(<<p.c>>) /\ pos' = pos + 1 /\ pc' = pc /\ call' = call /\ arg' = arg
  BY <1>6, <1>7 DEF Ordinary
<1>9. <<p.c>> \in Seq(Char)
  <2>1. p.c \in Char
    BY <1>5, <1>6, Reading
  <2> QED BY <2>1
<1>10. arg' = arg + 0
  BY <1>5, <1>8
<1> QED BY <1>2, <1>4, <1>7, <1>8, <1>9, <1>10, PieceDone DEF p

\* A step of a directive that is a whole piece.
LEMMA DirectiveDone ==
  ASSUME PrintfInv, SaidInv, pc = "scan", NEW r, NEW k \in Nat, Standing(r, k), k # r.n,
         NEW s \in Seq(Char), s = Shows(r.piece[k + 1], call.args[arg + 1]),
         NEW taken, taken = IF Takes(r.piece[k + 1]) THEN 1 ELSE 0,
         NEW next, next = pos + Len(Spelling(r.piece[k + 1])),
         Directive(s, taken, next)
  PROVE  SaidInv'
BY PieceDone DEF Directive

\* The letters of a directive.
LEMMA TwoLetters ==
  ASSUME ScanInv, NEW c, SpeltAt(call.fmt, pos, <<"%", c>>)
  PROVE  At(pos) = "%" /\ At(pos + 1) = c
<1>1. Len(<<"%", c>>) = 2 /\ <<"%", c>>[1] = "%" /\ <<"%", c>>[2] = c
  OBVIOUS
<1>2. pos \in Nat \ {0} /\ pos + 0 = pos
  BY DEF ScanInv
<1>3. \A j \in 0..(2 - 1) : At(pos + j) = <<"%", c>>[j + 1]
  BY <1>1, <1>2, Spelt
<1>4. 0 \in 0..(2 - 1) /\ 1 \in 0..(2 - 1) /\ 0 + 1 = 1 /\ 1 + 1 = 2
  OBVIOUS
<1> QED BY <1>1, <1>2, <1>3, <1>4, Zenon

LEMMA ThreeLetters ==
  ASSUME ScanInv, NEW c, SpeltAt(call.fmt, pos, <<"%", "l", c>>)
  PROVE  At(pos) = "%" /\ At(pos + 1) = "l" /\ At(pos + 2) = c
<1>1. Len(<<"%", "l", c>>) = 3 /\ <<"%", "l", c>>[1] = "%" /\ <<"%", "l", c>>[2] = "l" /\ <<"%", "l", c>>[3] = c
  OBVIOUS
<1>2. pos \in Nat \ {0} /\ pos + 0 = pos
  BY DEF ScanInv
<1>3. \A j \in 0..(3 - 1) : At(pos + j) = <<"%", "l", c>>[j + 1]
  BY <1>1, <1>2, Spelt
<1>4. 0 \in 0..(3 - 1) /\ 1 \in 0..(3 - 1) /\ 2 \in 0..(3 - 1) /\ 0 + 1 = 1 /\ 1 + 1 = 2 /\ 2 + 1 = 3
  OBVIOUS
<1> QED BY <1>1, <1>2, <1>3, <1>4, Zenon

LEMMA FourLetters ==
  ASSUME ScanInv, NEW c, SpeltAt(call.fmt, pos, <<"%", "l", "l", c>>)
  PROVE  At(pos) = "%" /\ At(pos + 1) = "l" /\ At(pos + 2) = "l" /\ At(pos + 3) = c
<1> DEFINE s == <<"%", "l", "l", c>>
<1>1. Len(s) = 4 /\ s[1] = "%" /\ s[2] = "l" /\ s[3] = "l" /\ s[4] = c
  OBVIOUS
<1>2. pos \in Nat \ {0} /\ pos + 0 = pos
  BY DEF ScanInv
<1> HIDE DEF s
<1>3. \A j \in 0..(4 - 1) : At(pos + j) = s[j + 1]
  BY <1>1, <1>2, Spelt DEF s
<1>4. /\ 0 \in 0..(4 - 1) /\ 1 \in 0..(4 - 1) /\ 2 \in 0..(4 - 1) /\ 3 \in 0..(4 - 1)
      /\ 0 + 1 = 1 /\ 1 + 1 = 2 /\ 2 + 1 = 3 /\ 3 + 1 = 4
  OBVIOUS
<1> QED BY <1>1, <1>2, <1>3, <1>4, Zenon

LEMMA OtherRead ==
  ASSUME PrintfInv, SaidInv, Scan, NEW r, NEW k \in Nat, Standing(r, k), k # r.n,
         r.piece[k + 1].kind = "other"
  PROVE  SaidInv'
<1> DEFINE p == r.piece[k + 1]
<1>1. IsPiece(p) /\ SpeltAt(call.fmt, pos, Spelling(p))
  BY Piece DEF PrintfInv
<1>2. Spelling(p) = <<"%", p.c>> /\ Shows(p, call.args[arg + 1]) = <<p.c>> /\ ~Takes(p)
  BY DEF Spelling, Shows, Takes
<1>3. p.c \notin Numbers \cup {"l", "s"}
  BY <1>1 DEF IsPiece
<1> HIDE DEF p
<1>4. ScanInv /\ pos \in Nat \ {0} /\ pos + 1 \in Nat \ {0}
  BY DEF PrintfInv, ScanInv
<1>5. At(pos) = "%" /\ At(pos + 1) = p.c
  BY <1>1, <1>2, <1>4, TwoLetters
<1>6. OtherDirective /\ pc = "scan"
  BY <1>3, <1>5, Dispatch
<1>7. Directive(<<p.c>>, 0, pos + 2)
  BY <1>5, <1>6 DEF OtherDirective
<1>8. <<p.c>> \in Seq(Char) /\ Len(<<"%", p.c>>) = 2
  <2>1. p.c \in Char
    BY <1>4, <1>5, Reading
  <2> QED BY <2>1
<1> QED BY <1>2, <1>6, <1>7, <1>8, DirectiveDone DEF p

LEMMA StringRead ==
  ASSUME PrintfInv, SaidInv, Scan, NEW r, NEW k \in Nat, Standing(r, k), k # r.n,
         r.piece[k + 1].kind = "string"
  PROVE  SaidInv'
<1> DEFINE p == r.piece[k + 1]
           str == call.args[arg + 1].string
           s == IF str = NUL THEN <<"(", "n", "u", "l", "l", ")">> ELSE <<str, str>>
<1>1. IsPiece(p) /\ SpeltAt(call.fmt, pos, Spelling(p))
  BY Piece DEF PrintfInv
<1>2. Spelling(p) = <<"%", p.c>> /\ Shows(p, call.args[arg + 1]) = s /\ Takes(p)
  BY DEF Spelling, Shows, Takes
<1>3. p.c = "s"
  BY <1>1 DEF IsPiece
<1> HIDE DEF p
<1>4. ScanInv
  BY DEF PrintfInv
<1>5. At(pos) = "%" /\ At(pos + 1) = "s"
  BY <1>1, <1>2, <1>3, <1>4, TwoLetters
<1>6. StringDirective /\ pc = "scan"
  BY <1>5, Dispatch
<1>7. Directive(s, 1, pos + 2)
  BY <1>6 DEF StringDirective
<1>8. s \in Seq(Char)
  <2>1. str \in STRING
    BY <1>4, <1>5, <1>6, Passed
  <2> QED BY <2>1, ShownString
<1>9. Len(<<"%", p.c>>) = 2
  OBVIOUS
<1> HIDE DEF s, str
<1> QED BY <1>2, <1>6, <1>7, <1>8, <1>9, DirectiveDone DEF p

\* The argument a directive takes.
LEMMA Argument ==
  ASSUME PrintfInv, pc = "scan", NEW r, ReadAs(call, r), At(pos) = "%",
         At(pos + 1) \in {"d", "i", "o", "x", "u", "l", "s"}
  PROVE  Word \in Nat /\ Word < Power[LONG]
<1>1. arg + 1 \in 1..Len(call.args) /\ call.args[arg + 1] \in [word : Nat, string : STRING]
  BY Passed DEF PrintfInv
<1>2. \A k \in 1..Len(call.args) : call.args[k].word < Power[LONG]
  BY DEF ReadAs
<1> QED BY <1>1, <1>2 DEF Word

LEMMA IntRead ==
  ASSUME PrintfInv, SaidInv, Scan, NEW r, NEW k \in Nat, Standing(r, k), k # r.n,
         r.piece[k + 1].kind = "int"
  PROVE  SaidInv'
<1> DEFINE p == r.piece[k + 1]
<1>1. IsPiece(p) /\ SpeltAt(call.fmt, pos, Spelling(p))
  BY Piece DEF PrintfInv
<1>2. Spelling(p) = <<"%", p.c>> /\ Shows(p, call.args[arg + 1]) = Meaning(p.c, INT, Word) /\ Takes(p)
  BY DEF Spelling, Shows, Takes, Word
<1>3. p.c \in Numbers
  BY <1>1 DEF IsPiece
<1> HIDE DEF p
<1>4. ScanInv
  BY DEF PrintfInv
<1>5. At(pos) = "%" /\ At(pos + 1) = p.c
  BY <1>1, <1>2, <1>4, TwoLetters
<1>6. IntDirective /\ pc = "scan"
  BY <1>3, <1>5, Dispatch
<1>7. Word \in Nat
  <2>1. ReadAs(call, r) /\ At(pos + 1) \in {"d", "i", "o", "x", "u", "l", "s"}
    BY <1>3, <1>5 DEF Standing, Numbers
  <2> QED BY <1>5, <1>6, <2>1, Argument
<1>8. Directive(fmtnum32(p.c, Word), 1, pos + 2)
  BY <1>5, <1>6 DEF IntDirective
<1>9. fmtnum32(p.c, Word) \in Seq(Char) /\ fmtnum32(p.c, Word) = Meaning(p.c, INT, Word)
  BY <1>3, <1>7, NumbersTyped, IntsPrinted
<1>10. Len(<<"%", p.c>>) = 2
  OBVIOUS
<1> QED BY <1>2, <1>6, <1>8, <1>9, <1>10, DirectiveDone DEF p

LEMMA LongRead ==
  ASSUME PrintfInv, SaidInv, Scan, NEW r, NEW k \in Nat, Standing(r, k), k # r.n,
         r.piece[k + 1].kind = "long"
  PROVE  SaidInv'
<1> DEFINE p == r.piece[k + 1]
<1>1. IsPiece(p) /\ SpeltAt(call.fmt, pos, Spelling(p))
  BY Piece DEF PrintfInv
<1>2. /\ Spelling(p) = <<"%", "l", "l", p.c>> /\ Shows(p, call.args[arg + 1]) = Meaning(p.c, LONG, Word)
      /\ Takes(p)
  BY DEF Spelling, Shows, Takes, Word
<1>3. p.c \in Numbers
  BY <1>1 DEF IsPiece
<1> HIDE DEF p
<1>4. ScanInv
  BY DEF PrintfInv
<1>5. At(pos) = "%" /\ At(pos + 1) = "l" /\ At(pos + 2) = "l" /\ At(pos + 3) = p.c
  BY <1>1, <1>2, <1>4, FourLetters
<1>6. LongLongDirective /\ pc = "scan"
  BY <1>5, Dispatch
<1>7. Word \in Nat /\ Word < Power[LONG]
  <2>1. ReadAs(call, r)
    BY DEF Standing
  <2> QED BY <1>5, <1>6, <2>1, Argument
<1>8. Directive(fmtnum64(p.c, Word), 1, pos + 4)
  BY <1>3, <1>5, <1>6 DEF LongLongDirective, Number64
<1>9. fmtnum64(p.c, Word) \in Seq(Char) /\ fmtnum64(p.c, Word) = Meaning(p.c, LONG, Word)
  BY <1>3, <1>7, NumbersTyped, LongsPrinted
<1>10. Len(<<"%", "l", "l", p.c>>) = 4
  OBVIOUS
<1> QED BY <1>2, <1>6, <1>8, <1>9, <1>10, DirectiveDone DEF p

\* %lx: the number now, its letter in the next step.
LEMMA LetterRead ==
  ASSUME PrintfInv, SaidInv, Scan, NEW r, NEW k \in Nat, Standing(r, k), k # r.n,
         r.piece[k + 1].kind = "letter"
  PROVE  SaidInv'
<1> DEFINE p == r.piece[k + 1]
           s == fmtnum64(p.c, Word)
<1>1. /\ IsPiece(p) /\ SpeltAt(call.fmt, pos, Spelling(p)) /\ k + 1 \in 1..r.n
      /\ r.at[k + 1] = pos + Len(Spelling(p)) /\ r.taken[k + 1] = arg + IF Takes(p) THEN 1 ELSE 0
      /\ r.out[k + 1] = Said \o Shows(p, call.args[arg + 1])
  BY Piece DEF PrintfInv
<1>2. /\ Spelling(p) = <<"%", "l", p.c>> /\ Takes(p)
      /\ Shows(p, call.args[arg + 1]) = Meaning(p.c, LONG, Word) \o <<p.c>>
  BY DEF Spelling, Shows, Takes, Word
<1>3. p.c \in Numbers /\ p.c # "l" /\ p.kind = "letter"
  BY <1>1 DEF IsPiece, Numbers
<1> HIDE DEF p
<1>4. ScanInv /\ pos \in Nat \ {0} /\ pos + 2 \in Nat \ {0} /\ arg \in Nat
  BY DEF PrintfInv, ScanInv
<1>5. At(pos) = "%" /\ At(pos + 1) = "l" /\ At(pos + 2) = p.c
  BY <1>1, <1>2, <1>4, ThreeLetters
<1>6. LongDirective /\ pc = "scan"
  BY <1>3, <1>5, Dispatch
<1>7. Word \in Nat /\ Word < Power[LONG] /\ ReadAs(call, r)
  <2>1. ReadAs(call, r)
    BY DEF Standing
  <2> QED BY <1>5, <1>6, <2>1, Argument
<1>8. Directive(s, 1, pos + 2)
  BY <1>3, <1>5, <1>6 DEF LongDirective, Number64
<1>9. s \in Seq(Char) /\ s = Meaning(p.c, LONG, Word) /\ <<p.c>> \in Seq(Char)
  <2>1. p.c \in Char
    BY <1>4, <1>5, Reading
  <2> QED BY <1>3, <1>7, <2>1, NumbersTyped, LongsPrinted
<1> HIDE DEF s
<1>10. Emit(s) /\ call' = call /\ arg' = arg + 1 /\ pos' = pos + 2 /\ pc' \in {"scan", "beyond"}
  BY <1>8 DEF Directive
<1>11. Said \in Seq(Char) /\ Said' = Said \o s /\ call'.start \in 0..Len(text')
  <2>1. call.start \in 0..Len(text)
    BY <1>6 DEF SaidInv
  <2> QED BY <1>9, <1>10, <2>1, SaidMore DEF PrintfInv
<1>12. r.piece[k + 1].kind = "letter" /\ arg' = r.taken[k + 1] /\ pos' = r.at[k + 1] - 1
  <2>1. Len(<<"%", "l", p.c>>) = 3
    OBVIOUS
  <2> QED BY <1>1, <1>2, <1>4, <1>10, <2>1
<1>13. Said' \o <<r.piece[k + 1].c>> = r.out[k + 1]
  <2>1. (Said \o s) \o <<p.c>> = Said \o (s \o <<p.c>>)
    BY <1>9, <1>11, ConcatAssociative
  <2> QED BY <1>1, <1>2, <1>9, <1>11, <2>1 DEF p
<1>14. Reached(call, r, pos', arg', Said')
  BY <1>1, <1>12, <1>13 DEF Reached
<1> QED BY <1>7, <1>10, <1>11, <1>14, StillReads

LEMMA LetterDone ==
  ASSUME PrintfInv, SaidInv, Scan, NEW r, ReadAs(call, r), NEW k \in 1..r.n,
         r.piece[k].kind = "letter", pos = r.at[k] - 1, arg = r.taken[k],
         Said \o <<r.piece[k].c>> = r.out[k]
  PROVE  SaidInv'
<1> DEFINE c == r.piece[k].c
<1>1. /\ IsPiece(r.piece[k]) /\ SpeltAt(call.fmt, r.at[k - 1], Spelling(r.piece[k]))
      /\ r.at[k] = r.at[k - 1] + Len(Spelling(r.piece[k]))
      /\ r.n \in Nat /\ r.at \in [0..r.n -> Nat \ {0}]
  BY DEF ReadAs
<1>2. c \in Numbers /\ Spelling(r.piece[k]) = <<"%", "l", c>>
  BY <1>1 DEF IsPiece, Spelling
<1> HIDE DEF c
<1>3. PICK q \in Nat \ {0} : q = r.at[k - 1]
  <2>1. k - 1 \in 0..r.n
    BY <1>1
  <2> QED BY <1>1, <2>1
<1>4. Len(<<"%", "l", c>>) = 3 /\ <<"%", "l", c>>[3] = c
  OBVIOUS
<1>5. pos = q + 2 /\ pos + 1 = r.at[k] /\ k \in 0..r.n
  <2>1. Len(Spelling(r.piece[k])) = 3
    BY <1>2, <1>4, Zenon
  <2>2. r.at[k] = q + 3
    BY <1>1, <1>3, <2>1, Zenon
  <2>3. k \in 0..r.n
    BY <1>1
  <2>4. pos = (q + 3) - 1 /\ q \in Nat
    BY <2>2
  <2>5. pos = q + 2 /\ pos + 1 = q + 3
    BY <2>4
  <2> QED BY <2>2, <2>3, <2>5
<1>6. ScanInv /\ pos \in Nat \ {0} /\ arg \in Nat
  BY DEF PrintfInv, ScanInv
<1>7. At(pos) = c
  <2>1. \A j \in 0..(3 - 1) : At(q + j) = <<"%", "l", c>>[j + 1]
    <3>1. SpeltAt(call.fmt, q, <<"%", "l", c>>)
      BY <1>1, <1>2, <1>3, Zenon
    <3> QED BY <1>4, <1>6, <3>1, Spelt
  <2>2. 2 \in 0..(3 - 1) /\ 2 + 1 = 3
    OBVIOUS
  <2>3. At(q + 2) = <<"%", "l", c>>[3]
    BY <2>1, <2>2
  <2>4. q + 2 = pos
    BY <1>5
  <2> QED BY <1>4, <2>3, <2>4, Zenon
<1>8. Ordinary /\ pc = "scan"
  <2>1. c \notin {NUL, "%"}
    BY <1>2 DEF Numbers, NUL
  <2> QED BY <1>7, <2>1, Dispatch
<1>9. Emit(<<c>>) /\ call' = call /\ pos' = pos + 1 /\ arg' = arg /\ pc' = "scan"
  BY <1>7, <1>8 DEF Ordinary
<1>10. <<c>> \in Seq(Char)
  <2>1. c \in Char
    BY <1>6, <1>7, Reading
  <2> QED BY <2>1
<1>11. Said' = Said \o <<c>> /\ call'.start \in 0..Len(text')
  <2>1. call.start \in 0..Len(text)
    BY <1>8 DEF SaidInv
  <2> QED BY <1>9, <1>10, <2>1, SaidMore DEF PrintfInv
<1>12. Reached(call, r, pos', arg', Said')
  BY <1>5, <1>9, <1>11 DEF Reached, c
<1> QED BY <1>9, <1>11, <1>12, StillReads

\* At the NUL the call has printed what it is to print.
LEMMA EndRead ==
  ASSUME PrintfInv, SaidInv, Scan, pos = Len(call.fmt) + 1, Said = call.expected
  PROVE  SaidInv'
<1>1. At(pos) = NUL
  <2>1. ScanInv /\ pos \in Nat \ {0} /\ Len(call.fmt) \in Nat
    BY DEF PrintfInv, ScanInv, CallTyped
  <2>2. pos > Len(call.fmt)
    BY <2>1
  <2> QED BY <2>1, <2>2, Reading
<1>2. Return /\ pc = "scan"
  BY <1>1, Dispatch
<1>3. pc' = "done" /\ call' = call /\ text' = text
  BY <1>2 DEF Return
<1>4. call.start \in 0..Len(text)
  BY <1>2 DEF SaidInv
<1>5. Printed'
  BY <1>3 DEF Printed, Said
<1> QED BY <1>3, <1>4, <1>5 DEF SaidInv

\* What is at the end of a format is cut short, or nothing.
LEMMA CutShort ==
  ASSUME PrintfInv, SaidInv, Scan, NEW r, Standing(r, r.n)
  PROVE  SaidInv'
<1>1. /\ ReadAs(call, r) /\ r.end \in Ends /\ SpeltAt(call.fmt, pos, r.end)
      /\ pos + Len(r.end) = Len(call.fmt) + 1 /\ Said = call.expected
  BY DEF Standing, ReadAs
<1>2. /\ ScanInv /\ ShownInv /\ pos \in Nat \ {0} /\ Len(call.fmt) \in Nat
      /\ pos + 1 \in Nat \ {0} /\ pos + 2 \in Nat \ {0} /\ pos + 3 \in Nat \ {0}
  BY DEF PrintfInv, ScanInv, CallTyped
<1>3. pc = "scan" /\ call.start \in 0..Len(text)
  <2>1. pc = "scan"
    BY Dispatch
  <2> QED BY <2>1 DEF SaidInv
<1>4. NUL \notin Numbers \cup {"l", "s"} /\ "l" \notin Numbers
  BY DEF NUL, Numbers
<1>5. ASSUME NEW s \in Seq(Char), NEW next, Directive(s, 0, next)
      PROVE  /\ call' = call /\ call'.start \in 0..Len(text') /\ Said' = Said \o s /\ pos' = next
             /\ pc' = IF next > Len(call.fmt) + 1 THEN "beyond" ELSE "scan"
  BY <1>2, <1>3, <1>5, SaidMore DEF Directive
<1>6. CASE r.end = <<>>
  <2>1. pos = Len(call.fmt) + 1
    BY <1>1, <1>2, <1>6
  <2> QED BY <1>1, <2>1, EndRead
<1>7. CASE r.end = <<"%">>
  <2>1. Len(<<"%">>) = 1 /\ <<"%">>[1] = "%"
    OBVIOUS
  <2>2. pos = Len(call.fmt) /\ pos + 1 > Len(call.fmt) /\ pos + 2 > Len(call.fmt) + 1
    BY <1>1, <1>2, <1>7, <2>1
  <2>3. At(pos) = "%" /\ At(pos + 1) = NUL
    <3>1. \A j \in 0..(1 - 1) : At(pos + j) = <<"%">>[j + 1]
      BY <1>1, <1>2, <1>7, <2>1, Spelt
    <3>2. 0 \in 0..(1 - 1) /\ 0 + 1 = 1 /\ pos + 0 = pos
      BY <1>2
    <3> QED BY <1>2, <2>1, <2>2, <3>1, <3>2, Reading
  <2>4. OtherDirective
    BY <1>4, <2>3, Dispatch
  <2>5. Directive(<<NUL>>, 0, pos + 2) /\ <<NUL>> \in Seq(Char)
    <3>1. NUL \in Char
      BY DEF Char
    <3> QED BY <2>3, <2>4, <3>1 DEF OtherDirective
  <2>6. call' = call /\ call'.start \in 0..Len(text') /\ pc' = "beyond"
    BY <1>5, <2>2, <2>5
  <2> QED BY <1>1, <2>6, StillReads
<1>8. CASE r.end = <<"%", "l">>
  <2>1. Len(<<"%", "l">>) = 2
    OBVIOUS
  <2>2. pos + 2 = Len(call.fmt) + 1 /\ pos + 2 > Len(call.fmt) /\ ~(pos + 2 > Len(call.fmt) + 1)
    BY <1>1, <1>2, <1>8, <2>1
  <2>3. At(pos) = "%" /\ At(pos + 1) = "l" /\ At(pos + 2) = NUL
    BY <1>1, <1>2, <1>8, <2>2, TwoLetters, Reading
  <2>4. LongDirective
    BY <1>4, <2>3, Dispatch
  <2>5. Directive(<<>>, 0, pos + 2) /\ <<>> \in Seq(Char)
    BY <1>4, <2>3, <2>4 DEF LongDirective, Number64
  <2>6. call' = call /\ call'.start \in 0..Len(text') /\ pc' = "scan" /\ Said' = Said \o <<>> /\ pos' = pos + 2
    BY <1>5, <2>2, <2>5
  <2>7. Said' = call.expected
    <3>1. Said \in Seq(Char)
      BY <1>2, <1>3, <2>5, SaidMore DEF Directive
    <3>2. Said \o <<>> = Said
      BY <3>1, ConcatEmptySeq
    <3> QED BY <1>1, <2>6, <3>2
  <2>8. Reached(call, r, pos', arg', Said')
    BY <1>8, <2>2, <2>6, <2>7 DEF Reached
  <2> QED BY <1>1, <2>6, <2>8, StillReads
<1>9. CASE r.end = <<"%", "l", "l">>
  <2>1. Len(<<"%", "l", "l">>) = 3
    OBVIOUS
  <2>2. pos + 3 > Len(call.fmt) /\ pos + 4 > Len(call.fmt) + 1
    BY <1>1, <1>2, <1>9, <2>1
  <2>3. At(pos) = "%" /\ At(pos + 1) = "l" /\ At(pos + 2) = "l" /\ At(pos + 3) = NUL
    BY <1>1, <1>2, <1>9, <2>2, ThreeLetters, Reading
  <2>4. LongLongDirective
    BY <2>3, Dispatch
  <2>5. Directive(<<>>, 0, pos + 4) /\ <<>> \in Seq(Char)
    BY <1>4, <2>3, <2>4 DEF LongLongDirective, Number64
  <2>6. call' = call /\ call'.start \in 0..Len(text') /\ pc' = "beyond"
    BY <1>5, <2>2, <2>5
  <2> QED BY <1>1, <2>6, StillReads
<1> QED BY <1>1, <1>6, <1>7, <1>8, <1>9 DEF Ends

LEMMA PieceRead ==
  ASSUME PrintfInv, SaidInv, Scan, NEW r, NEW k \in Nat, Standing(r, k), k # r.n
  PROVE  SaidInv'
<1>1. IsPiece(r.piece[k + 1])
  BY Piece DEF PrintfInv
<1>2. r.piece[k + 1].kind \in {"plain", "other", "string", "int", "letter", "long"}
  BY <1>1 DEF IsPiece
<1> QED BY <1>2, PlainRead, OtherRead, StringRead, IntRead, LetterRead, LongRead

LEMMA ScanReads ==
  ASSUME PrintfInv, SaidInv, Scan
  PROVE  SaidInv'
<1>1. pc = "scan"
  BY Dispatch
<1>2. PICK r : ReadAs(call, r) /\ Reached(call, r, pos, arg, Said)
  BY <1>1 DEF SaidInv
<1>3. r.n \in Nat
  BY <1>2 DEF ReadAs
<1>4. CASE \E k \in 0..r.n : pos = r.at[k] /\ arg = r.taken[k] /\ Said = r.out[k]
  <2>1. PICK k \in 0..r.n : pos = r.at[k] /\ arg = r.taken[k] /\ Said = r.out[k]
    BY <1>4
  <2>2. k \in Nat /\ Standing(r, k)
    BY <1>2, <1>3, <2>1 DEF Standing
  <2> QED BY <2>2, PieceRead, CutShort
<1>5. CASE \E k \in 1..r.n :
             /\ r.piece[k].kind = "letter" /\ pos = r.at[k] - 1 /\ arg = r.taken[k]
             /\ Said \o <<r.piece[k].c>> = r.out[k]
  BY <1>2, <1>5, LetterDone
<1>6. CASE r.end = <<"%", "l">> /\ pos = Len(call.fmt) + 1 /\ Said = call.expected
  BY <1>6, EndRead
<1> QED BY <1>2, <1>4, <1>5, <1>6 DEF Reached

\* A call starts with its caller's words and at the first piece.
LEMMA CallReads ==
  ASSUME PrintfInv, NEW c \in Calls, Composed(c), Call(c)
  PROVE  SaidInv'
<1>1. /\ text \in Seq(Char) /\ pos = 1 /\ arg = 0 /\ text' = text \o Words(c.who)
      /\ call' = [c EXCEPT !.start = Len(text)] /\ pos' = pos /\ arg' = arg
      /\ pc' = IF c.who = "pr_debug" THEN "done" ELSE "scan"
  BY DEF PrintfInv, ShownInv, ScanInv, Call, Emit
<1>2. /\ call'.start = Len(text) /\ call'.who = c.who /\ call'.fmt = c.fmt
      /\ call'.args = c.args /\ call'.expected = c.expected
  <2>1. c = [who |-> c.who, fmt |-> c.fmt, args |-> c.args, expected |-> c.expected, start |-> 0]
    BY PrintfAssumption
  <2>2. \A w, f, a, e, s :
          [[who |-> w, fmt |-> f, args |-> a, expected |-> e, start |-> 0] EXCEPT !.start = s]
            = [who |-> w, fmt |-> f, args |-> a, expected |-> e, start |-> s]
    OBVIOUS
  <2>3. call' = [who |-> c.who, fmt |-> c.fmt, args |-> c.args, expected |-> c.expected, start |-> Len(text)]
    BY <1>1, <2>1, <2>2
  <2> QED BY <2>3
<1>3. Said' = Words(c.who) /\ call'.start \in 0..Len(text')
  <2>1. Len(text) \in Nat /\ Len(text) \in 0..Len(text) /\ Words(c.who) \in Seq(Char)
    BY <1>1, CallWords
  <2>2. /\ SubSeq(text \o Words(c.who), Len(text) + 1, Len(text \o Words(c.who)))
             = SubSeq(text, Len(text) + 1, Len(text)) \o Words(c.who)
        /\ Len(text) \in 0..Len(text \o Words(c.who))
    BY <1>1, <2>1, RestGrows
  <2>3. SubSeq(text, Len(text) + 1, Len(text)) = <<>>
    <3>1. Len(text) \in Int /\ Len(text) + 1 \in Int /\ Len(text) < Len(text) + 1
      BY <2>1
    <3> QED BY <3>1, SubSeqEmpty
  <2>4. <<>> \o Words(c.who) = Words(c.who)
    BY <2>1, ConcatEmptySeq
  <2>5. Said' = SubSeq(text', call'.start + 1, Len(text'))
    BY DEF Said
  <2> QED BY <1>1, <1>2, <2>2, <2>3, <2>4, <2>5, Zenon
<1>4. CASE c.who = "pr_debug"
  <2>1. Said' = call'.expected
    BY <1>2, <1>3, <1>4 DEF Composed, Words
  <2>2. Printed'
    BY <2>1 DEF Printed, Said
  <2> QED BY <1>1, <1>3, <1>4, <2>2 DEF SaidInv
<1>5. CASE c.who # "pr_debug"
  <2>1. PICK r : ReadAs(c, r)
    BY <1>5 DEF Composed
  <2>2. ReadAs(call', r)
    BY <1>2, <2>1 DEF ReadAs
  <2>3. Reached(call', r, pos', arg', Said')
    <3>1. 0 \in 0..r.n /\ r.at[0] = 1 /\ r.taken[0] = 0 /\ r.out[0] = Words(c.who)
      BY <2>1 DEF ReadAs
    <3> QED BY <1>1, <1>3, <3>1 DEF Reached
  <2>4. pc' = "scan" /\ Printed'
    BY <1>1, <1>5 DEF Printed
  <2> QED BY <1>3, <2>2, <2>3, <2>4 DEF SaidInv
<1> QED BY <1>4, <1>5

LEMMA SaidStep ==
  ASSUME \A c \in Calls : Composed(c), PrintfInv, SaidInv, [Next]_vars
  PROVE  SaidInv'
<1>1. CASE \E c \in Calls : Call(c)
  BY <1>1, CallReads
<1>2. CASE Cls
  BY <1>2 DEF Cls, SaidInv, Printed
<1>3. CASE Scan
  BY <1>3, ScanReads
<1>4. CASE UNCHANGED vars
  BY <1>4 DEF vars, SaidInv, Printed, Said
<1>5. Ended => UNCHANGED vars
  BY DEF Ended
<1> QED BY <1>1, <1>2, <1>3, <1>4, <1>5 DEF Next

\* printf, its relatives and panic print what their calls are to print: the
\* numerals of the numbers, each letter's argument in its turn, and no more, with
\* formats of any length.  The calls are read by the pieces of their formats.
THEOREM CallsPrinted ==
  ASSUME \A c \in Calls : Composed(c)
  PROVE  Spec => []Printed
<1>1. Init => SaidInv
  BY DEF Init, SaidInv, Printed
<1>2. PrintfInv /\ SaidInv /\ [Next]_vars => SaidInv'
  BY SaidStep
<1>3. SaidInv => Printed
  BY DEF SaidInv
<1> QED BY <1>1, <1>2, <1>3, PrintfInvariant, PTL DEF Spec
=============================================================================
