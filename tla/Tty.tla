-------------------------------- MODULE Tty --------------------------------
(***************************************************************************)
(* kernel/tty.c: the cursor and the video memory, as operators from screen *)
(* to screen.  Colours are left out: every cell gets the same one.         *)
(***************************************************************************)
EXTENDS Naturals, Sequences

CONSTANTS TTY_MAX_WIDTH, TTY_MAX_HEIGHT

ASSUME TtyAssumption == TTY_MAX_WIDTH \in Nat \ {0} /\ TTY_MAX_HEIGHT \in Nat \ {0}

Cells == 0..(TTY_MAX_WIDTH * TTY_MAX_HEIGHT - 1)
LineBreaks == {"\n", "\r"}
Space == " "

\* cls leaves the cursor where it is.
cls(scr) == [scr EXCEPT !.video = [i \in Cells |-> Space]]

newline_noclear(scr) ==   \* faulty: starts over on the old text
  IF scr.lines + 1 >= TTY_MAX_HEIGHT
  THEN [scr EXCEPT !.columns = 0, !.lines = 0]
  ELSE [scr EXCEPT !.columns = 0, !.lines = @ + 1]
newline_late(scr) ==   \* faulty: > for >=
  IF scr.lines + 1 > TTY_MAX_HEIGHT
  THEN cls([scr EXCEPT !.columns = 0, !.lines = 0])
  ELSE [scr EXCEPT !.columns = 0, !.lines = @ + 1]
newline(scr) ==
  IF scr.lines + 1 >= TTY_MAX_HEIGHT
  THEN cls([scr EXCEPT !.columns = 0, !.lines = 0])
  ELSE [scr EXCEPT !.columns = 0, !.lines = @ + 1]

Write(scr, c) ==
  [scr EXCEPT !.video[scr.lines * TTY_MAX_WIDTH + scr.columns] = c, !.columns = @ + 1]
putchar(scr, c) ==
  IF c \in LineBreaks THEN newline(scr)
  ELSE IF scr.columns + 1 >= TTY_MAX_WIDTH THEN newline(Write(scr, c)) ELSE Write(scr, c)

\* lib/puts.c: every character of a string.
puts(scr, s) ==
  LET after[n \in 0..Len(s)] == IF n = 0 THEN scr ELSE putchar(after[n - 1], s[n])
  IN  after[Len(s)]

\* The statics of tty.c and a screen left by the boot loader.
Screen == [columns |-> 0, lines |-> 0, video |-> [i \in Cells |-> "?"]]

-----------------------------------------------------------------------------
\* What a text looks like: rows end at line breaks and when they are full, and a
\* full screen of rows is gone.
Rows(text) ==
  LET rows[n \in 0..Len(text)] ==
        IF n = 0 THEN <<<<>>>>
        ELSE LET done == rows[n - 1]
                 row == done[Len(done)]
                 grown == [done EXCEPT ![Len(done)] = Append(row, text[n])]
             IN  IF text[n] \in LineBreaks THEN Append(done, <<>>)
                 ELSE IF Len(row) = TTY_MAX_WIDTH - 1 THEN Append(grown, <<>>) ELSE grown
  IN  rows[Len(text)]

Layout(text) ==
  LET rows == Rows(text)
      first == ((Len(rows) - 1) \div TTY_MAX_HEIGHT) * TTY_MAX_HEIGHT
      cell(l, c) == IF first + l + 1 > Len(rows) THEN Space
                    ELSE IF c + 1 > Len(rows[first + l + 1]) THEN Space
                    ELSE rows[first + l + 1][c + 1]
  IN  [columns |-> Len(rows[Len(rows)]), lines |-> Len(rows) - 1 - first,
       video |-> [i \in Cells |-> cell(i \div TTY_MAX_WIDTH, i % TTY_MAX_WIDTH)]]

\* The text that remains of one when the screen is cleared under it.
Blanked(text) == [n \in DOMAIN text |-> IF text[n] \in LineBreaks THEN text[n] ELSE Space]
=============================================================================
