------------------------------- MODULE Printf -------------------------------
(***************************************************************************)
(* lib/vprintf.c with uitoa.c and its callers (printf, pr_warn, pr_err,    *)
(* pr_debug, panic), printing on the screen of Tty.  A step is one round   *)
(* of the scanner's loop.                                                  *)
(*                                                                         *)
(* An argument is the word in its slot, with the string it points to when  *)
(* it is taken as a char *.  Words have LONG bits, an int the lower INT.   *)
(***************************************************************************)
EXTENDS Tty, FiniteSets

CONSTANTS
  LONG, INT,    \* width of uintmax_t (64) and of int (32)
  Calls,        \* what is printed: [who, fmt, args], and what it is to print; start is 0
  Befores       \* texts on the screen before

\* A caller passes an argument for every % before a letter that takes one (the
\* second % of a %%d counts too; no caller prints that).
Taking(fmt) ==
  {p \in 1..(Len(fmt) - 1) : fmt[p] = "%" /\ fmt[p + 1] \in {"d", "i", "o", "x", "u", "l", "s"}}

ASSUME PrintfAssumption ==
  /\ INT \in Nat \ {0} /\ LONG \in Nat /\ INT <= LONG
  /\ Befores \subseteq Seq(STRING)
  /\ \A c \in Calls :
       /\ c = [who |-> c.who, fmt |-> c.fmt, args |-> c.args, expected |-> c.expected, start |-> 0]
       /\ c.fmt \in Seq(STRING) /\ c.args \in Seq([word : Nat, string : STRING])
       /\ Cardinality(Taking(c.fmt)) <= Len(c.args)

VARIABLES
  pc,           \* "idle", "scan", "done" or "beyond": reading behind the end of fmt
  call,         \* the call being made, or the last one
  pos,          \* fmt, as an index
  arg,          \* arguments taken
  scr,          \* the screen
  text          \* history: all that was printed, blanked where the screen was cleared

vars == <<pc, call, pos, arg, scr, text>>

\* The number with bit n set.
Power[n \in 0..LONG] == IF n = 0 THEN 1 ELSE 2 * Power[n - 1]

NUL == "NUL"
At(p) == IF p <= Len(call.fmt) THEN call.fmt[p] ELSE NUL

-----------------------------------------------------------------------------
\* uitoa: digits from the last one on, then reversed by swapping pairs.
Digit(d) == <<"0", "1", "2", "3", "4", "5", "6", "7", "8", "9", "a", "b", "c", "d", "e", "f">>[d + 1]
Backwards(value, base) ==
  LET digits[v \in 0..value] ==
        IF v < base THEN <<Digit(v)>> ELSE <<Digit(v % base)>> \o digits[v \div base]
  IN  digits[value]
Swapped(buf) ==
  LET n == Len(buf)
  IN  [k \in 1..n |-> IF k <= n \div 2 \/ n - k + 1 <= n \div 2 THEN buf[n - k + 1] ELSE buf[k]]
uitoa(value, base) == Swapped(Backwards(value, base))

\* fmtnum: the sign of the word as an intmax_t, negated without a trap.
fmtnum(value, base, issigned) ==
  LET prefix == CASE base = 8 -> <<"0">> [] base = 16 -> <<"0", "x">> [] OTHER -> <<>>
      negative == issigned /\ value >= Power[LONG - 1]
  IN  IF negative THEN <<"-">> \o prefix \o uitoa((Power[LONG] - value) % Power[LONG], base)
      ELSE prefix \o uitoa(value, base)

\* fmtnum64 and fmtnum32: the word as it is, or its lower half extended by sign
\* (int32_t) or by zeros (uint32_t).  Other letters print nothing and take
\* no argument.
Numbers == {"d", "i", "o", "x", "u"}
Base(c) == CASE c = "o" -> 8 [] c = "x" -> 16 [] OTHER -> 10
Low(w) == w % Power[INT]
SignExtend(w) == IF Low(w) >= Power[INT - 1] THEN Low(w) + Power[LONG] - Power[INT] ELSE Low(w)
fmtnum64(c, w) == fmtnum(w, Base(c), c \in {"d", "i"})
fmtnum32_zero(c, w) == fmtnum(Low(w), Base(c), c \in {"d", "i"})   \* faulty: never by sign
fmtnum32(c, w) ==
  IF c \in {"d", "i"} THEN fmtnum(SignExtend(w), 10, TRUE) ELSE fmtnum(Low(w), Base(c), FALSE)

-----------------------------------------------------------------------------
Init ==
  /\ pc = "idle" /\ pos = 1 /\ arg = 0
  /\ call = [who |-> "none", fmt |-> <<>>, args |-> <<>>, expected |-> <<>>, start |-> 0]
  /\ text \in Befores
  /\ scr = puts(cls(Screen), text)

\* puts of the caller's own words, and the entry into vprintf.  pr_debug prints
\* only in a debug build, which this one is not.
Words(who) == CASE who = "pr_warn" -> <<"W", " ">> [] who = "pr_err" -> <<"E", " ">>
                [] who = "panic" -> <<"P", " ">> [] OTHER -> <<>>
Emit(s) == scr' = puts(scr, s) /\ text' = text \o s

Call(c) ==
  /\ pc = "idle"
  /\ call' = [c EXCEPT !.start = Len(text)]
  /\ Emit(Words(c.who))
  /\ pc' = IF c.who = "pr_debug" THEN "done" ELSE "scan"
  /\ UNCHANGED <<pos, arg>>

Cls ==
  /\ pc = "idle"
  /\ scr' = cls(scr)
  /\ text' = Blanked(text)
  /\ UNCHANGED <<pc, call, pos, arg>>

\* The loop ends at the NUL.
Return ==
  /\ pc = "scan" /\ At(pos) = NUL
  /\ pc' = "done"
  /\ UNCHANGED <<call, pos, arg, scr, text>>

Ordinary ==
  /\ pc = "scan" /\ At(pos) \notin {NUL, "%"}
  /\ Emit(<<At(pos)>>)
  /\ pos' = pos + 1
  /\ UNCHANGED <<pc, call, arg>>

\* After a %: what the branch prints, how many arguments it takes, and where fmt
\* goes on.  A position behind the NUL ends the model.
Directive(s, taken, next) ==
  /\ pc = "scan" /\ At(pos) = "%"
  /\ Emit(s)
  /\ arg' = arg + taken
  /\ pos' = next
  /\ pc' = IF next > Len(call.fmt) + 1 THEN "beyond" ELSE "scan"
  /\ UNCHANGED call

Word == call.args[arg + 1].word
Number64(c, next) == IF c \in Numbers THEN Directive(fmtnum64(c, Word), 1, next)
                     ELSE Directive(<<>>, 0, next)

\* After a single l, fmt stays on the letter, which is printed in the next round.
LongDirective ==
  /\ At(pos + 1) = "l" /\ At(pos + 2) # "l"
  /\ Number64(At(pos + 2), pos + 2)
LongLongDirective ==
  /\ At(pos + 1) = "l" /\ At(pos + 2) = "l"
  /\ Number64(At(pos + 3), pos + 4)
StringDirective ==
  /\ At(pos + 1) = "s"
  /\ LET s == call.args[arg + 1].string
     IN  Directive(IF s = NUL THEN <<"(", "n", "u", "l", "l", ")">> ELSE <<s, s>>, 1, pos + 2)
IntDirectiveTwice ==   \* faulty: fmt is advanced twice
  /\ At(pos + 1) \in Numbers
  /\ Directive(fmtnum32(At(pos + 1), Word), 1, pos + 3)
IntDirective ==
  /\ At(pos + 1) \in Numbers
  /\ Directive(fmtnum32(At(pos + 1), Word), 1, pos + 2)
OtherDirective ==
  /\ At(pos + 1) \notin Numbers \cup {"l", "s"}
  /\ Directive(<<At(pos + 1)>>, 0, pos + 2)

Scan == Return \/ Ordinary \/ LongDirective \/ LongLongDirective \/ StringDirective
          \/ IntDirective \/ OtherDirective
Ended == pc \in {"done", "beyond"} /\ UNCHANGED vars
Next == (\E c \in Calls : Call(c)) \/ Cls \/ Scan \/ Ended

Spec == Init /\ [][Next]_vars

-----------------------------------------------------------------------------
\* Types of the variables; the cursor is on the screen.
TypeOK ==
  /\ pc \in {"idle", "scan", "done", "beyond"}
  /\ pos \in Nat \ {0} /\ arg \in 0..Len(call.args)
  /\ scr.columns \in 0..(TTY_MAX_WIDTH - 1) /\ scr.lines \in 0..(TTY_MAX_HEIGHT - 1)
  /\ DOMAIN scr.video = Cells

\* The screen and the cursor show the text printed since the last full screen,
\* whatever mixture of wrapped lines, line breaks and clearing led there.
ScreenShowsText == scr = Layout(text)

\* The number a directive names, most significant digit first: digit k of n is
\* value \div base^(n - k) modulo base, for the least n that will do.
PlaceValue(base) ==
  LET value[k \in 0..LONG] == IF k = 0 THEN 1 ELSE base * value[k - 1] IN value
Numeral(value, base) ==
  LET n == CHOOSE k \in 1..LONG :
             PlaceValue(base)[k] > value /\ (k = 1 \/ PlaceValue(base)[k - 1] <= value)
  IN  [k \in 1..n |-> Digit((value \div PlaceValue(base)[n - k]) % base)]
Signed(w, bits) ==
  LET v == w % Power[bits]
  IN  IF v >= Power[bits - 1] THEN <<"-">> \o Numeral(Power[bits] - v, 10) ELSE Numeral(v, 10)
Meaning(c, bits, w) ==
  CASE c \in {"d", "i"} -> Signed(w, bits)
    [] c = "u" -> Numeral(w % Power[bits], 10)
    [] c = "o" -> <<"0">> \o Numeral(w % Power[bits], 8)
    [] c = "x" -> <<"0", "x">> \o Numeral(w % Power[bits], 16)

\* What a format is put together from: its pieces, each with the letter c that
\* ends it, how they are spelt, and what each shows when a is the argument it
\* takes, if it does.  C has no second letter after %lx; this scanner prints one.
IsPiece(p) ==
  \/ p.kind = "plain" /\ p.c \notin {"%", NUL}
  \/ p.kind = "other" /\ p.c \notin Numbers \cup {"l", "s", NUL}
  \/ p.kind = "string" /\ p.c = "s"
  \/ p.kind \in {"int", "letter", "long"} /\ p.c \in Numbers
Spelling(p) ==
  CASE p.kind = "plain" -> <<p.c>>
    [] p.kind \in {"other", "string", "int"} -> <<"%", p.c>>
    [] p.kind = "letter" -> <<"%", "l", p.c>>
    [] p.kind = "long" -> <<"%", "l", "l", p.c>>
Shows(p, a) ==
  CASE p.kind \in {"plain", "other"} -> <<p.c>>
    [] p.kind = "int" -> Meaning(p.c, INT, a.word)
    [] p.kind = "long" -> Meaning(p.c, LONG, a.word)
    [] p.kind = "letter" -> Meaning(p.c, LONG, a.word) \o <<p.c>>
    [] p.kind = "string" -> IF a.string = NUL THEN <<"(", "n", "u", "l", "l", ")">> ELSE <<a.string, a.string>>
Takes(p) == p.kind \notin {"plain", "other"}
Ends == {<<>>, <<"%">>, <<"%", "l">>, <<"%", "l", "l">>}

\* How a call is read: its format is n pieces and an end that may be cut short.
\* Piece k is spelt from position at[k - 1] on; up to its end taken[k] arguments
\* are taken and out[k] is printed.
SpeltAt(fmt, p, s) ==
  p + Len(s) <= Len(fmt) + 1 /\ \A j \in 1..Len(s) : fmt[p + j - 1] = s[j]
ReadAs(c, r) ==
  /\ \A k \in 1..Len(c.args) : c.args[k].word < Power[LONG]
  /\ r.n \in Nat /\ r.at \in [0..r.n -> Nat \ {0}] /\ r.taken \in [0..r.n -> Nat]
  /\ r.at[0] = 1 /\ r.taken[0] = 0 /\ r.out[0] = Words(c.who)
  /\ \A k \in 1..r.n :
       LET p == r.piece[k]
       IN  /\ IsPiece(p)
           /\ SpeltAt(c.fmt, r.at[k - 1], Spelling(p))
           /\ r.at[k] = r.at[k - 1] + Len(Spelling(p))
           /\ r.taken[k] = r.taken[k - 1] + IF Takes(p) THEN 1 ELSE 0
           /\ r.out[k] = r.out[k - 1] \o Shows(p, c.args[r.taken[k - 1] + 1])
  /\ r.end \in Ends /\ SpeltAt(c.fmt, r.at[r.n], r.end) /\ r.at[r.n] + Len(r.end) = Len(c.fmt) + 1
  /\ c.expected = r.out[r.n]

\* A call prints what its directives mean, piece by piece, with the arguments in
\* their order.
Printed ==
  pc = "done" => SubSeq(text, call.start + 1, Len(text)) = call.expected

\* The scanner passes the end of a format only if that ends in a % or a %ll.
StopsAtEnd ==
  pc = "beyond" =>
    LET n == Len(call.fmt)
    IN  call.fmt[n] = "%" \/ (n > 2 /\ SubSeq(call.fmt, n - 2, n) = <<"%", "l", "l">>)
=============================================================================
