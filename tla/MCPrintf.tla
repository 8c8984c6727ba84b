------------------------------ MODULE MCPrintf ------------------------------
(***************************************************************************)
(* Formats of up to two pieces and an end that may be cut short.           *)
(***************************************************************************)
EXTENDS Printf, SequencesExt

CONSTANT MCWords

MCBefores == {<<>>, <<"b">>, <<"b", "b", "b">>, <<"b", "b", "b", "b", "b">>, <<"b", "\r", "b">>}

Pieces ==
  {[kind |-> "plain", c |-> c] : c \in {"a", "l", "d", "\n"}}
  \cup {[kind |-> kind, c |-> c] : kind \in {"int", "letter", "long"}, c \in Numbers}
  \cup {[kind |-> "string", c |-> "s"], [kind |-> "other", c |-> "%"]}

Args == {<<[word |-> w, string |-> "z"], [word |-> 9, string |-> NUL]>> : w \in MCWords}

Plan(who, piece, end, args) == [who |-> who, piece |-> piece, end |-> end, args |-> args]
Plans ==
  {Plan("printf", <<p, q>>, <<>>, a) : p \in Pieces, q \in Pieces, a \in Args}
  \cup {Plan("printf", <<p>>, end, a) : p \in Pieces, end \in Ends, a \in Args}
  \cup {Plan(who, <<p>>, <<>>, a) : who \in {"pr_warn", "pr_err", "panic"}, p \in Pieces, a \in Args}

\* How the call of a plan is read.
ReadingOf(m) ==
  LET upto == 0..Len(m.piece)
      taken == [k \in upto |-> Cardinality({j \in 1..k : Takes(m.piece[j])})]
  IN  [n |-> Len(m.piece), piece |-> m.piece, end |-> m.end, taken |-> taken,
       at |-> [k \in upto |-> 1 + Len(FlattenSeq([j \in 1..k |-> Spelling(m.piece[j])]))],
       out |-> [k \in upto |->
                  Words(m.who) \o FlattenSeq([j \in 1..k |-> Shows(m.piece[j], m.args[taken[j - 1] + 1])])]]
CallOf(m) ==
  [who |-> m.who, args |-> m.args, start |-> 0, expected |-> ReadingOf(m).out[Len(m.piece)],
   fmt |-> FlattenSeq([j \in 1..Len(m.piece) |-> Spelling(m.piece[j])]) \o m.end]

MCCalls ==
  {CallOf(m) : m \in Plans}
  \cup {[CallOf(Plan("pr_debug", <<p, p>>, <<>>, a)) EXCEPT !.expected = <<>>] : p \in Pieces, a \in Args}

\* What the theorem about Printed takes for granted of the calls.
ASSUME MCCallsAreRead == \A m \in Plans : ReadAs(CallOf(m), ReadingOf(m))
=============================================================================
