------------------------------- MODULE MCMoves -------------------------------
(* Small function bodies for LocalMoves: up to three statements around one     *)
(* branch, loop or match, over an owned local x, an integer n and an iterator. *)
EXTENDS Naturals, Sequences, SequencesExt

Expr(reads, takes, mutates) == [reads |-> reads, takes |-> takes, mutates |-> mutates]
Fresh == Expr(<<>>, {}, {})
Reads(x) == Expr(<<x>>, {}, {})
Takes(x) == Expr(<<x>>, {x}, {})
Pushes(x) == Expr(<<x>>, {}, {x})

Assign(x, form, e) == [k |-> "assign", to |-> x, form |-> form, value |-> e]
Annotated(x, form, e) == [k |-> "annotated", to |-> x, form |-> form, value |-> e]
Do(e) == [k |-> "expression", value |-> e]
Return(e) == [k |-> "return", value |-> e]
Jump(k) == [k |-> k]
If(b, o) == [k |-> "if", value |-> Reads("n"), body |-> b, orelse |-> o]
While(e, b) == [k |-> "while", value |-> e, body |-> b]
ForRange(b) == [k |-> "range", to |-> "i", value |-> Reads("n"), body |-> b]
Each(t, b) == [k |-> "each", to |-> t, value |-> Takes("it"), body |-> b]
Match(b, c) == [k |-> "match", value |-> Reads("n"),
                arms |-> <<[binds |-> {}, body |-> b], [binds |-> {"m"}, body |-> c]>>]
Augmented(x) == [k |-> "augmented", to |-> x, value |-> Reads(x)]

Atoms == {Do(Takes("x")), Do(Reads("x")), Assign("x", "plain", Fresh),
          Assign("x", "shadow", Fresh), Return(Fresh), Jump("break"), Jump("continue")}
Blocks(n) == UNION {[1 .. i -> Atoms] : i \in 1 .. n}
OneOrNone == Blocks(1) \union {<<>>}
Hiding(b) == <<[binds |-> {"x"}, body |-> b], [binds |-> {}, body |-> <<Do(Takes("x"))>>]>>
Firsts == {<<s>> : s \in Atoms} \union {<<>>}
  \union {<<If(b, o)>> : b \in Blocks(2), o \in {<<>>, <<Do(Reads("x"))>>, <<Return(Fresh)>>}}
  \union {<<If(<<>>, b)>> : b \in Blocks(2)}
  \union {<<If(<<If(b, c)>>, <<Return(Fresh)>>)>> : b \in Blocks(1), c \in OneOrNone}
  \union {<<While(Reads("n"), b)>> : b \in Blocks(2)}
  \union {<<While(Reads("n"), <<If(b, c), Return(Fresh)>>)>> : b \in Blocks(1), c \in OneOrNone}
  \union {<<While(Reads("x"), b)>> : b \in Blocks(1)}
  \union {<<ForRange(b)>> :
             b \in Blocks(1) \union {<<Assign("i", "plain", Fresh)>>,
                                    <<If(<<Do(Takes("x")), Jump("break")>>, <<>>)>>}}
  \union {<<Each(t, b)>> : t \in {"v", "x"}, b \in Blocks(1)}
  \union {<<Match(b, c)>> : b \in Blocks(1), c \in Blocks(1)}
  \union {<<[Match(<<>>, <<>>) EXCEPT !.arms = Hiding(b)]>> : b \in Blocks(1)}
Seconds == {<<>>, <<Do(Reads("x"))>>, <<Do(Takes("x"))>>, <<Do(Pushes("x"))>>,
            <<Assign("x", "plain", Takes("x"))>>,
            <<Annotated("x", "shadow", Takes("x")), Do(Pushes("x"))>>,
            <<Assign("y", "plain", Takes("x")), Do(Reads("x"))>>,
            <<Assign("y", "plain", Fresh), Assign("y", "plain", Fresh)>>,
            <<Augmented("n"), Annotated("n", "plain", Fresh)>>,
            <<Augmented("n"), Do(Reads("y"))>>, <<Annotated("z", "const", Fresh), Augmented("n")>>,
            <<Assign("it", "plain", Fresh)>>}
Tails == {s \o <<Return(Fresh)>> : s \in Seconds} \union {<<>>, <<Do(Reads("x"))>>}
Locals == {"x", "y", "z", "n", "i", "v", "m", "it"}

\* x is a parameter or a local.
Bodies ==
  {[parameters |-> {"n", "x"}, body |-> <<Assign("it", "plain", Fresh)>> \o f \o t] :
      f \in Firsts, t \in Tails}
  \union
  {[parameters |-> {"n"},
    body |-> <<Assign("it", "plain", Fresh), Assign("x", "plain", Fresh)>> \o f \o t] :
      f \in Firsts, t \in {<<Do(Reads("x"))>>, <<Do(Pushes("x")), Return(Fresh)>>}}

\* Statements and those within them.
Within(s) ==
  CASE s.k = "if" -> ToSet(s.body) \union ToSet(s.orelse)
    [] s.k \in {"while", "range", "each"} -> ToSet(s.body)
    [] s.k = "match" -> UNION {ToSet(a.body) : a \in ToSet(s.arms)}
    [] OTHER -> {}
AndWithin(statements) == statements \union UNION {Within(s) : s \in statements}
Catalog ==
  AndWithin(AndWithin(UNION {ToSet(b) : b \in Firsts \union Tails}
                      \union {Assign("it", "plain", Fresh), Assign("x", "plain", Fresh)}))
==============================================================================
