------------------------------ MODULE MCPatterns ------------------------------
(* Matches of two arms for MatchPatterns, over integers, characters, options,  *)
(* results, tuples, an enum with a unit, a tuple and a record variant, and a   *)
(* struct, with every value of the subject that the patterns tell apart.       *)
EXTENDS MatchPatterns

I8 == Primitive("i8")

\* Source patterns.
Wild == [k |-> "wild"]
Capture(x) == [k |-> "capture", name |-> x]
As(x, p) == [k |-> "as", name |-> x, pattern |-> p]
Or(p, q) == [k |-> "or", items |-> <<p, q>>]
Absent == [k |-> "none"]
Truth(n) == [k |-> "bool", n |-> n]
Number(n) == [k |-> "int", n |-> n]
Minus(n) == [k |-> "minus", n |-> n]
Letter(n) == [k |-> "char", n |-> n]
Star(x) == [k |-> "star", name |-> x]
Sequence(items) == [k |-> "sequence", items |-> items]
Path(of, variant) == [k |-> "path", of |-> of, variant |-> variant]
Class(of, variant, items) ==
  [k |-> "class", of |-> of, variant |-> variant, items |-> items, names |-> <<>>]
Fields(of, variant, names, items) ==
  [k |-> "class", of |-> of, variant |-> variant, items |-> items, names |-> names]
Between(p, q) == Class("rust", "Range", <<p, q>>)

Numbers == {Wild, Capture("a"), Number(1), Minus(1), Number(200), Between(Minus(1), Number(2)),
            Or(Number(1), Minus(1)), As("a", Or(Number(2), Number(3)))}
Truths  == {Capture("a"), Capture("b"), Truth(1), Number(1)}
Ofs(t)  == IF t = I8 THEN Numbers ELSE Truths

Odd == {Or(Capture("a"), Capture("b")), Or(Capture("a"), Number(1)), As("a", Capture("a")),
        As("a", Capture("b")), Between(Capture("a"), Number(1)), Between(Number(1), Wild),
        Between(Number(300), Number(1)), Truth(1), Absent, Letter(97), Path("E", "Unit"),
        Class("rust", "Range", <<Number(1)>>), Class("rust", "Some", <<Wild>>)}

Pairs(p, q) == {Sequence(<<a, b>>) : a \in p, b \in q}
Tuples ==
  Pairs(Numbers, Truths)
    \union {Sequence(<<Star(None), q>>) : q \in Truths}
    \union {Sequence(<<p, Star(None)>>) : p \in Numbers}
    \union {Sequence(<<p, Star(None), q>>) : p \in {Number(1), Capture("a")}, q \in Truths}
    \union {Sequence(<<Capture("a")>>), Sequence(<<Star("rest")>>), Sequence(<<Star(None)>>),
            Sequence(<<Star(None), Star(None)>>), Sequence(<<Wild, Wild, Star(None), Wild>>),
            Or(Sequence(<<Capture("a"), Truth(1)>>), Sequence(<<Capture("a"), Wild>>)),
            Or(Sequence(<<Capture("a"), Wild>>), Sequence(<<Wild, Capture("a")>>))}

Cases ==
  {Path("E", "Unit"), Path("E", "Pair"), Path("E", "Lost"), Path("F", "Unit"),
   Class("E", "Unit", <<>>), Class("E", "Named", <<Wild>>), Class("E", "Pair", <<Wild>>),
   Fields("E", "Pair", <<"_0">>, <<Wild>>), Class("E", "Lost", <<>>),
   Fields("E", "Named", <<"x", "x">>, <<Wild, Wild>>), Fields("E", "Named", <<"z">>, <<Wild>>)}
    \union {Class("E", "Pair", <<p, q>>) : p \in Numbers, q \in Truths}
    \union {Fields("E", "Named", <<"y", "x">>, <<q, p>>) : p \in Numbers, q \in Truths}
    \union {Fields("E", "Named", <<"x">>, <<p>>) : p \in Numbers}

StructPatterns ==
  {Class("P", None, <<>>), Class("P", None, <<Wild>>), Class("Q", None, <<>>)}
    \union {Fields("P", None, <<"x", "y">>, <<p, q>>) : p \in Numbers, q \in Truths}
    \union {Fields("P", None, <<n>>, <<Wild>>) : n \in {"x", "z"}}

\* For each type its patterns, its refutable or last arms, and its values.
Whole(n) == Value("int", n, <<>>)
Flag(n) == Value("bool", n, <<>>)
Ints == {Whole(n) : n \in {-2, -1, 0, 1, 2, 3}}
Flags == {Flag(0), Flag(1)}
Two(tag) == {Value(tag, 0, <<i, f>>) : i \in Ints, f \in Flags}

Boxed(of, name, p) == {Class(of, name, <<x>>) : x \in p}

Types == {I8, Primitive("u8"), Char, Bool, String, Option(I8), ResultOf(I8, Bool),
          Tuple(<<I8, Bool>>), Primitive("E"), Primitive("P")}

Patterns(t) ==
  CASE t.name = "i8" -> Numbers \union Odd
    [] t.name = "u8" -> {Number(200), Number(300), Minus(1), Between(Number(1), Number(2))}
    [] t = Char -> {Letter(97), Number(97), Between(Letter(97), Letter(98)), Truth(1)}
    [] t = Bool -> Truths \union {Truth(0), Between(Truth(0), Truth(1))}
    [] t = String -> {Letter(97), Capture("a")}
    [] t.name = "Option" ->
         {Absent, Class("rust", "Some", <<>>), Class("rust", "Ok", <<Wild>>),
          As("b", Class("rust", "Some", <<Capture("a")>>))} \union Boxed("rust", "Some", Numbers)
    [] t.name = "Result" ->
         Boxed("rust", "Ok", Numbers) \union Boxed("rust", "Err", Truths) \union {Absent}
    [] t.name = "Tuple" -> Tuples
    [] t.name = "E" -> Cases
    [] t.name = "P" -> StructPatterns \union {Sequence(<<Wild>>)}

Values(t) ==
  CASE IsInteger(t) -> Ints
    [] t = Char -> {Value("char", n, <<>>) : n \in {96, 97, 98, 99}}
    [] t = Bool -> Flags
    [] t = String -> {Value("text", 0, <<>>)}
    [] t.name = "Option" -> {Value("None", 0, <<>>)} \union {Value("Some", 0, <<i>>) : i \in Ints}
    [] t.name = "Result" ->
         {Value("Ok", 0, <<i>>) : i \in Ints} \union {Value("Err", 0, <<f>>) : f \in Flags}
    [] t.name = "Tuple" -> Two("tuple")
    [] t.name = "E" -> {Value("E::Unit", 0, <<>>)} \union Two("E::Pair") \union Two("E::Named")
    [] t.name = "P" -> {Value("P", 0, <<f, i>>) : i \in Ints, f \in Flags}

\* Every pattern, before one of a few others.
Matches ==
  UNION {[type : {t}, arms : Patterns(t) \X
            (IF t.name \in {"Tuple", "E", "P"} THEN {Wild, CHOOSE p \in Patterns(t) : p.k # "or"}
             ELSE Patterns(t) \union {Wild})] : t \in Types}

VARIABLES question,  \* the match
          answer     \* its arms, lowered, once asked

LowerArms(match) == [i \in DOMAIN match.arms |-> Lower(match.arms[i], match.type)]

Accepted == answer # <<>> /\ \A arm \in ToSet(answer[1]) : arm.code = None
Emitted == [i \in DOMAIN answer[1] |-> answer[1][i].ir]

SameArm ==
  Accepted => \A v \in Values(question.type) :
                Choice(question.arms, Python, v) = Choice(Emitted, Rust, v)

Inhabits(v, t) ==
  CASE IsInteger(t) -> v.tag = "int"
    [] t = Bool -> v.tag = "bool"
    [] t = Char -> v.tag = "char"
    [] t.name = "Tuple" -> v.tag = "tuple"
    [] t.name = "Option" -> v.tag \in {"Some", "None"}
    [] t.name = "Result" -> v.tag \in {"Ok", "Err"}
    [] t.name \in DOMAIN Enums -> \E w \in Range(Enums[t.name]) : v.tag = w.rust
    [] OTHER -> v.tag \in {t.name, "text"}

NamesAsChecked ==
  Accepted =>
    \A v \in Values(question.type) :
      LET chosen == Choice(Emitted, Rust, v)
          binds  == answer[1][chosen[1]].binds
      IN chosen[1] # 0 =>
           /\ {b[1] : b \in UNION chosen[2]} = Names(binds)
           /\ Cardinality(UNION chosen[2]) = Cardinality(Names(binds))
           /\ \A b \in UNION chosen[2] : \E d \in binds : d[1] = b[1] /\ Inhabits(b[2], d[2])

(* For every value of the subject, the emitted Rust match takes the arm that   *)
(* the source match takes in Python and binds the same names to the same       *)
(* parts: tuple rests, renamed and reordered fields, ranges, alternatives and  *)
(* bound patterns select what they say.  The body of the arm finds exactly the *)
(* names its environment was given, each bound to one value of the type it was *)
(* checked with.                                                               *)
ArmsAgree == SameArm /\ NamesAsChecked
==============================================================================
