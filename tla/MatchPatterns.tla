----------------------------- MODULE MatchPatterns -----------------------------
(* The patterns of a match: how the frontend lowers one for its subject's type *)
(* (compiler/lowering/patterns.py), and, to judge it, which values the source  *)
(* pattern matches in Python and which the emitted pattern matches in Rust.    *)
(*                                                                             *)
(* A source pattern is a record with a field k; a lowered one has the code of  *)
(* a refusal or None, the pattern IR and the set of names it binds, each with  *)
(* its type.                                                                   *)
EXTENDS SemanticTypes, Integers, SequencesExt

CONSTANTS Enums,   \* enum symbol -> its variants, name -> [rust, fields, tuple]
          Structs  \* struct symbol -> its fields, each [name, rust, type]

None == "none"

Ok(ir, binds) == [code |-> None, ir |-> ir, binds |-> binds]
Refused(code) == [code |-> code, ir |-> <<>>, binds |-> {}]
Names(binds)  == {b[1] : b \in binds}

\* integer_fits, for the widths used here.
IntegerFits(n, t) ==
  CASE t.name = "i8" -> -128 <= n /\ n <= 127
    [] t.name = "u8" -> 0 <= n /\ n <= 255
    [] t.name = "i16" -> -32768 <= n /\ n <= 32767
    [] t.name = "u16" -> 0 <= n /\ n <= 65535

IsInteger(t) == t.name \in {"i8", "u8", "i16", "u16"}
IsSigned(t)  == t.name \in {"i8", "i16"}

\* _render_pattern_literal
LowerLiteral(p, t) ==
  CASE p.k = "int" /\ IsInteger(t) ->
         IF IntegerFits(p.n, t) THEN Ok(p, {}) ELSE Refused("CRAB111")
    [] p.k = "char" /\ t = Char -> Ok(p, {})
    [] OTHER -> Refused("CRAB192")

\* Children from left to right: the first refusal, or a name bound twice.
Together(lowered) ==
  FoldLeft(LAMBDA all, c :
             IF all.code # None THEN all
             ELSE IF c.code # None THEN c
             ELSE IF Names(all.binds) \cap Names(c.binds) # {} THEN Refused("CRAB192")
             ELSE Ok(Append(all.ir, c.ir), all.binds \union c.binds),
           Ok(<<>>, {}), lowered)

Wrap(lowered, build(_)) ==
  IF lowered.code # None THEN lowered ELSE Ok(build(lowered.ir), lowered.binds)

Constructor(path, style, items, names, rest) ==
  [k |-> "constructor", path |-> path, style |-> style, items |-> items,
   names |-> names, rest |-> rest]

Stars(p) == {i \in DOMAIN p.items : p.items[i].k = "star"}

\* Mutant: a rest stands for no element at all.
TypeIndexWithoutRest(p, i, arity) == IF \A s \in Stars(p) : i < s THEN i ELSE i - 1

\* Which element of the tuple a pattern of the sequence is for.
TypeIndex(p, i, arity) ==
  IF \A s \in Stars(p) : i < s THEN i ELSE arity - (Len(p.items) - i)

\* Mutant: keyword patterns go to the fields in order.
FirstField(fields, name) == 1

FieldAt(fields, name) == CHOOSE i \in DOMAIN fields : fields[i].name = name

RECURSIVE Lower(_, _)

\* _lower_domain_pattern
LowerDomain(p, path, fields, tuple) ==
  IF tuple
  THEN IF p.names # <<>> \/ Len(p.items) # Len(fields) THEN Refused("CRAB192")
       ELSE Wrap(Together([i \in DOMAIN fields |-> Lower(p.items[i], fields[i].type)]),
                 LAMBDA items : Constructor(path, "tuple", items, <<>>, FALSE))
  ELSE IF (p.names = <<>> /\ p.items # <<>>) \/ ~IsInjective(p.names) THEN Refused("CRAB102")
  ELSE IF \E n \in ToSet(p.names) : \A f \in ToSet(fields) : f.name # n THEN Refused("CRAB192")
  ELSE LET field(i) == fields[FieldAt(fields, p.names[i])]
       IN Wrap(Together([i \in DOMAIN p.names |-> Lower(p.items[i], field(i).type)]),
               LAMBDA items : Constructor(path, "record", items,
                                [i \in DOMAIN p.names |-> field(i).rust],
                                Len(p.names) < Len(fields)))

\* A class pattern; p.of and p.variant are what its dotted name resolves to.
LowerClass(p, t) ==
  LET payload(path, type) ==
        IF p.names # <<>> \/ Len(p.items) # 1 THEN Refused("CRAB102")
        ELSE Wrap(Together(<<Lower(p.items[1], type)>>),
                  LAMBDA items : Constructor(path, "tuple", items, <<>>, FALSE))
      ends == [i \in DOMAIN p.items |-> Lower(p.items[i], t)]
      literal(e) == e.ir.k \in {"int", "char"}
  IN CASE p.of = "rust" /\ p.variant = "Range" ->
            IF p.names # <<>> \/ Len(p.items) # 2 THEN Refused("CRAB102")
            ELSE IF \E i \in 1 .. 2 : ends[i].code # None
                 THEN ends[Min({i \in 1 .. 2 : ends[i].code # None})]
            ELSE IF ends[1].binds \union ends[2].binds # {} THEN Refused("CRAB102")
            ELSE IF ~(literal(ends[1]) /\ literal(ends[2]) /\ (IsInteger(t) \/ t = Char))
                 THEN Refused("CRAB192")
            ELSE Ok([k |-> "range", low |-> ends[1].ir.n, high |-> ends[2].ir.n], {})
       [] t.name = "Option" /\ p.of = "rust" /\ p.variant = "Some" -> payload("Some", Arg(t, 1))
       [] t.name = "Result" /\ p.of = "rust" /\ p.variant = "Ok" -> payload("Ok", Arg(t, 1))
       [] t.name = "Result" /\ p.of = "rust" /\ p.variant = "Err" -> payload("Err", Arg(t, 2))
       [] t.name \in DOMAIN Enums ->
            IF p.of # t.name \/ p.variant \notin DOMAIN Enums[t.name] THEN Refused("CRAB169")
            ELSE LET v == Enums[t.name][p.variant] IN LowerDomain(p, v.rust, v.fields, v.tuple)
       [] t.name \in DOMAIN Structs /\ p.of = t.name /\ p.variant = None ->
            LowerDomain(p, t.name, Structs[t.name], FALSE)
       [] OTHER -> Refused("CRAB102")

\* A dotted name: a unit variant of the subject's enum.
LowerPath(p, t) ==
  CASE t.name \notin DOMAIN Enums -> Refused("CRAB102")
    [] p.of # t.name \/ p.variant \notin DOMAIN Enums[t.name] -> Refused("CRAB169")
    [] Enums[t.name][p.variant].fields # <<>> -> Refused("CRAB192")
    [] OTHER -> Ok(Constructor(Enums[t.name][p.variant].rust, "unit", <<>>, <<>>, FALSE), {})

LowerTuple(p, t) ==
  LET arity == Len(t.arguments)
      child(i) == CASE p.items[i].k = "star" /\ p.items[i].name # None -> Refused("CRAB102")
                    [] p.items[i].k = "star" -> Ok([k |-> "rest"], {})
                    [] OTHER -> Lower(p.items[i], Arg(t, TypeIndex(p, i, arity)))
  IN CASE t.name # "Tuple" -> Refused("CRAB192")
       [] Cardinality(Stars(p)) > 1 -> Refused("CRAB102")
       [] Stars(p) = {} /\ Len(p.items) # arity -> Refused("CRAB192")
       [] Len(p.items) - 1 > arity -> Refused("CRAB192")
       [] OTHER -> Wrap(Together([i \in DOMAIN p.items |-> child(i)]),
                        LAMBDA items : [k |-> "tuple", items |-> items])

\* _lower_general_pattern
Lower(p, t) ==
  CASE p.k = "wild" -> Ok(p, {})
    [] p.k = "capture" -> Ok(p, {<<p.name, t>>})
    [] p.k = "as" ->
         LET inner == Lower(p.pattern, t)
         IN IF inner.code = None /\ p.name \in Names(inner.binds) THEN Refused("CRAB192")
            ELSE LET at == Wrap(inner, LAMBDA ir : [k |-> "at", name |-> p.name, pattern |-> ir])
                 IN IF at.code # None THEN at ELSE Ok(at.ir, at.binds \union {<<p.name, t>>})
    [] p.k = "or" ->
         LET sides == [i \in DOMAIN p.items |-> Lower(p.items[i], t)]
             bad   == SelectSeq(sides, LAMBDA s : s.code # None)
         IN IF bad # <<>> THEN Head(bad)
            ELSE IF \E i \in DOMAIN sides : sides[i].binds # sides[1].binds THEN Refused("CRAB192")
            ELSE Ok([k |-> "or", items |-> [i \in DOMAIN sides |-> sides[i].ir]], sides[1].binds)
    [] p.k = "none" ->
         IF t.name = "Option" THEN Ok(Constructor("None", "unit", <<>>, <<>>, FALSE), {})
         ELSE Refused("CRAB102")
    [] p.k = "bool" -> IF t = Bool THEN Ok(p, {}) ELSE Refused("CRAB102")
    [] p.k \in {"int", "char"} -> LowerLiteral(p, t)
    [] p.k = "minus" -> IF IsSigned(t) THEN Ok([k |-> "int", n |-> -p.n], {}) ELSE LowerPath(p, t)
    [] p.k = "path" -> LowerPath(p, t)
    [] p.k = "sequence" -> LowerTuple(p, t)
    [] p.k = "class" -> LowerClass(p, t)

------------------------------------------------------------------------------
(* Values: a tag, a number for a scalar, the items of everything else.  What a *)
(* pattern binds is a set of name and value; a match that fails is {}, one     *)
(* that succeeds a set of one such set.                                        *)

Value(tag, n, items) == [tag |-> tag, n |-> n, items |-> items]

\* Every part matches: the parts' bindings, together.
Every(parts) == IF \E i \in DOMAIN parts : parts[i] = {} THEN {}
                ELSE {UNION {UNION parts[i] : i \in DOMAIN parts}}

\* Matches of a sequence with at most one gap at position g (0 for none).
Spread(n, g, arity, match(_, _)) ==
  LET at(i) == IF i < g \/ g = 0 THEN i ELSE i + arity - n
      solid == SetToSeq((1 .. n) \ {g})
  IN IF (g = 0 /\ n # arity) \/ n - 1 > arity THEN {}
     ELSE Every([j \in DOMAIN solid |-> match(solid[j], at(solid[j]))])

FirstOf(parts) == LET hit == SelectSeq(parts, LAMBDA m : m # {})
                  IN IF hit = <<>> THEN {} ELSE Head(hit)

If(condition) == IF condition THEN {{}} ELSE {}
Gap(items, kind) ==
  IF \E i \in DOMAIN items : items[i].k = kind
  THEN CHOOSE i \in DOMAIN items : items[i].k = kind ELSE 0

\* The declared fields of a variant or a struct by what the value is tagged with.
Declared(tag) ==
  IF tag \in DOMAIN Structs THEN Structs[tag]
  ELSE (CHOOSE v \in UNION {Range(Enums[e]) : e \in DOMAIN Enums} : v.rust = tag).fields

\* Python: the source pattern on the value.
RECURSIVE Python(_, _)
Python(p, v) ==
  CASE p.k = "wild" -> {{}}
    [] p.k = "capture" -> {{<<p.name, v>>}}
    [] p.k = "as" -> Every(<<Python(p.pattern, v), {{<<p.name, v>>}}>>)
    [] p.k = "or" -> FirstOf([i \in DOMAIN p.items |-> Python(p.items[i], v)])
    [] p.k = "none" -> If(v.tag = "None")
    [] p.k \in {"int", "char", "bool"} -> If(v.n = p.n)
    [] p.k = "minus" -> If(v.n = -p.n)
    [] p.k = "path" -> If(v.tag = Enums[p.of][p.variant].rust)
    [] p.k = "sequence" ->
         Spread(Len(p.items), Gap(p.items, "star"), Len(v.items),
                LAMBDA i, j : Python(p.items[i], v.items[j]))
    [] p.k = "class" /\ p.variant = "Range" ->
         LET end(e) == IF e.k = "minus" THEN -e.n ELSE e.n
         IN If(end(p.items[1]) <= v.n /\ v.n <= end(p.items[2]))
    [] p.k = "class" /\ p.of = "rust" ->
         IF v.tag = p.variant THEN Python(p.items[1], v.items[1]) ELSE {}
    [] OTHER ->
         LET tag == IF p.variant = None THEN p.of ELSE Enums[p.of][p.variant].rust
             at(i) == IF p.names = <<>> THEN i
                      ELSE CHOOSE j \in DOMAIN v.items : Declared(tag)[j].name = p.names[i]
         IN IF v.tag # tag THEN {}
            ELSE Every([i \in DOMAIN p.items |-> Python(p.items[i], v.items[at(i)])])

\* Rust: the emitted pattern on the value.
RECURSIVE Rust(_, _)
Rust(ir, v) ==
  CASE ir.k = "wild" -> {{}}
    [] ir.k = "capture" -> {{<<ir.name, v>>}}
    [] ir.k = "at" -> Every(<<Rust(ir.pattern, v), {{<<ir.name, v>>}}>>)
    [] ir.k = "or" -> FirstOf([i \in DOMAIN ir.items |-> Rust(ir.items[i], v)])
    [] ir.k \in {"int", "char", "bool"} -> If(v.n = ir.n)
    [] ir.k = "range" -> If(ir.low <= v.n /\ v.n <= ir.high)
    [] ir.k = "tuple" -> Spread(Len(ir.items), Gap(ir.items, "rest"), Len(v.items),
                                LAMBDA i, j : Rust(ir.items[i], v.items[j]))
    [] ir.k = "constructor" ->
         LET at(i) == IF ir.style # "record" THEN i
                      ELSE CHOOSE j \in DOMAIN v.items : Declared(ir.path)[j].rust = ir.names[i]
         IN IF v.tag # ir.path THEN {}
            ELSE Every([i \in DOMAIN ir.items |-> Rust(ir.items[i], v.items[at(i)])])

\* A match: the number of the first arm that matches and what it binds.
Choice(arms, match(_, _), v) ==
  LET hits == {i \in DOMAIN arms : match(arms[i], v) # {}}
  IN IF hits = {} THEN <<0, {}>> ELSE <<Min(hits), match(arms[Min(hits)], v)>>
===============================================================================
