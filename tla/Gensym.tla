-------------------------------- MODULE Gensym --------------------------------
(* The allocator of emitted names (compiler/symbols.py): a binding keeps its   *)
(* source name if that is safe and free, and otherwise gets a name made of its *)
(* number and the source name; the compiler's temporaries come from it too.    *)
(*                                                                             *)
(* A name is a tuple of the parts it is made of, so that a source can contain  *)
(* a name that looks like a made one.                                          *)
EXTENDS Naturals, Sequences, FiniteSets

CONSTANTS Keywords,      \* names that are no Rust 2024 identifiers
          Constructors,  \* Some, Ok and Err
          BuiltinTypes   \* names of types and traits that Crabwalk renders

Namespaces == {"value", "type", "lifetime", "member"}

\* Prefixes of names that belong to the compiler.
CompilerPrefixes == [ns \in Namespaces |-> IF ns = "value" THEN {"__cw_"} ELSE {"__cw_", "__Cw"}]
Made  == [ns \in Namespaces |->
            CASE ns = "value" -> "cw_b" [] ns = "type" -> "CwT"
              [] ns = "lifetime" -> "cw_l" [] ns = "member" -> "cw_m"]

\* reserved holds made names and names that must be avoided, names the source
\* names in use.
Allocator(avoided) ==
  [next |-> 0, temporaries |-> 0,
   reserved |-> [ns \in Namespaces |-> avoided[ns]],
   names |-> [ns \in Namespaces |-> {}]]

Taken(g, ns) == g.reserved[ns] \union g.names[ns]

\* _source_candidate
Safe(name, ns) ==
  /\ name \notin Keywords
  /\ ns \in {"value", "member"} => name \notin Constructors
  /\ ns \in {"type", "lifetime"} => name \notin BuiltinTypes
  /\ name[1] \notin CompilerPrefixes[ns]

\* Mutant: a source name is only compared with other source names.
KeepsUnlessRepeated(g, name, ns) == Safe(name, ns) /\ name \notin g.names[ns]

KeepsName(g, name, ns) == Safe(name, ns) /\ name \notin Taken(g, ns)

Numbered(base, k) == IF k = 0 THEN base ELSE Append(base, k)

\* The first of base, base_1, base_2, ... that is free.
FreeName(base, taken) ==
  LET k == CHOOSE k \in 0 .. Cardinality(taken) :
             /\ Numbered(base, k) \notin taken
             /\ \A j \in 0 .. k - 1 : Numbered(base, j) \in taken
  IN Numbered(base, k)

EmittedName(g, name, ns) ==
  IF KeepsName(g, name, ns) THEN name
  ELSE FreeName(<<Made[ns], g.next, name>>, Taken(g, ns))

\* The allocator after bind.
Bound(g, name, ns) ==
  LET rust == EmittedName(g, name, ns)
      next == [g EXCEPT !.next = @ + 1]
  IN IF KeepsName(g, name, ns)
     THEN [next EXCEPT !.names[ns] = @ \union {rust}]
     ELSE [next EXCEPT !.reserved[ns] = @ \union {rust}]

\* The number of the next temporary, and the temporary.
TemporaryNumber(g, hint, ns) ==
  CHOOSE k \in g.temporaries .. g.temporaries + Cardinality(Taken(g, ns)) :
    /\ <<"__cw_", "tmp", k, hint>> \notin Taken(g, ns)
    /\ \A j \in g.temporaries .. k - 1 : <<"__cw_", "tmp", j, hint>> \in Taken(g, ns)
Temporary(g, hint, ns) == <<"__cw_", "tmp", TemporaryNumber(g, hint, ns), hint>>
AfterTemporary(g, hint, ns) ==
  [g EXCEPT !.temporaries = TemporaryNumber(g, hint, ns) + 1,
            !.reserved[ns] = @ \union {Temporary(g, hint, ns)}]
===============================================================================
