---------------------------- MODULE SemanticTypes ----------------------------
(* The compiler's types (compiler/types.py): a constructor with its arguments, *)
(* and for an iterator how it runs, what its items are by mode, and whether    *)
(* Rayon still knows its length.  Every type has all the fields, so that two   *)
(* types are equal exactly when the compiler's dataclasses are.                *)
EXTENDS Naturals, Sequences

Type(name, arguments) ==
  [name |-> name, arguments |-> arguments, mode |-> "none", indexing |-> "none"]

Primitive(name) == Type(name, <<>>)
I64 == Primitive("i64")          U8 == Primitive("u8")
USize == Primitive("usize")      U64 == Primitive("u64")
F64 == Primitive("f64")
Bool == Primitive("bool")        Char == Primitive("char")
String == Primitive("String")    Str == Primitive("Str")
Unit == Primitive("Unit")        IoError == Primitive("IoError")

Option(t)      == Type("Option", <<t>>)
ResultOf(t, e) == Type("Result", <<t, e>>)
Tuple(ts)      == Type("Tuple", ts)
Vec(t)         == Type("Vec", <<t>>)
Slice(t)       == Type("Slice", <<t>>)
Ref(t)         == Type("Ref", <<t>>)
Mut(t)         == Type("Mut", <<t>>)

Iter(name, item, mode, indexing) ==
  [name |-> name, arguments |-> <<item>>, mode |-> mode, indexing |-> indexing]
Sequential(item, mode) == Iter("Iterator", item, mode, "none")
Parallel(item, mode, indexing) ==
  Iter(IF mode = "shared_ref" THEN "ParallelIteratorRef" ELSE "ParallelIterator",
       item, mode, indexing)

Parallels == {"ParallelIterator", "ParallelIteratorRef"}
IsIterator(t) == t.name \in {"Iterator"} \union Parallels
Arg(t, i) == t.arguments[i]

Ownerships == {"Owned", "Ref", "Mut", "Shared"}
Underlying(t) == IF t.name \in Ownerships \union {"LifetimeRef"} THEN Arg(t, 1) ELSE t

\* What an iterator's items are to a closure.
Exposed(t) == IF t.mode = "shared_ref" THEN Ref(Arg(t, 1))
              ELSE IF t.mode = "mutable_ref" THEN Mut(Arg(t, 1)) ELSE Arg(t, 1)

Integers == {"i8", "i16", "i32", "i64", "i128", "isize",
             "u8", "u16", "u32", "u64", "u128", "usize"}
Floats == {"f32", "f64"}
IsNumeric(t) == t.name \in Integers \union Floats

IsSharedBorrow(t) == t.name \in {"Str", "Ref", "LifetimeRef"}

\* _require_type: equal, or two shared borrows of one type.
Accepts(expected, actual) ==
  \/ actual = expected
  \/ /\ IsSharedBorrow(actual) /\ IsSharedBorrow(expected)
     /\ Underlying(actual) = Underlying(expected)

\* Every type that nests no deeper than MaxNesting.
MaxNesting == 16
TypesOver(parts) ==
  [name : STRING, arguments : Seq(parts), mode : STRING, indexing : STRING]
NestedTypes[n \in Nat] == TypesOver(IF n = 0 THEN {} ELSE NestedTypes[n - 1])
AllTypes == NestedTypes[MaxNesting]

\* The scalars a predicate starts from, and the composites it goes through.
Built(t, scalars, composites) ==
  LET built[u \in AllTypes] ==
        \/ u.name \in scalars
        \/ u.name \in composites /\ \A i \in DOMAIN u.arguments : built[Arg(u, i)]
  IN built[t]

Copyable == Integers \union Floats \union {"bool", "char", "Str", "Ref", "LifetimeRef"}

IsCopy(t)     == Built(t, Copyable, {"Option", "Result", "Tuple", "Array"})
IsOrdered(t)  == Built(t, Integers \union {"bool", "char", "String", "Str"}, {"Tuple", "Array"})
IsEquality(t) == Built(t, Integers \union Floats \union {"bool", "char", "String", "Str"},
                       {"Tuple", "Array", "Option"})

Clonable[t \in AllTypes] ==
  \/ IsCopy(t) \/ t.name = "String"
  \/ /\ t.name \in {"Vec", "Option", "Tuple", "Array"}
     /\ \A i \in DOMAIN t.arguments : Clonable[Arg(t, i)]
IsClone(t) == Clonable[t]
==============================================================================
