------------------------------- MODULE MCImports -------------------------------
(* Packages for PackageImports, and what CPython makes of them.                *)
EXTENDS PackageImports

(* What CPython makes of the same modules: importing a module first imports    *)
(* the packages above it, runs its statements once, in order, and then binds   *)
(* it in its parent.  clean ends when a name is read that is missing, or that  *)
(* a module still running may bind again; replaced has the kinds of items that *)
(* an import put another in the place of.                                      *)

Fresh(package) == [globals |-> Nothing(package), started |-> {}, done |-> {}, clean |-> TRUE,
                   replaced |-> {}]
Assign(st, m, n, value) == [st EXCEPT !.globals[m] = (n :> value) @@ @]

\* The names of values, imported into module m.
Receive(st, m, values) ==
  LET held == st.globals[m] IN
  [st EXCEPT !.globals[m] = values @@ @,
             !.replaced = @ \union {<<held[n].kind, values[n].kind>> :
                                      n \in DOMAIN held \intersect DOMAIN values}]

RECURSIVE Run(_, _, _)

Import(package, st, m) ==
  FoldLeft(LAMBDA t, n : LET p == SubSeq(m, 1, n) IN
             IF p \in DOMAIN package /\ p \notin t.started THEN Run(package, t, p) ELSE t,
           st, [n \in 1 .. Len(m) |-> n])

ReadName(package, st, m, source, alias) ==
  LET held == st.globals[source]
      settled == source \in st.done
  IN CASE alias[1] = "*" ->
            [Receive(st, m, Restrict(held, StarNames(package[source].body, held))) EXCEPT
               !.clean = @ /\ settled]
       [] alias[1] # "*" /\ alias[1] \in DOMAIN held ->
            [Receive(st, m, alias[2] :> held[alias[1]]) EXCEPT
               !.clean = @ /\ (settled \/ held[alias[1]].kind = "module")]
       [] alias[1] # "*" /\ alias[1] \notin DOMAIN held ->
            LET child == Append(source, alias[1]) IN
            IF child \in DOMAIN package
            THEN Receive(Import(package, st, child), m, alias[2] :> ModuleRef(child))
            ELSE [st EXCEPT !.clean = FALSE]

Statement(package, st, m, s) ==
  CASE s.do = "define" -> Assign(st, m, s.name, Item(m, s))
    [] s.do = "from" ->
         LET source == Source(m, package[m].package, s) IN
         IF source \notin DOMAIN package THEN [st EXCEPT !.clean = FALSE]
         ELSE FoldLeft(LAMBDA t, a : ReadName(package, t, m, source, a),
                       Import(package, st, source), s.names)
    [] s.do = "import" ->
         IF s.target \notin DOMAIN package THEN [st EXCEPT !.clean = FALSE]
         ELSE LET loaded == Import(package, st, s.target) IN
              IF s.local = NoName THEN Assign(loaded, m, s.target[1], ModuleRef(<<s.target[1]>>))
              ELSE Assign(loaded, m, s.local, ModuleRef(s.target))
    [] OTHER -> st

Run(package, st, m) ==
  LET ran == FoldLeft(LAMBDA t, s : Statement(package, t, m, s),
                      [st EXCEPT !.started = @ \union {m}], package[m].body)
      finished == [ran EXCEPT !.done = @ \union {m}]
  IN IF Len(m) > 1 /\ Front(m) \in DOMAIN package
     THEN Assign(finished, Front(m), Last(m), ModuleRef(m))
     ELSE finished

\* Everything imported, one module first.
Program(package, first) ==
  FoldLeft(LAMBDA st, m : Import(package, st, m), Fresh(package),
           <<first>> \o SetToSeq(DOMAIN package \ {first}))

\* What a dotted path means in a module.
RECURSIVE Attribute(_, _, _)
Attribute(st, m, path) ==
  LET held == st.globals[m] IN
  CASE path[1] \notin DOMAIN held -> ModuleRef(<<>>)
    [] path[1] \in DOMAIN held /\ Len(path) = 1 -> held[path[1]]
    [] path[1] \in DOMAIN held /\ Len(path) > 1 ->
         IF held[path[1]].kind = "module" THEN Attribute(st, held[path[1]].module, Tail(path))
         ELSE ModuleRef(<<>>)

------------------------------------------------------------------------------
(* Packages of a root and the modules a, b and c for PackageImports: chains,   *)
(* cycles, star imports with and without __all__, renamed and shadowed names,  *)
(* submodules imported by name and as modules.                                 *)

P == <<"p">>
A == <<"p", "a">>
B == <<"p", "b">>
C == <<"p", "c">>
One(n) == <<<<n, n>>>>
Renamed(n, local) == <<<<n, local>>>>

Roots ==
  {<<>>, <<From(1, <<"a">>, One("f"))>>, <<From(1, <<"c">>, Star), Publish({"f"})>>,
   <<From(1, <<>>, One("a")), ImportAs(<<"p", "b">>, NoName)>>}
As ==
  {<<Define("g", "function")>>,
   <<From(1, <<"b">>, One("f")), Define("g", "function")>>,
   <<From(1, <<"c">>, One("f")), From(1, <<"b">>, One("f")), Define("g", "function")>>,
   <<From(1, <<"c">>, One("f")), Define("f", "python")>>,
   <<From(1, <<"b">>, Star), Define("g", "class")>>,
   <<From(1, <<>>, Renamed("b", "x")), Define("g", "function")>>,
   <<ImportAs(<<"p", "c">>, "x"), From(2, <<"p", "b">>, One("f"))>>,
   <<ImportAs(<<"p", "b">>, NoName), Define("g", "crate")>>}
Bs ==
  {<<From(1, <<"c">>, One("f"))>>,
   <<Define("f", "function"), From(1, <<"a">>, One("f"))>>,
   <<From(1, <<"c">>, Star)>>,
   <<Define("f", "class"), Define("_f", "function"), Publish({"_f", "h"})>>,
   <<From(0, P, One("c")), From(1, <<"c">>, Renamed("f", "h"))>>,
   <<From(1, <<>>, One("a")), From(1, <<"c">>, One("f")), Define("_f", "crate")>>,
   <<From(1, <<"c">>, Renamed("_f", "f")), From(1, <<"a">>, One("f"))>>}
Cs ==
  {<<Define("f", "function"), Define("_f", "function")>>,
   <<Define("f", "class"), Publish({"f"})>>,
   <<Define("f", "crate"), Define("_f", "function"), Publish({"_f"}), Publish({"f", "_f"})>>,
   <<Define("f", "function"), Define("f", "python")>>}

Module(isPackage, body) == [package |-> isPackage, body |-> body]
PackageOf(r, a, b, c) ==
  (P :> Module(TRUE, r)) @@ (A :> Module(FALSE, a)) @@ (B :> Module(FALSE, b))
    @@ (C :> Module(FALSE, c))

Tables == {"domain", "crate", "module"}
Packages ==
  {[table |-> t, package |-> PackageOf(r, a, b, c)] :
     t \in Tables, r \in Roots, a \in As, b \in Bs, c \in Cs}

VARIABLES question,  \* the package and the table asked for
          answer     \* the tables after each sweep

Modules == Loaded(question.package, P, A)
SweepMore == IF answer = <<>> THEN <<Nothing(Modules)>>
             ELSE Append(answer, Sweep(question.table, Modules, Last(answer)))
Finished == answer # <<>> /\ Ends(Modules, answer)

(* The names that the functions of a package can use, resolved without running *)
(* it, are what importing it makes of them, whichever of its modules comes     *)
(* first: a name of a native module that means a native item in Python means   *)
(* it in Crabwalk, and what a dotted path means in Crabwalk it means in        *)
(* Python.  For packages whose import reads no name of a module still running, *)
(* and puts nothing that a table does not hold in the place of what it holds.  *)
ImportsAgree ==
  Finished =>
    \A first \in DOMAIN question.package :
      LET st == Program(question.package, first)
          tables == Last(answer)
          held   == Holds[question.table] \union {"module"}
      IN st.clean /\ (\A r \in st.replaced : r[1] \in held => r[2] \in held) =>
           \A m \in {m \in DOMAIN question.package : Declares(question.package[m].body)} :
             /\ m \in DOMAIN tables
             /\ \A n \in DOMAIN st.globals[m] :
                  st.globals[m][n].kind \in Holds[question.table] =>
                    n \in DOMAIN tables[m] /\ tables[m][n] = st.globals[m][n]
             /\ \A v \in Visible(tables, m) : Attribute(st, m, v[1]) = v[2]

(* "Crabwalk resolves declaration imports to a fixed point and therefore       *)
(* supports reachable cycles" (_validate_package_import_graph): the sweeps     *)
(* end because nothing changes, not at their bound.                            *)
ImportsSettle == Finished => Settles(answer)
================================================================================
