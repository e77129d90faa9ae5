---------------------------- MODULE PackageImports ----------------------------
(* How the names of a package are resolved without running it: the modules     *)
(* that take part in the native build (compiler/package_graph.py) and the      *)
(* sweeps that bind the names of all of them at once (compiler/frontend.py).   *)
(*                                                                             *)
(* A module is named by its path and has its top-level statements in order.    *)
EXTENDS Naturals, Sequences, SequencesExt, FiniteSetsExt, Functions, TLC

Define(n, kind) == [do |-> "define", name |-> n, kind |-> kind]
From(level, source, names) == [do |-> "from", level |-> level, source |-> source, names |-> names]
ImportAs(target, local) == [do |-> "import", target |-> target, local |-> local]
Publish(ns) == [do |-> "publish", names |-> ns]
Star == <<<<"*", "*">>>>
NoName == ""

Item(m, s) == [kind |-> s.kind, module |-> m, name |-> s.name]
ModuleRef(m) == [kind |-> "module", module |-> m, name |-> NoName]

\* What each of the three tables holds; any other definition of a name ends it.
Holds == [domain |-> {"class", "trait"}, crate |-> {"crate"},
          module |-> {"function", "class", "crate"}]
NativeKinds == UNION Range(Holds)

Declares(body) == \E i \in DOMAIN body : body[i].do = "define" /\ body[i].kind \in NativeKinds

------------------------------------------------------------------------------
\* _resolve_import_from, _resolved_import_module: <<>> is no module.
Source(m, isPackage, s) ==
  LET parts == IF isPackage THEN m ELSE Front(m)
  IN CASE s.level = 0 -> s.source
       [] s.level # 0 /\ s.level - 1 > Len(parts) -> <<>>
       [] OTHER -> SubSeq(parts, 1, Len(parts) - (s.level - 1)) \o s.source

\* The modules that the imports of module m name, and those above them.
Named(package, m) ==
  UNION {LET s == package[m].body[i] IN
         CASE s.do = "from" ->
                LET source == Source(m, package[m].package, s) IN
                Prefixes(source)
                  \union {p \in {Append(source, a[1]) : a \in ToSet(s.names)} :
                            source # <<>> /\ p \in DOMAIN package}
           [] s.do = "import" -> IF s.target \in DOMAIN package THEN Prefixes(s.target) ELSE {}
           [] OTHER -> {} : i \in DOMAIN package[m].body}

Follows(package, m) == Named(package, m) \intersect DOMAIN package

\* discover_package_source_graph: what the root, the entry and the modules that
\* mention a declaration reach.
Reachable(package, root, entry) ==
  LET roots == {root, entry} \union {m \in DOMAIN package : Declares(package[m].body)}
      start == UNION {Prefixes(m) : m \in roots} \intersect DOMAIN package
      reach[n \in Nat] ==
        IF n = 0 THEN start
        ELSE reach[n - 1] \union UNION {Follows(package, m) : m \in reach[n - 1]}
  IN reach[Cardinality(DOMAIN package)]

\* The modules of _analyze_regular_package; a namespace root has no statements.
Loaded(package, root, entry) ==
  Restrict(package, Reachable(package, root, entry)) @@ (root :> [package |-> TRUE, body |-> <<>>])

------------------------------------------------------------------------------
Underscored == {"_f", "_g"}

\* _static_star_names: the last __all__, or the names without an underscore.
StarNames(body, available) ==
  LET published == {i \in DOMAIN body : body[i].do = "publish"}
  IN IF published = {} THEN {n \in DOMAIN available : n \notin Underscored}
     ELSE body[Max(published)].names \intersect DOMAIN available

\* Mutant: a definition of another kind leaves the name as it was.
StaysBound(values, n) == values

Unbind(values, n) == Restrict(values, DOMAIN values \ {n})

BindName(modules, values, source, imported, alias) ==
  CASE alias[1] = "*" ->
         Restrict(imported, StarNames(modules[source].body, imported)) @@ values
    [] alias[1] # "*" /\ alias[1] \in DOMAIN imported -> (alias[2] :> imported[alias[1]]) @@ values
    [] alias[1] # "*" /\ alias[1] \notin DOMAIN imported ->
         IF Append(source, alias[1]) \in DOMAIN modules
         THEN (alias[2] :> ModuleRef(Append(source, alias[1]))) @@ values
         ELSE values

\* _bind_imported_modules
BindModule(modules, values, s) ==
  LET local  == IF s.local = NoName THEN s.target[1] ELSE s.local
      target == IF s.local = NoName THEN <<s.target[1]>> ELSE s.target
  IN IF s.target \in DOMAIN modules /\ target \in DOMAIN modules
     THEN (local :> ModuleRef(target)) @@ values
     ELSE values

\* One top-level statement of module m, in a sweep over the tables current.
BindStatement(table, modules, current, m, values, s) ==
  CASE s.do = "define" ->
         IF s.kind \in Holds[table] THEN (s.name :> Item(m, s)) @@ values ELSE Unbind(values, s.name)
    [] s.do = "from" ->
         LET source == Source(m, modules[m].package, s) IN
         IF source \notin DOMAIN modules THEN values
         ELSE FoldLeft(LAMBDA v, a : BindName(modules, v, source, current[source], a),
                       values, s.names)
    [] s.do = "import" -> BindModule(modules, values, s)
    [] OTHER -> values

Sweep(table, modules, current) ==
  [m \in DOMAIN modules |->
     FoldLeft(LAMBDA v, s : BindStatement(table, modules, current, m, v, s),
              <<>>, modules[m].body)]

Nothing(modules) == [m \in DOMAIN modules |-> <<>>]
Rounds(modules) == Max({2, 2 * Cardinality(DOMAIN modules) + 1})

\* The sweeps so far, from the empty tables; they end at a table that repeats
\* the one before, or at the bound.
Settles(sweeps) == Len(sweeps) > 1 /\ Last(sweeps) = sweeps[Len(sweeps) - 1]
Ends(modules, sweeps) == Settles(sweeps) \/ Len(sweeps) = Rounds(modules) + 1

------------------------------------------------------------------------------
\* _collect_module_members, _collect_domain_members: the members that a name of
\* a module leads to; a module is entered once for each name.
RECURSIVE Collect(_, _, _, _)
Collect(tables, prefix, m, found) ==
  IF m \in found.seen THEN found
  ELSE LET names == SetToSeq(DOMAIN tables[m])
           Member(f, n) ==
             LET value == tables[m][n] IN
             IF value.kind = "module" THEN Collect(tables, Append(prefix, n), value.module, f)
             ELSE [f EXCEPT !.members = (Append(prefix, n) :> value) @@ @]
       IN FoldLeft(Member, [found EXCEPT !.seen = @ \union {m}], names)

\* The names that a function of module m can use, as paths.
Visible(tables, m) ==
  LET direct == {n \in DOMAIN tables[m] : tables[m][n].kind # "module"}
      refs   == {n \in DOMAIN tables[m] : tables[m][n].kind = "module"}
      Below(n) == Collect(tables, <<n>>, tables[m][n].module, [seen |-> {}, members |-> <<>>]).members
  IN {<<<<n>>, tables[m][n]>> : n \in direct}
       \union UNION {{<<p, Below(n)[p]>> : p \in DOMAIN Below(n)} : n \in refs}
===============================================================================
