----------------------------- MODULE NameBinding -----------------------------
(* The binding of names (compiler/bindings.py): every declaration in a         *)
(* function gets an emitted name, and every use the one of the declaration it  *)
(* means.  Compared with what Rust makes of the emitted names.                 *)
(*                                                                             *)
(* Expressions are names, calls and closures.  A statement declares names,     *)
(* assigns, evaluates, or has arms: an if, a while, a for or a match.          *)
EXTENDS Gensym, TLC, SequencesExt

Name(n) == [kind |-> "name", name |-> n]
Closure(ps, b) == [kind |-> "closure", params |-> ps, body |-> b]
Let(ns, v, t) == [kind |-> "let", names |-> ns, value |-> v, type |-> t]
Assign(n, v) == [kind |-> "assign", name |-> n, value |-> v]
Do(v) == [kind |-> "do", value |-> v]
Arm(ns, g, b) == [names |-> ns, guard |-> g, body |-> b]
Arms(v, as) == [kind |-> "arms", value |-> v, arms |-> as]
Call(as) == [kind |-> "call", args |-> as]
Literal == Call(<<>>)
NoType == <<>>

------------------------------------------------------------------------------
\* Names bound one after the other; and the environment with them.
BindNames(ns, space, g) ==
  FoldLeft(LAMBDA r, n : [rusts |-> Append(r.rusts, EmittedName(r.g, n, space)),
                          g |-> Bound(r.g, n, space)],
           [rusts |-> <<>>, g |-> g], ns)

Extend(env, ns, rusts) ==
  [n \in DOMAIN env \union ToSet(ns) |->
     IF n \in ToSet(ns) THEN rusts[SelectLastInSeq(ns, LAMBDA x : x = n)] ELSE env[n]]

\* A name that is not in the environment is emitted as it is.
Emits(env, n) == IF n \in DOMAIN env THEN env[n] ELSE n

\* What is bound so far with the next part b bound.
AndThen(r, b) == [nodes |-> Append(r.nodes, b.node)] @@ b

RECURSIVE BindExpression(_, _, _), BindBlock(_, _, _, _)

BindAll(es, env, g) ==
  FoldLeft(LAMBDA r, e : AndThen(r, BindExpression(e, env, r.g)), [nodes |-> <<>>, g |-> g], es)

BindCall(args) == [node |-> [kind |-> "call", args |-> args.nodes], g |-> args.g]

BindClosure(e, ps, env) ==
  LET body == BindExpression(e.body, Extend(env, e.params, ps.rusts), ps.g)
  IN [node |-> [kind |-> "closure", params |-> e.params, rusts |-> ps.rusts, body |-> body.node],
      g |-> body.g]

\* _bind_expression, _rewrite_fields
BindExpression(e, env, g) ==
  CASE e.kind = "name" ->
         [node |-> [kind |-> "name", name |-> e.name, rust |-> Emits(env, e.name)], g |-> g]
    [] e.kind = "call" -> BindCall(BindAll(e.args, env, g))
    [] e.kind = "closure" -> BindClosure(e, BindNames(e.params, "value", g), env)

\* _bind_enum_arm, _bind_pattern_arm, and the bodies of if, while and for: the
\* names, the guard that sees them, the body.
BindBody(a, ns, guard, inner, types) ==
  LET body == BindBlock(a.body, inner, types, guard.g)
  IN [node |-> [names |-> a.names, rusts |-> ns.rusts, guard |-> guard.node, body |-> body.nodes],
      g |-> body.g]

BindInner(a, ns, inner, types) ==
  BindBody(a, ns, BindExpression(a.guard, inner, ns.g), inner, types)

BindArm(a, env, types, g) ==
  LET ns == BindNames(a.names, "value", g) IN
  BindInner(a, ns, Extend(env, a.names, ns.rusts), types)

BindArms(as, env, types, g) ==
  FoldLeft(LAMBDA r, a : AndThen(r, BindArm(a, env, types, r.g)), [nodes |-> <<>>, g |-> g], as)

\* A statement whose value, names and arms are bound: the node, the allocator,
\* and the environment after it.
BindLet(s, value, ns, env, types) ==
  [node |-> [kind |-> "let", names |-> s.names, rusts |-> ns.rusts, value |-> value.node,
             type |-> s.type, rustType |-> Emits(types, s.type)],
   g |-> ns.g, env |-> Extend(env, s.names, ns.rusts)]

BindBranches(value, as, env) ==
  [node |-> [kind |-> "arms", value |-> value.node, arms |-> as.nodes], g |-> as.g, env |-> env]

BindWithValue(s, value, env, types) ==
  CASE s.kind = "let" -> BindLet(s, value, BindNames(s.names, "value", value.g), env, types)
    [] s.kind = "assign" ->
         [node |-> [kind |-> "assign", name |-> s.name, rust |-> Emits(env, s.name),
                    value |-> value.node],
          g |-> value.g, env |-> env]
    [] s.kind = "do" ->
         [node |-> [kind |-> "do", value |-> value.node], g |-> value.g, env |-> env]
    [] s.kind = "arms" -> BindBranches(value, BindArms(s.arms, env, types, value.g), env)

\* _bind_statement
BindStatement(s, env, types, g) == BindWithValue(s, BindExpression(s.value, env, g), env, types)

\* _bind_block works on a copy of the environment.
BindBlock(ss, env, types, g) ==
  FoldLeft(LAMBDA r, s : AndThen(r, BindStatement(s, r.env, types, r.g)),
           [nodes |-> <<>>, g |-> g, env |-> env], ss)

\* _bind_function: type parameters, parameters, body.
BindFunction(f) ==
  LET ts == BindNames(f.types, "type", Allocator([ns \in Namespaces |-> {}]))
      ps == BindNames(f.params, "value", ts.g)
      body == BindBlock(f.body, Extend(<<>>, f.params, ps.rusts),
                        Extend(<<>>, f.types, ts.rusts), ps.g)
  IN [types |-> f.types, rustTypes |-> ts.rusts, params |-> f.params, rusts |-> ps.rusts,
      body |-> body.nodes]

------------------------------------------------------------------------------
(* The names of the emitted text in their order, with the blocks they are in.  *)

Open  == [act |-> "open"]
Close == [act |-> "close"]
Declares(space, ns, rusts) ==
  [i \in DOMAIN ns |-> [act |-> "declare", space |-> space, name |-> ns[i], rust |-> rusts[i]]]
Uses(space, n, rust) == <<[act |-> "use", space |-> space, name |-> n, rust |-> rust]>>

RECURSIVE Expression(_), Block(_)
Expression(e) ==
  CASE e.kind = "name" -> Uses("value", e.name, e.rust)
    [] e.kind = "call" -> FlattenSeq([i \in DOMAIN e.args |-> Expression(e.args[i])])
    [] e.kind = "closure" ->
         <<Open>> \o Declares("value", e.params, e.rusts) \o Expression(e.body) \o <<Close>>

Statement(s) ==
  Expression(s.value) \o
  CASE s.kind = "let" -> (IF s.type = NoType THEN <<>> ELSE Uses("type", s.type, s.rustType))
                         \o Declares("value", s.names, s.rusts)
    [] s.kind = "assign" -> Uses("value", s.name, s.rust)
    [] s.kind = "do" -> <<>>
    [] s.kind = "arms" ->
         FlattenSeq([i \in DOMAIN s.arms |->
           LET a == s.arms[i] IN
           <<Open>> \o Declares("value", a.names, a.rusts) \o Expression(a.guard)
           \o Block(a.body) \o <<Close>>])

Block(ss) == FlattenSeq([i \in DOMAIN ss |-> Statement(ss[i])])

Tokens(f) ==
  Declares("type", f.types, f.rustTypes) \o Declares("value", f.params, f.rusts) \o Block(f.body)

\* The declaration that token i means when names are compared by a field: the
\* last one of its name in a block that is still open, 0 if there is none.
Meant(ts, i, by) ==
  LET Visible(j) == /\ ts[j].act = "declare" /\ ts[j].space = ts[i].space
                    /\ ts[j][by] = ts[i][by]
                    /\ \A k \in j .. i : Cardinality({h \in j .. k : ts[h].act = "close"})
                                         <= Cardinality({h \in j .. k : ts[h].act = "open"})
      js == {j \in 1 .. i - 1 : Visible(j)}
  IN IF js = {} THEN 0 ELSE CHOOSE j \in js : \A k \in js : k <= j

UsesOf(ts) == {i \in DOMAIN ts : ts[i].act = "use"}

\* The frontend accepts a function only if its names are declared.
InScope(f) == LET ts == Tokens(BindFunction(f)) IN \A i \in UsesOf(ts) : Meant(ts, i, "name") # 0

\* _validate_binding_scope: an emitted name is declared once.
Injective(ts) ==
  \A i, j \in {i \in DOMAIN ts : ts[i].act = "declare"} :
    ts[i].space = ts[j].space /\ ts[i].rust = ts[j].rust => i = j

\* EmissionNames.for_function avoids every name of the function.
EmissionNames(ts) ==
  Allocator([ns \in Namespaces |->
    {ts[i].rust : i \in {j \in DOMAIN ts : ts[j].act = "declare" /\ ts[j].space = ns}}])
==============================================================================
