--------------------------- MODULE BindingSessions ---------------------------
(* Decorators that bind compiled declarations while Python imports a package   *)
(* (runtime.py, _compilation_for): the first decorator builds the package and  *)
(* opens a session, later ones take their symbols from its result.  Imports    *)
(* nest, break off and repeat; sources and other build inputs change.          *)
(*                                                                             *)
(* _compile_lock is held from the lookup of the session to its update, so one  *)
(* decorator is one step.                                                      *)
EXTENDS Naturals, Sequences, SequencesExt, FiniteSets

CONSTANTS Modules,   \* the modules of one package that declare something
          Names,     \* the names of declarations
          Binds,     \* Binds[m]: its decorated declarations, in order
          MaxEdits   \* bound on edits of a source, and of the other inputs

ASSUME BindsAssumption == Binds \in [Modules -> Seq(Names) \ {<<>>}]

VARIABLES source,      \* source[m]: the version on disk
          inputs,      \* the version of toolchain, Cargo configuration and locks
          importing,   \* importing[m]: the version Python runs and how far it is
          session,     \* the open binding session of the package
          bound,       \* bound[k]: the result declaration k was bound from
          split         \* modules that came to the session in the middle of an import

sessionVars == <<source, inputs, importing, session, bound, split>>

Keys == UNION {{<<m, n>> : n \in ToSet(Binds[m])} : m \in Modules}

NotImporting == [version |-> 0, next |-> 0]
NoSession == [open |-> FALSE]
Unbound == [sources |-> <<>>, inputs |-> 0]

\* What compile_path returns now: the sources and inputs it fingerprinted.
Compiled == [sources |-> source, inputs |-> inputs]

SessionInit ==
  /\ source = [m \in Modules |-> 1] /\ inputs = 1
  /\ importing = [m \in Modules |-> NotImporting]
  /\ session = NoSession
  /\ bound = [k \in Keys |-> Unbound]
  /\ split = {}

StartImport(m) ==
  /\ importing[m] = NotImporting
  /\ importing' = [importing EXCEPT ![m] = [version |-> source[m], next |-> 1]]
  /\ UNCHANGED <<source, inputs, session, bound, split>>

Current(m) == <<m, Binds[m][importing[m].next]>>

Advance(m) ==
  LET at == importing[m] IN
  importing' = [importing EXCEPT ![m] =
                  IF at.next = Len(Binds[m]) THEN NotImporting ELSE [at EXCEPT !.next = @ + 1]]

\* Mutant: a module is not compared with the sources when it first binds.
KnownOnly(m) == session.open /\ Current(m) \in Keys \ session.seen

\* A session serves a declaration once, and a module only if the sources were
\* still the result's when the module first bound.
Reusable(m) ==
  /\ session.open
  /\ Current(m) \in Keys \ session.seen
  /\ m \in session.validated \/ source = session.result.sources

\* A session whose bindings are all done is closed.
Session(result, seen, validated) ==
  IF seen = Keys THEN NoSession
  ELSE [open |-> TRUE, result |-> result, seen |-> seen, validated |-> validated]

Midway(m) == {m} \intersect {n \in Modules : importing[n].next > 1}

BindFromSession(m) ==
  /\ importing[m] # NotImporting /\ Reusable(m)
  /\ bound' = [bound EXCEPT ![Current(m)] = session.result]
  /\ session' = Session(session.result, session.seen \union {Current(m)},
                        session.validated \union {m})
  /\ Advance(m)
  /\ split' = IF m \in session.validated THEN split ELSE split \union Midway(m)
  /\ UNCHANGED <<source, inputs>>

BindFromBuild(m) ==
  /\ importing[m] # NotImporting /\ ~Reusable(m)
  /\ bound' = [bound EXCEPT ![Current(m)] = Compiled]
  /\ session' = Session(Compiled, {Current(m)}, {m})
  /\ split' = Midway(m)
  /\ Advance(m)
  /\ UNCHANGED <<source, inputs>>

\* The build fails, and the import with it; the session is gone already.
BuildFails(m) ==
  /\ importing[m] # NotImporting /\ ~Reusable(m)
  /\ session' = NoSession
  /\ importing' = [importing EXCEPT ![m] = NotImporting]
  /\ split' = {}
  /\ UNCHANGED <<source, inputs, bound>>

\* Python raises between two decorators.
ImportBreaks(m) ==
  /\ importing[m] # NotImporting
  /\ importing' = [importing EXCEPT ![m] = NotImporting]
  /\ UNCHANGED <<source, inputs, session, bound, split>>

EditSource(m) ==
  /\ source[m] <= MaxEdits
  /\ source' = [source EXCEPT ![m] = @ + 1]
  /\ UNCHANGED <<inputs, importing, session, bound, split>>

ChangeInputs ==
  /\ inputs <= MaxEdits /\ inputs' = inputs + 1
  /\ UNCHANGED <<source, importing, session, bound, split>>

SessionNext ==
  \/ \E m \in Modules :
       \/ StartImport(m) \/ BindFromSession(m) \/ BindFromBuild(m)
       \/ BuildFails(m) \/ ImportBreaks(m) \/ EditSource(m)
  \/ ChangeInputs

BindingSpec == SessionInit /\ [][SessionNext]_sessionVars

------------------------------------------------------------------------------
\* A declaration is bound to native code at least as new as the source that
\* Python is just running.
BindsWhatRuns(m) ==
  LET k == Current(m) IN
  importing[m] # NotImporting /\ bound'[k] # bound[k] =>
    bound'[k].sources[m] >= importing[m].version

(* "An edit made after the initial package import cannot select stale native   *)
(* symbols" (runtime.py): no declaration is bound to code of an older source   *)
(* than the one being imported, however imports nest, break off and repeat.    *)
EditsAreSeen == [][\A m \in Modules : BindsWhatRuns(m)]_sessionVars

(* A declaration is never bound to code of an older source than the one being  *)
(* imported, for every module that came to the session with its first          *)
(* declaration.  One that came in the middle of an import, because another     *)
(* module had to be built again, is validated for its earlier declarations as  *)
(* well, and these are served to its next import even after an edit.           *)
NeverStale == [][\A m \in Modules \ split : BindsWhatRuns(m)]_sessionVars

(* A repeated binding, such as a reload, sees the other build inputs as they   *)
(* are: the tooling document's promise.  A session opened by the reload of one *)
(* module serves the reload of another.                                        *)
ReloadsReenter ==
  [][\A k \in Keys : bound[k] # Unbound /\ bound'[k] # bound[k] =>
       bound'[k].inputs = inputs]_sessionVars
==============================================================================
