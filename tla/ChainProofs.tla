----------------------------- MODULE ChainProofs -----------------------------
(* Theorems about chains of builtin method calls, whatever types they start    *)
(* from and their closures give, however deep: the frontend's table of methods *)
(* and the emitter's, which know every method each on their own, agree on what *)
(* a method takes (ReceiversStayGiven) and on what it gives and hands its      *)
(* closure (TypesStayAgreed).  A chain is judged call by call, so each theorem *)
(* is a fact about one call on any type, for every table a lemma.              *)
EXTENDS MethodChains, TLAPS

------------------------------------------------------------------------------
(* The receivers.                                                              *)

\* No method among these is called by one of the names.
Avoids(methods, names) == \A m \in methods : m.name \notin names

\* The methods that take whatever they are called on by value.
Takers == {"into_iter", "into_bytes", "into_utf8", "finish"}

LEMMA TextAvoids ==
  Avoids(TextMethods, Takers)
BY DEF Avoids, Takers, TextMethods, Sized, Plain, Method

LEMMA BufferAvoids ==
  ASSUME NEW e
  PROVE  Avoids(BufferMethods(e), Takers)
BY DEF Avoids, Takers, BufferMethods, Sized, Plain, Method

LEMMA SliceAvoids ==
  ASSUME NEW e
  PROVE  Avoids(SliceMethods(e), Takers)
BY DEF Avoids, Takers, SliceMethods, Sized, OnlyIf, All, Plain, Method

LEMMA VecAvoids ==
  ASSUME NEW e, NEW r, NEW rayon
  PROVE  Avoids(VecMethods(e, r, rayon), {"into_bytes", "finish"})
BY DEF Avoids, Takers, VecMethods, SliceMethods, Sized, OnlyIf, All, If, Plain, With, Method

LEMMA CellAvoids ==
  ASSUME NEW t, t.name \in {"Arc", "Rc", "Box", "RefCell"}
  PROVE  Avoids(CellMethods(t), Takers)
BY DEF Avoids, Takers, CellMethods, If, Plain, Method

LEMMA ChannelAvoids ==
  ASSUME NEW t, t.name \in {"Sender", "SyncSender", "Receiver", "ThreadHandle", "TcpListener",
                           "TcpStream", "File"}
  PROVE  Avoids(ChannelMethods(t), Takers)
BY DEF Avoids, Takers, ChannelMethods, Plain, Method

LEMMA PoolAvoids ==
  ASSUME NEW r
  PROVE  Avoids(PoolMethods(r), Takers \ {"finish"})
BY DEF Avoids, Takers, PoolMethods, OnlyIf, Plain, Method

LEMMA MapAvoids ==
  ASSUME NEW k, NEW v
  PROVE  Avoids(MapMethods(k, v), Takers \ {"into_iter"})
BY DEF Avoids, Takers, MapMethods, Sized, All, If, Plain, Method

LEMMA SetAvoids ==
  ASSUME NEW e
  PROVE  Avoids(SetMethods(e), Takers \ {"into_iter"})
BY DEF Avoids, Takers, SetMethods, Sized, All, Plain, Method

LEMMA StringAvoids ==
  ASSUME NEW t, NEW r
  PROVE  Avoids(StringMethods(t, r), Takers \ {"into_bytes"})
BY DEF Avoids, Takers, StringMethods, Sized, OnlyIf, All, If, Plain, Method

LEMMA NumericAvoids ==
  ASSUME NEW t
  PROVE  Avoids(NumericMethods(t), Takers)
BY DEF Avoids, Takers, NumericMethods, All, If, Plain, Method

LEMMA PathAvoids ==
  ASSUME NEW t
  PROVE  Avoids(PathMethods(t), Takers)
BY DEF Avoids, Takers, PathMethods, Plain, Method

\* The names of the tables whose methods mostly take their receiver.
LEMMA OptionNames ==
  ASSUME NEW t, NEW r, NEW m \in OptionMethods(t, r)
  PROVE  m.name \in Consuming("Option") \union {"is_some", "is_none", "as_ref", "as_mut"}
BY DEF OptionMethods, Unwraps, OnlyIf, All, If, Plain, With, Method, Consuming

LEMMA ResultNames ==
  ASSUME NEW t, NEW r, NEW m \in ResultMethods(t, r)
  PROVE  m.name \in Consuming("Result") \union {"is_ok", "is_err", "as_ref"}
BY DEF ResultMethods, Unwraps, OnlyIf, All, If, Plain, With, Method, Consuming

LEMMA AdapterNames ==
  ASSUME NEW t, NEW r, NEW m \in Adapters(t, r)
  PROVE  m.name \in Consuming("Iterator")
BY DEF Adapters, OnlyIf, If, Plain, With, Filtering, Method, Consuming

LEMMA ConsumerNames ==
  ASSUME NEW t, NEW r, NEW m \in Consumers(t, r)
  PROVE  m.name \in Consuming("Iterator")
BY DEF Consumers, OnlyIf, If, Plain, With, Filtering, Method, Consuming

LEMMA ContainerTakers ==
  ASSUME NEW x, NEW name,
         \/ x.name = "Vec" /\ name \in {"into_iter", "into_utf8"}
         \/ x.name \in {"HashMap", "BTreeMap", "HashSet", "BTreeSet"} /\ name = "into_iter"
         \/ x.name = "ThreadPool" /\ name = "finish"
         \/ x.name = "String" /\ name = "into_bytes"
  PROVE  name \in Consuming(x.name) \ Mutating(x.name)
BY DEF Consuming, Mutating, Parallels

LEMMA OnlyStringsTake ==
  ASSUME NEW t, NEW r, t # String
  PROVE  Avoids(StringMethods(t, r), Takers)
BY DEF Avoids, Takers, StringMethods, Sized, OnlyIf, All, If, Plain, Method

LEMMA HandlesJoin ==
  ASSUME NEW t, NEW m \in ChannelMethods(t)
  PROVE  /\ t.name = "ThreadHandle" => m.name = "join"
         /\ t.name = "File" => m.name = "read_to_string"
BY DEF ChannelMethods, Plain, Method

\* A type and the Rust type it stands for have one constructor, but for a
\* parallel iterator's items.
LEMMA DenotesName ==
  ASSUME NEW x
  PROVE  \/ Denotes(x).name = x.name
         \/ x.name = "ParallelIteratorRef" /\ Denotes(x).name = "ParallelIterator"
<1>1. CASE ~IsIterator(x)
  BY <1>1 DEF Denotes
<1>2. CASE x.name = "Iterator"
  BY <1>2 DEF Denotes, IsIterator, RustIter, Iter
<1>3. CASE x.name \in Parallels
  <2>1. IsIterator(x) /\ x.name # "Iterator"
    BY <1>3 DEF IsIterator, Parallels
  <2>2. Denotes(x).name = "ParallelIterator"
    BY <2>1 DEF Denotes, RustIter, Iter
  <2> QED
    BY <1>3, <2>2 DEF Parallels
<1> QED
  BY <1>1, <1>2, <1>3 DEF IsIterator

\* What a method is called on in Rust: what is behind the receiver's reference.
LEMMA ReceiverBehind ==
  ASSUME NEW t
  PROVE  Deref(Denotes(t)) = Denotes(Underlying(t))
<1>1. CASE IsIterator(t)
  <2>1. Underlying(t) = t /\ Underlying(Denotes(t)) = Denotes(t)
    BY <1>1 DEF Underlying, Ownerships, IsIterator, Parallels, Denotes, RustIter, Iter
  <2>2. Denotes(Denotes(t)) = Denotes(t)
    BY <1>1 DEF Denotes, RustIter, Iter, IsIterator, Parallels, Exposed, Arg
  <2> QED
    BY <2>1, <2>2 DEF Deref
<1>2. CASE ~IsIterator(t)
  BY <1>2 DEF Denotes, Deref
<1> QED
  BY <1>1, <1>2

\* on has the constructor of what is behind the receiver's reference.
SeenThrough(on, x) ==
  on.name = x.name \/ (x.name = "ParallelIteratorRef" /\ on.name = "ParallelIterator")

\* What the method of a name needs in Rust, it has the access for.
Given(on, x, name) ==
  /\ TakesValue(on, name) => name \in Consuming(x.name) \ Mutating(x.name)
  /\ TakesMut(on, name) => name \in Mutating(x.name) \union Consuming(x.name)

\* The types whose methods take nothing in Rust but by the Takers' names.
Untaken == {"TextColumn", "Buffer", "Slice", "Arc", "Rc", "Box", "RefCell", "Sender", "SyncSender",
            "Receiver", "TcpListener", "Str", "PathBuf"} \union Integers \union Floats

LEMMA UntakenGiven ==
  ASSUME NEW on, NEW x, SeenThrough(on, x), x.name \in Untaken, NEW name, name \notin Takers
  PROVE  Given(on, x, name)
<1>1. on.name \in Untaken
  BY DEF SeenThrough, Untaken, Integers, Floats
<1>2. on # String
  BY <1>1 DEF String, Primitive, Type, Untaken, Integers, Floats
<1>3. ~TakesValue(on, name)
  BY <1>1 DEF TakesValue, Takers, IsIterator, Parallels, Untaken, Integers, Floats
<1>4. ~TakesMut(on, name)
  BY <1>1, <1>2 DEF TakesMut, Untaken, Integers, Floats
<1> QED
  BY <1>3, <1>4 DEF Given

LEMMA ContainersGiven ==
  ASSUME NEW on, NEW x, SeenThrough(on, x), NEW name, name \notin Takers,
         x.name \in {"Vec", "HashMap", "BTreeMap", "HashSet", "BTreeSet", "ThreadPool", "TcpStream"}
  PROVE  Given(on, x, name)
<1>1. on.name = x.name
  BY DEF SeenThrough
<1>2. on # String
  BY <1>1 DEF String, Primitive, Type
<1>3. ~TakesValue(on, name)
  BY <1>1 DEF TakesValue, Takers, IsIterator, Parallels
<1>4. TakesMut(on, name) => name \in Mutating(x.name)
  BY <1>1, <1>2 DEF TakesMut, Mutating
<1> QED
  BY <1>3, <1>4 DEF Given

LEMMA StringsGiven ==
  ASSUME NEW on, NEW x, SeenThrough(on, x), NEW name, name \notin Takers, x.name = "String"
  PROVE  Given(on, x, name)
<1>1. on.name = "String"
  BY DEF SeenThrough
<1>2. ~TakesValue(on, name)
  BY <1>1 DEF TakesValue, Takers, IsIterator, Parallels
<1>3. TakesMut(on, name) => name \in Mutating(x.name)
  BY <1>1 DEF TakesMut, Mutating
<1> QED
  BY <1>2, <1>3 DEF Given

LEMMA OneShotsGiven ==
  ASSUME NEW on, NEW x, SeenThrough(on, x), NEW name, name \notin Takers,
         \/ x.name = "ThreadHandle" /\ name = "join"
         \/ x.name = "File" /\ name = "read_to_string"
  PROVE  Given(on, x, name)
<1>1. on.name = x.name
  BY DEF SeenThrough
<1>2. on # String
  BY <1>1 DEF String, Primitive, Type
<1>3. CASE x.name = "ThreadHandle"
  <2>1. ~TakesMut(on, name)
    BY <1>1, <1>2, <1>3 DEF TakesMut
  <2>2. name \in Consuming(x.name) \ Mutating(x.name)
    BY <1>3 DEF Consuming, Mutating, Parallels
  <2> QED
    BY <2>1, <2>2 DEF Given
<1>4. CASE x.name = "File"
  <2>1. ~TakesValue(on, name)
    BY <1>1, <1>4 DEF TakesValue, Takers, IsIterator, Parallels
  <2>2. name \in Mutating(x.name)
    BY <1>4 DEF Mutating
  <2> QED
    BY <2>1, <2>2 DEF Given
<1> QED
  BY <1>3, <1>4

LEMMA UnwrappedGiven ==
  ASSUME NEW on, NEW x, SeenThrough(on, x), NEW name, name \notin Takers,
         x.name \in {"Option", "Result"},
         name \in Consuming(x.name) \union {"is_some", "is_none", "is_ok", "is_err", "as_ref", "as_mut"},
         x.name = "Result" => name # "as_mut"
  PROVE  Given(on, x, name)
<1>1. on.name = x.name
  BY DEF SeenThrough
<1>2. on # String
  BY <1>1 DEF String, Primitive, Type
<1>3. name \in Consuming(x.name) => name \notin Mutating(x.name)
  BY DEF Consuming, Mutating
<1>4. TakesValue(on, name) => name \in Consuming(x.name)
  BY <1>1 DEF TakesValue, Takers, IsIterator, Parallels
<1>5. TakesMut(on, name) => name \in Mutating(x.name)
  BY <1>1, <1>2 DEF TakesMut, Mutating
<1> QED
  BY <1>3, <1>4, <1>5 DEF Given

LEMMA IteratorsGiven ==
  ASSUME NEW on, NEW x, SeenThrough(on, x), IsIterator(x), NEW name, name \in Consuming("Iterator")
  PROVE  Given(on, x, name)
<1>1. name \in Consuming(x.name) /\ name \notin Mutating(x.name)
  BY DEF IsIterator, Parallels, Consuming, Mutating
<1> QED
  BY <1>1 DEF Given

\* Whose table a method is from.
LEMMA MethodsByKind ==
  ASSUME NEW t, NEW r, NEW rayon, NEW m \in MethodsOf(t, r, rayon), NEW x, x = Underlying(t)
  PROVE  \/ x.name = "TextColumn" /\ m \in TextMethods
         \/ x.name = "Buffer" /\ m \in BufferMethods(Arg(x, 1))
         \/ x.name = "Slice" /\ m \in SliceMethods(Arg(x, 1))
         \/ x.name = "Vec" /\ m \in VecMethods(Arg(x, 1), r, rayon)
         \/ x.name \in {"Arc", "Rc", "Box", "RefCell"} /\ m \in CellMethods(x)
         \/ /\ x.name \in {"Sender", "SyncSender", "Receiver", "ThreadHandle", "TcpListener",
                           "TcpStream", "File"}
            /\ m \in ChannelMethods(x)
         \/ x.name = "ThreadPool" /\ m \in PoolMethods(r)
         \/ x.name \in {"HashMap", "BTreeMap"} /\ m \in MapMethods(Arg(x, 1), Arg(x, 2))
         \/ x.name \in {"HashSet", "BTreeSet"} /\ m \in SetMethods(Arg(x, 1))
         \/ x.name = "String" /\ m \in StringMethods(x, r)
         \/ x.name = "Str" /\ x # String /\ m \in StringMethods(x, r)
         \/ x.name \in Integers \union Floats /\ m \in NumericMethods(x)
         \/ x.name = "PathBuf" /\ m \in PathMethods(x)
         \/ x.name = "Option" /\ m \in OptionMethods(x, r)
         \/ x.name = "Result" /\ m \in ResultMethods(x, r)
         \/ IsIterator(x) /\ m \in Adapters(x, r) \union Consumers(x, r)
<1>1. String.name = "String" /\ Str.name = "Str"
  BY DEF String, Str, Primitive, Type
<1> QED
  BY <1>1 DEF MethodsOf, IsNumeric

LEMMA TakersGiven ==
  ASSUME NEW on, NEW x, SeenThrough(on, x), NEW name,
         \/ x.name = "Vec" /\ name \in {"into_iter", "into_utf8"}
         \/ x.name \in {"HashMap", "BTreeMap", "HashSet", "BTreeSet"} /\ name = "into_iter"
         \/ x.name = "ThreadPool" /\ name = "finish"
         \/ x.name = "String" /\ name = "into_bytes"
  PROVE  Given(on, x, name)
BY ContainerTakers DEF Given

\* Whatever table it is from, a method is given what it takes.
LEMMA MethodsAreGiven ==
  ASSUME NEW t, NEW r, NEW rayon, NEW m \in MethodsOf(t, r, rayon),
         NEW on, SeenThrough(on, Underlying(t))
  PROVE  Given(on, Underlying(t), m.name)
<1>0. PICK x : x = Underlying(t) /\ SeenThrough(on, x)
  OBVIOUS
<1>1. CASE x.name = "Vec" /\ m \in VecMethods(Arg(x, 1), r, rayon)
  BY <1>0, <1>1, VecAvoids, ContainersGiven, TakersGiven DEF Avoids, Takers
<1>2. CASE x.name \in {"HashMap", "BTreeMap"} /\ m \in MapMethods(Arg(x, 1), Arg(x, 2))
  BY <1>0, <1>2, MapAvoids, ContainersGiven, TakersGiven DEF Avoids, Takers
<1>3. CASE x.name \in {"HashSet", "BTreeSet"} /\ m \in SetMethods(Arg(x, 1))
  BY <1>0, <1>3, SetAvoids, ContainersGiven, TakersGiven DEF Avoids, Takers
<1>4. CASE x.name = "ThreadPool" /\ m \in PoolMethods(r)
  BY <1>0, <1>4, PoolAvoids, ContainersGiven, TakersGiven DEF Avoids, Takers
<1>5. CASE x.name = "String" /\ m \in StringMethods(x, r)
  BY <1>0, <1>5, StringAvoids, StringsGiven, TakersGiven DEF Avoids, Takers
<1>6. CASE x.name = "Str" /\ x # String /\ m \in StringMethods(x, r)
  BY <1>0, <1>6, OnlyStringsTake, UntakenGiven DEF Avoids, Untaken
<1>7. CASE x.name = "Option" /\ m \in OptionMethods(x, r)
  <2>1. m.name \in Consuming("Option") \union {"is_some", "is_none", "as_ref", "as_mut"}
    BY <1>7, OptionNames
  <2>2. m.name \notin Takers
    BY <2>1 DEF Consuming, Takers
  <2> QED
    BY <1>0, <1>7, <2>1, <2>2, UnwrappedGiven
<1>8. CASE x.name = "Result" /\ m \in ResultMethods(x, r)
  <2>1. m.name \in Consuming("Result") \union {"is_ok", "is_err", "as_ref"}
    BY <1>8, ResultNames
  <2>2. m.name \notin Takers /\ m.name # "as_mut"
    BY <2>1 DEF Consuming, Takers
  <2> QED
    BY <1>0, <1>8, <2>1, <2>2, UnwrappedGiven
<1>9. CASE IsIterator(x) /\ m \in Adapters(x, r) \union Consumers(x, r)
  BY <1>0, <1>9, AdapterNames, ConsumerNames, IteratorsGiven
<1>10. CASE x.name \in {"ThreadHandle", "File"} /\ m \in ChannelMethods(x)
  BY <1>0, <1>10, HandlesJoin, OneShotsGiven, ChannelAvoids DEF Avoids
<1>11. CASE x.name = "TcpStream" /\ m \in ChannelMethods(x)
  BY <1>0, <1>11, ContainersGiven, ChannelAvoids DEF Avoids
<1>12. CASE x.name \in {"Sender", "SyncSender", "Receiver", "TcpListener"} /\ m \in ChannelMethods(x)
  BY <1>0, <1>12, UntakenGiven, ChannelAvoids DEF Avoids, Untaken
<1>13. CASE x.name \in {"Arc", "Rc", "Box", "RefCell"} /\ m \in CellMethods(x)
  BY <1>0, <1>13, UntakenGiven, CellAvoids DEF Avoids, Untaken
<1>14. CASE x.name \in Integers \union Floats /\ m \in NumericMethods(x)
  BY <1>0, <1>14, UntakenGiven, NumericAvoids DEF Avoids, Untaken
<1>15. CASE \/ x.name = "TextColumn" /\ m \in TextMethods
            \/ x.name = "Buffer" /\ m \in BufferMethods(Arg(x, 1))
            \/ x.name = "Slice" /\ m \in SliceMethods(Arg(x, 1))
            \/ x.name = "PathBuf" /\ m \in PathMethods(x)
  BY <1>0, <1>15, UntakenGiven, TextAvoids, BufferAvoids, SliceAvoids, PathAvoids DEF Avoids, Untaken
<1> QED
  BY <1>0, <1>1, <1>2, <1>3, <1>4, <1>5, <1>6, <1>7, <1>8, <1>9, <1>10, <1>11, <1>12, <1>13, <1>14,
     <1>15, MethodsByKind

LEMMA CallsAreGiven ==
  ASSUME NEW t, NEW m, SeenThrough(Deref(Denotes(t)), Underlying(t)),
         Given(Deref(Denotes(t)), Underlying(t), m.name)
  PROVE  /\ TakesValue(Deref(Denotes(t)), m.name) => Access(t, m.name) = "owned"
         /\ TakesMut(Deref(Denotes(t)), m.name) => Access(t, m.name) \in {"owned", "mutable"}
BY DEF Given, Access

(* Whatever the local a chain starts from and whatever its closures give, a    *)
(* method that takes its receiver by value or mutably in Rust is never called  *)
(* with less access than that: CRAB208 and CRAB227 ask for enough.             *)
THEOREM ReceiversStayGiven ==
  ASSUME NEW locals, NEW results
  PROVE  ChainSpec(locals, results) => []ReceiversAreGiven
<1>1. ChainInit(locals) => ReceiversAreGiven
  BY DEF ChainInit, ReceiversAreGiven
<1>2. ReceiversAreGiven /\ [\E r \in results : CallMethod(r)]_chainVars => ReceiversAreGiven'
  <2> SUFFICES ASSUME ReceiversAreGiven, [\E r \in results : CallMethod(r)]_chainVars
      PROVE ReceiversAreGiven'
    OBVIOUS
  <2>1. CASE UNCHANGED chainVars
    BY <2>1 DEF chainVars, ReceiversAreGiven
  <2>2. ASSUME NEW r \in results, CallMethod(r)
        PROVE  ReceiversAreGiven'
    <3>1. PICK m \in MethodsOf(lowered, r, Rayon) :
            /\ call'.on = Deref(emitted)
            /\ call'.method = m.name
            /\ call'.access = Access(lowered, m.name)
      BY <2>2 DEF CallMethod
    <3>2. emitted = Denotes(lowered)
      BY <2>2 DEF CallMethod
    <3>3. SeenThrough(Deref(Denotes(lowered)), Underlying(lowered))
      BY DenotesName, ReceiverBehind DEF SeenThrough
    <3>4. Given(Deref(Denotes(lowered)), Underlying(lowered), m.name)
      BY <3>3, MethodsAreGiven
    <3> QED
      BY <3>1, <3>2, <3>3, <3>4, CallsAreGiven DEF ReceiversAreGiven
  <2> QED
    BY <2>1, <2>2
<1> QED
  BY <1>1, <1>2, PTL DEF ChainSpec

------------------------------------------------------------------------------
(* Well-formed types, and that every table gives them.                        *)

\* The types that have parts, and iterators as the tables make them.
Unary == {"Vec", "Slice", "Buffer", "Option", "Arc", "Rc", "Box", "RefCell", "Mutex", "HashSet",
          "BTreeSet", "Receiver", "ThreadHandle", "LifetimeRef", "Iterator"}
           \union Parallels \union Ownerships
Binary == {"HashMap", "BTreeMap", "Result"}

Formed(t) ==
  /\ Len(t.arguments) \in Nat /\ DOMAIN t.arguments = 1..Len(t.arguments)
  /\ t.name \in Unary \union Binary => 1 \in DOMAIN t.arguments
  /\ t.name \in Binary => 2 \in DOMAIN t.arguments
  /\ IsIterator(t) => t.mode \in {"owned", "shared_ref"}
  /\ t.name = "Iterator" => t.indexing = "none"

\* A type that is well formed in every part of it, however deep: the set holds them all.
Whole(types) == \A t \in types : Formed(t) /\ \A i \in DOMAIN t.arguments : Arg(t, i) \in types
Sound(t) == \E types : t \in types /\ Whole(types)

LEMMA SoundParts ==
  ASSUME NEW t, Sound(t)
  PROVE  Formed(t) /\ \A i \in DOMAIN t.arguments : Sound(Arg(t, i))
BY DEF Sound, Whole

LEMMA SoundWhole ==
  ASSUME NEW t, Formed(t), \A i \in DOMAIN t.arguments : Sound(Arg(t, i))
  PROVE  Sound(t)
<1> DEFINE cover(u) == CHOOSE types : u \in types /\ Whole(types)
<1> DEFINE types == {t} \union UNION {cover(Arg(t, i)) : i \in DOMAIN t.arguments}
<1>1. \A i \in DOMAIN t.arguments : Arg(t, i) \in cover(Arg(t, i)) /\ Whole(cover(Arg(t, i)))
  BY DEF Sound
<1> HIDE DEF cover
<1>2. Whole(types)
  <2> SUFFICES ASSUME NEW u \in types
      PROVE  Formed(u) /\ \A i \in DOMAIN u.arguments : Arg(u, i) \in types
    BY DEF Whole
  <2>1. CASE u = t
    BY <1>1, <2>1
  <2>2. CASE u # t
    <3>1. PICK i \in DOMAIN t.arguments : u \in cover(Arg(t, i))
      BY <2>2
    <3>2. Formed(u) /\ \A k \in DOMAIN u.arguments : Arg(u, k) \in cover(Arg(t, i))
      BY <1>1, <3>1 DEF Whole
    <3> QED
      BY <3>2
  <2> QED
    BY <2>1, <2>2
<1> QED
  BY <1>2 DEF Sound

LEMMA SoundPrimitive ==
  ASSUME NEW name, name \notin Unary \union Binary
  PROVE  Sound(Primitive(name))
<1>1. Formed(Primitive(name)) /\ DOMAIN Primitive(name).arguments = {}
  BY DEF Formed, Primitive, Type, IsIterator, Unary
<1> QED
  BY <1>1, SoundWhole

LEMMA SoundOne ==
  ASSUME NEW name, name \notin Binary \union {"Iterator"} \union Parallels, NEW a, Sound(a)
  PROVE  Sound(Type(name, <<a>>))
<1> DEFINE t == Type(name, <<a>>)
<1>1. Formed(t) /\ \A i \in DOMAIN t.arguments : Arg(t, i) = a
  BY DEF Formed, Type, IsIterator, Arg
<1> HIDE DEF t
<1>2. Sound(t)
  BY <1>1, SoundWhole
<1> QED
  BY <1>2 DEF t

LEMMA SoundTwo ==
  ASSUME NEW name, name \notin {"Iterator"} \union Parallels, NEW a, NEW b, Sound(a), Sound(b)
  PROVE  Sound(Type(name, <<a, b>>))
<1> DEFINE t == Type(name, <<a, b>>)
<1>1. Formed(t) /\ \A i \in DOMAIN t.arguments : Arg(t, i) \in {a, b}
  BY DEF Formed, Type, IsIterator, Arg
<1> HIDE DEF t
<1>2. Sound(t)
  BY <1>1, SoundWhole
<1> QED
  BY <1>2 DEF t

LEMMA SoundIter ==
  ASSUME NEW name, name \in {"Iterator"} \union Parallels, NEW a, Sound(a),
         NEW mode \in {"owned", "shared_ref"}, NEW indexing, name = "Iterator" => indexing = "none"
  PROVE  Sound(Iter(name, a, mode, indexing))
<1> DEFINE t == Iter(name, a, mode, indexing)
<1>1. Formed(t) /\ \A i \in DOMAIN t.arguments : Arg(t, i) = a
  BY DEF Formed, Iter, IsIterator, Arg, Binary, Parallels
<1> HIDE DEF t
<1>2. Sound(t)
  BY <1>1, SoundWhole
<1> QED
  BY <1>2 DEF t

\* The types the tables are written with.
LEMMA SoundNames ==
  /\ Sound(I64) /\ Sound(U8) /\ Sound(USize) /\ Sound(U64) /\ Sound(F64) /\ Sound(Bool)
  /\ Sound(Char) /\ Sound(String) /\ Sound(Str) /\ Sound(Unit) /\ Sound(IoError)
BY SoundPrimitive DEF I64, U8, USize, U64, F64, Bool, Char, String, Str, Unit, IoError, Unary, Binary,
   Parallels, Ownerships

LEMMA SoundBuilt ==
  ASSUME NEW a, Sound(a)
  PROVE  /\ Sound(Option(a)) /\ Sound(Vec(a)) /\ Sound(Slice(a)) /\ Sound(Ref(a)) /\ Sound(Mut(a))
         /\ \A mode \in {"owned", "shared_ref"} :
              Sound(Sequential(a, mode)) /\ \A indexing : Sound(Parallel(a, mode, indexing))
         /\ \A b : Sound(b) => Sound(ResultOf(a, b)) /\ Sound(Tuple(<<a, b>>))
<1>1. Sound(Option(a)) /\ Sound(Vec(a)) /\ Sound(Slice(a)) /\ Sound(Ref(a)) /\ Sound(Mut(a))
  BY SoundOne DEF Option, Vec, Slice, Ref, Mut, Binary, Parallels
<1>2. \A mode \in {"owned", "shared_ref"} :
        Sound(Sequential(a, mode)) /\ \A indexing : Sound(Parallel(a, mode, indexing))
  BY SoundIter DEF Sequential, Parallel, Parallels
<1>3. \A b : Sound(b) => Sound(ResultOf(a, b)) /\ Sound(Tuple(<<a, b>>))
  BY SoundTwo DEF ResultOf, Tuple, Parallels
<1> QED
  BY <1>1, <1>2, <1>3

\* Each table gives well-formed types for well-formed parts.
LEMMA SoundTexts ==
  ASSUME NEW m, m \in TextMethods
  PROVE  Sound(m.result)
BY SoundNames DEF TextMethods, Sized, Plain, Method

LEMMA SoundBuffers ==
  ASSUME NEW e, Sound(e), NEW m, m \in BufferMethods(e)
  PROVE  Sound(m.result)
<1>1. Sound(Sequential(e, "owned"))
  BY SoundBuilt
<1> QED
  BY <1>1, SoundNames DEF BufferMethods, Sized, Plain, Method

LEMMA SoundSlices ==
  ASSUME NEW e, Sound(e), NEW m, m \in SliceMethods(e)
  PROVE  Sound(m.result)
<1>1. /\ Sound(Sequential(e, "owned")) /\ Sound(Sequential(e, "shared_ref"))
      /\ Sound(Ref(e)) /\ Sound(Slice(e))
  BY SoundBuilt
<1>2. Sound(Option(Ref(e))) /\ Sound(Sequential(Slice(e), "owned"))
  BY <1>1, SoundBuilt
<1> QED
  BY <1>1, <1>2, SoundNames DEF SliceMethods, Sized, OnlyIf, All, Plain, Method

LEMMA SoundVecs ==
  ASSUME NEW e, Sound(e), NEW r, NEW rayon, NEW m, m \in VecMethods(e, r, rayon)
  PROVE  Sound(m.result)
<1>1. /\ Sound(Sequential(e, "owned")) /\ Sound(Option(e)) /\ Sound(Slice(e))
      /\ Sound(Parallel(e, "shared_ref", "indexed")) /\ Sound(ResultOf(String, String))
  BY SoundBuilt, SoundNames
<1>2. CASE m \in SliceMethods(e)
  BY <1>2, SoundSlices
<1> QED
  BY <1>1, <1>2, SoundNames DEF VecMethods, OnlyIf, All, If, Plain, With, Method

LEMMA SoundCells ==
  ASSUME NEW t, Sound(t), t.name \in {"Arc", "Rc", "Box", "RefCell"}, NEW m, m \in CellMethods(t)
  PROVE  Sound(m.result)
<1>1. Sound(Arg(t, 1)) /\ (Arg(t, 1).name = "Mutex" => Sound(Arg(Arg(t, 1), 1)))
  BY SoundParts DEF Formed, Unary
<1> QED
  BY <1>1, SoundNames DEF CellMethods, If, Plain, Method

LEMMA SoundChannels ==
  ASSUME NEW t, Sound(t), NEW m, m \in ChannelMethods(t),
         t.name \in {"Sender", "SyncSender", "Receiver", "ThreadHandle", "TcpListener", "TcpStream", "File"}
  PROVE  Sound(m.result)
<1>1. t.name \in {"Receiver", "ThreadHandle"} => Sound(Arg(t, 1))
  BY SoundParts DEF Formed, Unary
<1>2. t.name = "Receiver" => Sound(Type("Future", t.arguments))
  <2> DEFINE f == Type("Future", t.arguments)
  <2>1. Formed(f) /\ \A i \in DOMAIN f.arguments : Sound(Arg(f, i))
    BY SoundParts DEF Formed, Type, Arg, IsIterator, Unary, Binary, Parallels, Ownerships
  <2> HIDE DEF f
  <2>2. Sound(f)
    BY <2>1, SoundWhole
  <2> QED
    BY <2>2 DEF f
<1>3. Sound(ResultOf(String, IoError))
  BY SoundBuilt, SoundNames
<1> QED
  BY <1>1, <1>2, <1>3, SoundNames DEF ChannelMethods, Plain, Method

LEMMA SoundPools ==
  ASSUME NEW r, NEW m, m \in PoolMethods(r)
  PROVE  Sound(m.result)
<1>1. Sound(ResultOf(Unit, String))
  BY SoundBuilt, SoundNames
<1> QED
  BY <1>1, SoundNames DEF PoolMethods, OnlyIf, Plain, Method

LEMMA SoundMaps ==
  ASSUME NEW k, NEW v, Sound(k), Sound(v), NEW m, m \in MapMethods(k, v)
  PROVE  Sound(m.result)
<1>1. /\ Sound(Option(v)) /\ Sound(Ref(k)) /\ Sound(Ref(v)) /\ Sound(Mut(v)) /\ Sound(Tuple(<<k, v>>))
      /\ Sound(Sequential(k, "shared_ref")) /\ Sound(Sequential(v, "shared_ref"))
  BY SoundBuilt
<1>2. /\ Sound(Option(Ref(v))) /\ Sound(Option(Mut(v))) /\ Sound(Tuple(<<Ref(k), Ref(v)>>))
      /\ Sound(Sequential(Tuple(<<k, v>>), "owned"))
  BY <1>1, SoundBuilt
<1>3. Sound(Sequential(Tuple(<<Ref(k), Ref(v)>>), "owned"))
  BY <1>2, SoundBuilt
<1> QED
  BY <1>1, <1>2, <1>3, SoundNames DEF MapMethods, Sized, All, If, Plain, Method

LEMMA SoundSets ==
  ASSUME NEW e, Sound(e), NEW m, m \in SetMethods(e)
  PROVE  Sound(m.result)
<1>1. Sound(Sequential(e, "owned")) /\ Sound(Sequential(e, "shared_ref"))
  BY SoundBuilt
<1> QED
  BY <1>1, SoundNames DEF SetMethods, Sized, All, Plain, Method

LEMMA SoundStrings ==
  ASSUME NEW t, NEW r, Sound(r), NEW m, m \in StringMethods(t, r)
  PROVE  Sound(m.result)
<1>1. /\ Sound(Sequential(Str, "owned")) /\ Sound(Option(Str)) /\ Sound(Option(USize))
      /\ Sound(Tuple(<<Str, Str>>)) /\ Sound(Sequential(Char, "owned")) /\ Sound(Sequential(U8, "owned"))
      /\ Sound(ResultOf(r, String)) /\ Sound(Vec(U8))
  BY SoundBuilt, SoundNames
<1>2. Sound(Option(Tuple(<<Str, Str>>)))
  BY <1>1, SoundBuilt
<1> QED
  BY <1>1, <1>2, SoundNames DEF StringMethods, Sized, OnlyIf, All, If, Plain, Method

LEMMA SoundNumbers ==
  ASSUME NEW t, Sound(t), NEW m, m \in NumericMethods(t)
  PROVE  Sound(m.result)
<1>1. Sound(Option(t))
  BY SoundBuilt
<1> QED
  BY <1>1, SoundNames DEF NumericMethods, All, If, Plain, Method

LEMMA SoundPaths ==
  ASSUME NEW t, Sound(t), NEW m, m \in PathMethods(t)
  PROVE  Sound(m.result)
<1>1. /\ Sound(ResultOf(String, IoError)) /\ Sound(ResultOf(Unit, IoError))
      /\ Sound(ResultOf(U64, IoError)) /\ Sound(Vec(t))
  BY SoundBuilt, SoundNames
<1>2. Sound(ResultOf(Vec(t), IoError))
  BY <1>1, SoundBuilt, SoundNames
<1> QED
  BY <1>1, <1>2, SoundNames DEF PathMethods, Plain, Method

LEMMA SoundOptions ==
  ASSUME NEW t, Sound(t), t.name = "Option", NEW r, Sound(r), NEW m, m \in OptionMethods(t, r)
  PROVE  Sound(m.result)
<1> DEFINE e == Arg(t, 1)
<1>1. Sound(e) /\ (e.name = "Ref" => Sound(Arg(e, 1)))
  BY SoundParts DEF Formed, Unary, Ownerships
<1>2. e.name = "Ref" => Underlying(e) = Arg(e, 1)
  BY DEF Underlying, Ownerships
<1>3. /\ Sound(Option(r)) /\ Sound(Ref(e)) /\ Sound(Mut(e))
      /\ (e.name = "Ref" => Sound(Option(Underlying(e))))
  BY <1>1, <1>2, SoundBuilt
<1>4. Sound(Option(Ref(e))) /\ Sound(Option(Mut(e)))
  BY <1>3, SoundBuilt
<1> QED
  BY <1>1, <1>3, <1>4, SoundNames DEF OptionMethods, Unwraps, OnlyIf, All, If, Plain, With, Method

LEMMA SoundResults ==
  ASSUME NEW t, Sound(t), t.name = "Result", NEW r, Sound(r), NEW m, m \in ResultMethods(t, r)
  PROVE  Sound(m.result)
<1> DEFINE ok == Arg(t, 1)
<1> DEFINE err == Arg(t, 2)
<1>1. Sound(ok) /\ Sound(err)
  BY SoundParts DEF Formed, Binary
<1>2. /\ Sound(ResultOf(r, err)) /\ Sound(ResultOf(ok, r)) /\ Sound(Ref(ok)) /\ Sound(Ref(err))
      /\ Sound(Option(ok)) /\ Sound(Option(err))
  BY <1>1, SoundBuilt
<1>3. Sound(ResultOf(Ref(ok), Ref(err)))
  BY <1>2, SoundBuilt
<1> QED
  BY <1>1, <1>2, <1>3, SoundNames DEF ResultMethods, Unwraps, OnlyIf, All, If, Plain, With, Method

LEMMA SoundAdapted ==
  ASSUME NEW t, Sound(t), IsIterator(t), NEW item, Sound(item),
         NEW mode \in {"owned", "shared_ref"}, NEW indexing
  PROVE  Sound(Adapted(t, item, mode, indexing))
BY SoundBuilt DEF Adapted

LEMMA SoundItems ==
  ASSUME NEW t, Sound(t), IsIterator(t)
  PROVE  Sound(Arg(t, 1)) /\ Sound(Exposed(t)) /\ t.mode \in {"owned", "shared_ref"}
<1>1. Sound(Arg(t, 1)) /\ t.mode \in {"owned", "shared_ref"}
  BY SoundParts DEF Formed, Unary, IsIterator
<1> QED
  BY <1>1, SoundBuilt DEF Exposed

LEMMA SoundAdapters ==
  ASSUME NEW t, Sound(t), IsIterator(t), NEW r, Sound(r), NEW m, m \in Adapters(t, r), m.code = None
  PROVE  Sound(m.result)
<1> DEFINE item == Arg(t, 1)
<1> DEFINE exposed == Exposed(t)
<1>1. Sound(item) /\ Sound(exposed) /\ t.mode \in {"owned", "shared_ref"}
  BY SoundItems
<1>2. Sound(Tuple(<<USize, exposed>>))
  BY <1>1, SoundBuilt, SoundNames
<1>3. IsIterator(r) => Sound(Tuple(<<exposed, Exposed(r)>>))
  BY <1>1, SoundBuilt, SoundItems
<1>4. r.name = "Option" => Sound(Arg(r, 1))
  BY SoundParts DEF Formed, Unary
<1>5. /\ Sound(Adapted(t, item, "owned", t.indexing)) /\ Sound(Adapted(t, r, "owned", t.indexing))
      /\ Sound(Adapted(t, item, t.mode, Unindexed(t)))
      /\ r.name = "Option" => Sound(Adapted(t, Arg(r, 1), "owned", Unindexed(t)))
      /\ Sound(Adapted(t, r, "owned", Unindexed(t)))
      /\ Sound(Adapted(t, Tuple(<<USize, exposed>>), "owned", t.indexing))
      /\ IsIterator(r) => Sound(Adapted(t, Tuple(<<exposed, Exposed(r)>>), "owned", t.indexing))
  BY <1>1, <1>2, <1>3, <1>4, SoundAdapted
<1> QED
  BY <1>5 DEF Adapters, OnlyIf, If, Plain, With, Filtering, Method

LEMMA SoundConsumers ==
  ASSUME NEW t, Sound(t), IsIterator(t), NEW r, Sound(r), NEW m, m \in Consumers(t, r)
  PROVE  Sound(m.result)
<1> DEFINE item == Arg(t, 1)
<1> DEFINE exposed == Exposed(t)
<1>1. Sound(item) /\ Sound(exposed)
  BY SoundItems
<1>2. Sound(Vec(item)) /\ Sound(Option(exposed))
  BY <1>1, SoundBuilt
<1>3. Len(item.arguments) = 2 => Sound(Type("HashMap", item.arguments))
  <2> SUFFICES ASSUME Len(item.arguments) = 2 PROVE Sound(Type("HashMap", item.arguments))
    OBVIOUS
  <2> DEFINE h == Type("HashMap", item.arguments)
  <2>1. Formed(h) /\ \A i \in DOMAIN h.arguments : Sound(Arg(h, i))
    BY <1>1, SoundParts DEF Formed, Type, Arg, IsIterator, Parallels
  <2> HIDE DEF h
  <2>2. Sound(h)
    BY <2>1, SoundWhole
  <2> QED
    BY <2>2 DEF h
<1> QED
  BY <1>1, <1>2, <1>3, SoundNames DEF Consumers, OnlyIf, If, Plain, With, Filtering, Method

\* So a method that is not refused has a well-formed result.
LEMMA SoundMethods ==
  ASSUME NEW t, Sound(t), NEW r, Sound(r), NEW rayon, NEW m, m \in MethodsOf(t, r, rayon), m.code = None
  PROVE  Sound(m.result)
<1>0. PICK x : x = Underlying(t) /\ Sound(x)
  BY SoundParts DEF Underlying, Formed, Unary
<1>1. x.name \in Unary \union Binary => Sound(Arg(x, 1))
  BY <1>0, SoundParts DEF Formed
<1>2. x.name \in Binary => Sound(Arg(x, 2))
  BY <1>0, SoundParts DEF Formed
<1>3. CASE \/ x.name = "Buffer" /\ m \in BufferMethods(Arg(x, 1))
           \/ x.name = "Slice" /\ m \in SliceMethods(Arg(x, 1))
           \/ x.name = "Vec" /\ m \in VecMethods(Arg(x, 1), r, rayon)
           \/ x.name \in {"HashMap", "BTreeMap"} /\ m \in MapMethods(Arg(x, 1), Arg(x, 2))
           \/ x.name \in {"HashSet", "BTreeSet"} /\ m \in SetMethods(Arg(x, 1))
  BY <1>1, <1>2, <1>3, SoundBuffers, SoundSlices, SoundVecs, SoundMaps, SoundSets DEF Unary, Binary
<1>4. CASE \/ x.name = "TextColumn" /\ m \in TextMethods
           \/ x.name \in {"Arc", "Rc", "Box", "RefCell"} /\ m \in CellMethods(x)
           \/ /\ x.name \in {"Sender", "SyncSender", "Receiver", "ThreadHandle", "TcpListener",
                             "TcpStream", "File"}
              /\ m \in ChannelMethods(x)
           \/ x.name = "ThreadPool" /\ m \in PoolMethods(r)
  BY <1>0, <1>4, SoundTexts, SoundCells, SoundChannels, SoundPools
<1>5. CASE \/ x.name \in {"String", "Str"} /\ m \in StringMethods(x, r)
           \/ x.name \in Integers \union Floats /\ m \in NumericMethods(x)
           \/ x.name = "PathBuf" /\ m \in PathMethods(x)
           \/ x.name = "Option" /\ m \in OptionMethods(x, r)
           \/ x.name = "Result" /\ m \in ResultMethods(x, r)
  BY <1>0, <1>5, SoundStrings, SoundNumbers, SoundPaths, SoundOptions, SoundResults
<1>6. CASE IsIterator(x) /\ m \in Adapters(x, r) \union Consumers(x, r)
  BY <1>0, <1>6, SoundAdapters, SoundConsumers
<1> QED
  BY <1>0, <1>3, <1>4, <1>5, <1>6, MethodsByKind

------------------------------------------------------------------------------
(* The results: what the frontend says a method gives is what the operations it*)
(* is emitted as give.                                                        *)

LEMMA IterDenotes ==
  ASSUME NEW item
  PROVE  /\ \A p \in BOOLEAN : \A indexing :
              Denotes(RustIter(p, item, indexing)) = RustIter(p, item, indexing)
         /\ Denotes(Sequential(item, "owned")) = RustIter(FALSE, item, "none")
         /\ Denotes(Sequential(item, "shared_ref")) = RustIter(FALSE, Ref(item), "none")
         /\ \A indexing :
              /\ Denotes(Parallel(item, "owned", indexing)) = RustIter(TRUE, item, indexing)
              /\ Denotes(Parallel(item, "shared_ref", indexing)) = RustIter(TRUE, Ref(item), indexing)
BY DEF Denotes, RustIter, Sequential, Parallel, Iter, IsIterator, Parallels, Exposed, Arg

\* What the operations of a method give, one after the other.
Performed(base, ops, r) ==
  LET first == Step(base, Head(ops), r)
  IN IF Len(ops) = 1 \/ first = NoSuch THEN first ELSE Step(first, ops[2], r)

Judged(base, op) == GivesItems(base, op) \/ Adapts(base, op)

\* The result of a method is what its operations give, where there is something to judge.
Rendered(x, m, r) ==
  LET base == Denotes(x)
      ops  == Operations(x, m.name)
  IN Judged(base, Head(ops)) => Performed(base, ops, r) = Denotes(m.result)

LEMMA PlainOperations ==
  ASSUME NEW t, NEW name, name \notin {"iter", "iter_ref", "reduce"}
  PROVE  Operations(t, name) = <<name>>
BY DEF Operations

LEMMA PlainPerformed ==
  ASSUME NEW base, NEW op, NEW r
  PROVE  Performed(base, <<op>>, r) = Step(base, op, r) /\ Head(<<op>>) = op
BY DEF Performed

\* The names whose results a container's table is judged by.
ItemOps == {"iter", "into_iter", "chunks", "windows", "par_iter", "get", "first", "last",
            "pop", "keys", "values", "get_mut", "insert", "remove"}

\* What the tables of the containers say of these names.
LEMMA SliceGives ==
  ASSUME NEW e, NEW m, m \in SliceMethods(e)
  PROVE  \/ m.name \notin ItemOps \union {"iter_ref", "reduce"}
         \/ m.name = "iter" /\ m.result = Sequential(e, "owned")
         \/ m.name = "iter_ref" /\ m.result = Sequential(e, "shared_ref")
         \/ m.name \in {"get", "first", "last"} /\ m.result = Option(Ref(e))
         \/ m.name \in {"chunks", "windows"} /\ m.result = Sequential(Slice(e), "owned")
BY DEF SliceMethods, Sized, OnlyIf, All, Plain, Method, ItemOps

LEMMA VecGives ==
  ASSUME NEW e, NEW r, NEW rayon, NEW m, m \in VecMethods(e, r, rayon)
  PROVE  \/ m \in SliceMethods(e)
         \/ m.name \notin ItemOps \union {"iter_ref", "reduce"}
         \/ m.name = "pop" /\ m.result = Option(e)
         \/ m.name = "into_iter" /\ m.result = Sequential(e, "owned")
         \/ m.name = "par_iter" /\ m.result = Parallel(e, "shared_ref", "indexed")
BY DEF VecMethods, OnlyIf, All, If, Plain, With, Method, ItemOps

LEMMA MapGives ==
  ASSUME NEW k, NEW v, NEW m, m \in MapMethods(k, v)
  PROVE  \/ m.name \notin ItemOps \union {"iter_ref", "reduce"}
         \/ m.name \in {"insert", "remove"} /\ m.result = Option(v)
         \/ m.name = "get" /\ m.result = Option(Ref(v))
         \/ m.name = "get_mut" /\ m.result = Option(Mut(v))
         \/ m.name = "keys" /\ m.result = Sequential(k, "shared_ref")
         \/ m.name = "values" /\ m.result = Sequential(v, "shared_ref")
         \/ m.name = "into_iter" /\ m.result = Sequential(Tuple(<<k, v>>), "owned")
         \/ m.name \in {"iter", "iter_ref"} /\ m.result = Sequential(Tuple(<<Ref(k), Ref(v)>>), "owned")
BY DEF MapMethods, Sized, All, If, Plain, Method, ItemOps

LEMMA SetGives ==
  ASSUME NEW e, NEW m, m \in SetMethods(e)
  PROVE  \/ m.name \notin (ItemOps \ {"insert", "remove"}) \union {"iter_ref", "reduce"}
         \/ m.name = "into_iter" /\ m.result = Sequential(e, "owned")
         \/ m.name \in {"iter", "iter_ref"} /\ m.result = Sequential(e, "shared_ref")
BY DEF SetMethods, Sized, All, If, Plain, Method, ItemOps

LEMMA BufferGives ==
  ASSUME NEW e, NEW m, m \in BufferMethods(e)
  PROVE  \/ m.name \notin ItemOps \union {"iter_ref", "reduce"}
         \/ m.name = "iter" /\ m.result = Sequential(e, "owned")
BY DEF BufferMethods, Sized, All, If, Plain, Method, ItemOps

\* A method outside an item-giving table is not judged.
LEMMA Unjudged ==
  ASSUME NEW x, ~IsIterator(x), NEW m, NEW r, m.name \notin {"iter", "iter_ref", "reduce"},
         x.name \in {"Option", "Result"} => m.name \in {"is_some", "is_none", "is_ok", "is_err"},
         x.name \in {"Vec", "Slice", "Buffer", "HashMap", "BTreeMap"} => m.name \notin ItemOps,
         x.name \in {"HashSet", "BTreeSet"} => m.name \notin ItemOps \ {"insert", "remove"}
  PROVE  Rendered(x, m, r)
<1>1. Operations(x, m.name) = <<m.name>> /\ Denotes(x) = x
  BY PlainOperations DEF Denotes
<1>2. ~Judged(x, m.name)
  BY DEF Judged, GivesItems, Adapts, ItemOps
<1> QED
  BY <1>1, <1>2 DEF Rendered

LEMMA ContainerSteps ==
  ASSUME NEW x, ~IsIterator(x), NEW op, NEW r
  PROVE  Denotes(x) = x /\ Step(x, op, r) = Denotes(RustItems(x, op, r))
BY DEF Denotes, Step, Adapts

LEMMA PlainRendered ==
  ASSUME NEW x, ~IsIterator(x), NEW m, NEW r, m.name \notin {"iter", "iter_ref", "reduce"},
         Denotes(RustItems(x, m.name, r)) = Denotes(m.result)
  PROVE  Rendered(x, m, r)
BY PlainOperations, PlainPerformed, ContainerSteps DEF Rendered

\* iter and iter_ref outside the copying tables.
LEMMA IterRendered ==
  ASSUME NEW x, ~IsIterator(x), NEW m, NEW r, m.name \in {"iter", "iter_ref"},
         m.name = "iter" => x.name \notin {"Vec", "Slice"},
         m.name = "iter_ref" => x.name \in {"Vec", "Slice", "HashMap", "BTreeMap", "HashSet", "BTreeSet"},
         Denotes(RustItems(x, "iter", r)) = Denotes(m.result)
  PROVE  Rendered(x, m, r)
<1>1. CASE m.name = "iter"
  <2>1. Operations(x, "iter") = <<"iter">>
    BY <1>1 DEF Operations
  <2> QED
    BY <1>1, <2>1, PlainPerformed, ContainerSteps DEF Rendered
<1>2. CASE m.name = "iter_ref"
  <2>1. "iter_ref" \in ReplacedOn(x.name)
    BY <1>2 DEF ReplacedOn, Parallels
  <2>2. Operations(x, "iter_ref") = <<"iter">>
    BY <2>1 DEF Operations, Replaced
  <2> QED
    BY <1>2, <2>2, PlainPerformed, ContainerSteps DEF Rendered
<1> QED
  BY <1>1, <1>2

\* iter of a vector or a slice is followed by copied.
LEMMA CopiedRendered ==
  ASSUME NEW x, x.name \in {"Vec", "Slice"}, NEW m, NEW r, m.name = "iter",
         m.result = Sequential(Arg(x, 1), "owned")
  PROVE  Rendered(x, m, r)
<1> DEFINE e == Arg(x, 1)
<1> DEFINE lent == RustIter(FALSE, Ref(e), "none")
<1>1. Operations(x, m.name) = <<"iter", "copied">>
  <2>1. "iter" \in ReplacedOn(x.name)
    BY DEF ReplacedOn, Parallels
  <2> QED
    BY <2>1 DEF Operations, Replaced
<1>2. ~IsIterator(x)
  BY DEF IsIterator, Parallels
<1>3. RustItems(x, "iter", r) = lent
  BY DEF RustItems
<1>4. Step(x, "iter", r) = lent
  <2>1. Denotes(lent) = lent
    BY IterDenotes
  <2>2. Step(x, "iter", r) = Denotes(RustItems(x, "iter", r))
    BY <1>2, ContainerSteps
  <2> HIDE DEF lent
  <2> QED
    BY <1>3, <2>1, <2>2
<1>5. /\ Adapts(lent, "copied") /\ Arg(lent, 1) = Ref(e) /\ Ref(e).name = "Ref" /\ Arg(Ref(e), 1) = e
      /\ lent.name = "Iterator" /\ lent.indexing = "none"
  BY DEF Adapts, IsIterator, RustIter, Iter, Arg, Ref, Type
<1>6. RustAdapts(lent, "copied", r) = RustIter(FALSE, e, "none")
  BY <1>5 DEF RustAdapts
<1>7. Step(lent, "copied", r) = RustIter(FALSE, e, "none")
  BY <1>5, <1>6, IterDenotes DEF Step
<1>8. lent # NoSuch
  <2>1. NoSuch.name # "Iterator"
    BY DEF NoSuch, Primitive, Type
  <2> HIDE DEF lent
  <2> QED
    BY <1>5, <2>1
<1> HIDE DEF lent
<1>9. Performed(x, <<"iter", "copied">>, r) = RustIter(FALSE, e, "none")
  <2> DEFINE ops == <<"iter", "copied">>
  <2>1. Head(ops) = "iter" /\ Len(ops) = 2 /\ ops[2] = "copied"
    OBVIOUS
  <2> HIDE DEF ops
  <2>2. Performed(x, ops, r) = Step(lent, "copied", r)
    BY <1>4, <1>8, <2>1 DEF Performed
  <2> QED
    BY <1>7, <2>2 DEF ops
<1>10. Denotes(x) = x /\ Denotes(m.result) = RustIter(FALSE, e, "none")
  BY <1>2, ContainerSteps, IterDenotes
<1> QED
  BY <1>1, <1>9, <1>10 DEF Rendered

\* Each table's results are those of the operations.
LEMMA SlicesRendered ==
  ASSUME NEW x, x.name \in {"Vec", "Slice"}, NEW r, NEW m, m \in SliceMethods(Arg(x, 1))
  PROVE  Rendered(x, m, r)
<1> DEFINE e == Arg(x, 1)
<1>0. ~IsIterator(x)
  BY DEF IsIterator, Parallels
<1>1. CASE m.name \notin ItemOps \union {"iter_ref", "reduce"}
  BY <1>0, <1>1, Unjudged DEF ItemOps
<1>2. CASE m.name = "iter" /\ m.result = Sequential(e, "owned")
  BY <1>2, CopiedRendered
<1>3. CASE m.name = "iter_ref" /\ m.result = Sequential(e, "shared_ref")
  <2>1. Denotes(RustItems(x, "iter", r)) = Denotes(m.result)
    BY <1>3, IterDenotes DEF RustItems
  <2> QED
    BY <1>0, <1>3, <2>1, IterRendered
<1>4. CASE m.name \in {"get", "first", "last"} /\ m.result = Option(Ref(e))
  <2>1. RustItems(x, m.name, r) = m.result
    BY <1>4 DEF RustItems
  <2> QED
    BY <1>0, <1>4, <2>1, PlainRendered
<1>5. CASE m.name \in {"chunks", "windows"} /\ m.result = Sequential(Slice(e), "owned")
  <2>1. RustItems(x, m.name, r) = RustIter(FALSE, Slice(e), "none")
    BY <1>5 DEF RustItems
  <2>2. Denotes(RustItems(x, m.name, r)) = Denotes(m.result)
    BY <1>5, <2>1, IterDenotes
  <2> QED
    BY <1>0, <1>5, <2>2, PlainRendered
<1> QED
  BY <1>1, <1>2, <1>3, <1>4, <1>5, SliceGives

LEMMA VecsRendered ==
  ASSUME NEW x, x.name = "Vec", NEW r, NEW rayon, NEW m, m \in VecMethods(Arg(x, 1), r, rayon)
  PROVE  Rendered(x, m, r)
<1> DEFINE e == Arg(x, 1)
<1>0. ~IsIterator(x)
  BY DEF IsIterator, Parallels
<1>1. CASE m.name \notin ItemOps \union {"iter_ref", "reduce"}
  BY <1>0, <1>1, Unjudged DEF ItemOps
<1>2. CASE m.name = "pop" /\ m.result = Option(e)
  <2>1. RustItems(x, m.name, r) = m.result
    BY <1>2 DEF RustItems
  <2> QED
    BY <1>0, <1>2, <2>1, PlainRendered
<1>3. CASE m.name = "into_iter" /\ m.result = Sequential(e, "owned")
  <2>1. RustItems(x, m.name, r) = RustIter(FALSE, e, "none")
    BY <1>3 DEF RustItems
  <2>2. Denotes(RustItems(x, m.name, r)) = Denotes(m.result)
    BY <1>3, <2>1, IterDenotes
  <2> QED
    BY <1>0, <1>3, <2>2, PlainRendered
<1>4. CASE m.name = "par_iter" /\ m.result = Parallel(e, "shared_ref", "indexed")
  <2>1. RustItems(x, m.name, r) = RustIter(TRUE, Ref(e), "indexed")
    BY <1>4 DEF RustItems
  <2>2. Denotes(RustIter(TRUE, Ref(e), "indexed")) = RustIter(TRUE, Ref(e), "indexed")
    BY IterDenotes
  <2>3. Denotes(Parallel(e, "shared_ref", "indexed")) = RustIter(TRUE, Ref(e), "indexed")
    BY IterDenotes
  <2> QED
    BY <1>0, <1>4, <2>1, <2>2, <2>3, PlainRendered
<1> QED
  BY <1>1, <1>2, <1>3, <1>4, VecGives, SlicesRendered

LEMMA MapsRendered ==
  ASSUME NEW x, x.name \in {"HashMap", "BTreeMap"}, NEW r, NEW m, m \in MapMethods(Arg(x, 1), Arg(x, 2))
  PROVE  Rendered(x, m, r)
<1> DEFINE k == Arg(x, 1)
<1> DEFINE v == Arg(x, 2)
<1>0. ~IsIterator(x)
  BY DEF IsIterator, Parallels
<1>1. CASE m.name \notin ItemOps \union {"iter_ref", "reduce"}
  BY <1>0, <1>1, Unjudged DEF ItemOps
<1>2. CASE \/ m.name \in {"insert", "remove"} /\ m.result = Option(v)
           \/ m.name = "get" /\ m.result = Option(Ref(v))
           \/ m.name = "get_mut" /\ m.result = Option(Mut(v))
  <2>1. RustItems(x, m.name, r) = m.result
    BY <1>2 DEF RustItems
  <2> QED
    BY <1>0, <1>2, <2>1, PlainRendered
<1>3. CASE m.name = "keys" /\ m.result = Sequential(k, "shared_ref")
  <2>1. RustItems(x, m.name, r) = RustIter(FALSE, Ref(k), "none")
    BY <1>3 DEF RustItems
  <2>2. Denotes(RustItems(x, m.name, r)) = Denotes(m.result)
    BY <1>3, <2>1, IterDenotes
  <2> QED
    BY <1>0, <1>3, <2>2, PlainRendered
<1>4. CASE m.name = "values" /\ m.result = Sequential(v, "shared_ref")
  <2>1. RustItems(x, m.name, r) = RustIter(FALSE, Ref(v), "none")
    BY <1>4 DEF RustItems
  <2>2. Denotes(RustIter(FALSE, Ref(v), "none")) = RustIter(FALSE, Ref(v), "none")
    BY IterDenotes
  <2>3. Denotes(Sequential(v, "shared_ref")) = RustIter(FALSE, Ref(v), "none")
    BY IterDenotes
  <2> QED
    BY <1>0, <1>4, <2>1, <2>2, <2>3, PlainRendered
<1>5. CASE m.name = "into_iter" /\ m.result = Sequential(Tuple(<<k, v>>), "owned")
  <2>1. RustItems(x, m.name, r) = RustIter(FALSE, Tuple(<<k, v>>), "none")
    BY <1>5 DEF RustItems
  <2>2. Denotes(RustItems(x, m.name, r)) = Denotes(m.result)
    BY <1>5, <2>1, IterDenotes
  <2> QED
    BY <1>0, <1>5, <2>2, PlainRendered
<1>6. CASE m.name \in {"iter", "iter_ref"} /\ m.result = Sequential(Tuple(<<Ref(k), Ref(v)>>), "owned")
  <2>1. RustItems(x, "iter", r) = RustIter(FALSE, Tuple(<<Ref(k), Ref(v)>>), "none")
    BY DEF RustItems
  <2>2. Denotes(RustItems(x, "iter", r)) = Denotes(m.result)
    BY <1>6, <2>1, IterDenotes
  <2> QED
    BY <1>0, <1>6, <2>2, IterRendered
<1> QED
  BY <1>1, <1>2, <1>3, <1>4, <1>5, <1>6, MapGives

LEMMA SetsRendered ==
  ASSUME NEW x, x.name \in {"HashSet", "BTreeSet"}, NEW r, NEW m, m \in SetMethods(Arg(x, 1))
  PROVE  Rendered(x, m, r)
<1> DEFINE e == Arg(x, 1)
<1>0. ~IsIterator(x)
  BY DEF IsIterator, Parallels
<1>1. CASE m.name \notin (ItemOps \ {"insert", "remove"}) \union {"iter_ref", "reduce"}
  BY <1>0, <1>1, Unjudged DEF ItemOps
<1>2. CASE m.name = "into_iter" /\ m.result = Sequential(e, "owned")
  <2>1. RustItems(x, m.name, r) = RustIter(FALSE, e, "none")
    BY <1>2 DEF RustItems
  <2>2. Denotes(RustItems(x, m.name, r)) = Denotes(m.result)
    BY <1>2, <2>1, IterDenotes
  <2> QED
    BY <1>0, <1>2, <2>2, PlainRendered
<1>3. CASE m.name \in {"iter", "iter_ref"} /\ m.result = Sequential(e, "shared_ref")
  <2>1. RustItems(x, "iter", r) = RustIter(FALSE, Ref(e), "none")
    BY DEF RustItems
  <2>2. Denotes(RustItems(x, "iter", r)) = Denotes(m.result)
    BY <1>3, <2>1, IterDenotes
  <2> QED
    BY <1>0, <1>3, <2>2, IterRendered
<1> QED
  BY <1>1, <1>2, <1>3, SetGives

LEMMA BuffersRendered ==
  ASSUME NEW x, x.name = "Buffer", NEW r, NEW m, m \in BufferMethods(Arg(x, 1))
  PROVE  Rendered(x, m, r)
<1>0. ~IsIterator(x)
  BY DEF IsIterator, Parallels
<1>1. CASE m.name \notin ItemOps \union {"iter_ref", "reduce"}
  BY <1>0, <1>1, Unjudged DEF ItemOps
<1>2. CASE m.name = "iter" /\ m.result = Sequential(Arg(x, 1), "owned")
  <2>1. Denotes(RustItems(x, "iter", r)) = Denotes(m.result)
    BY <1>2, IterDenotes DEF RustItems
  <2> QED
    BY <1>0, <1>2, <2>1, IterRendered
<1> QED
  BY <1>1, <1>2, BufferGives

LEMMA OptionsRendered ==
  ASSUME NEW x, x.name = "Option", NEW r, NEW m, m \in OptionMethods(x, r)
  PROVE  Rendered(x, m, r)
<1> DEFINE e == Arg(x, 1)
<1>0. ~IsIterator(x)
  BY DEF IsIterator, Parallels
<1>1. \/ m.name \in {"is_some", "is_none"}
      \/ m.name \in {"unwrap", "expect", "unwrap_or"} /\ m.result = e
      \/ m.name = "map" /\ m.result = Option(r)
      \/ m.name = "as_ref" /\ m.result = Option(Ref(e))
      \/ m.name = "as_mut" /\ m.result = Option(Mut(e))
      \/ m.name = "and_then" /\ m.result = r
      \/ m.name = "or_else" /\ m.result = x
      \/ m.name \in {"copied", "cloned"} /\ m.result = Option(Underlying(e)) /\ e.name = "Ref"
  BY DEF OptionMethods, Unwraps, OnlyIf, All, If, Plain, With, Method
<1>2. CASE m.name \in {"is_some", "is_none"}
  BY <1>0, <1>2, Unjudged
<1>3. e.name = "Ref" => Underlying(e) = Arg(e, 1)
  BY DEF Underlying, Ownerships
<1>4. CASE m.name \notin {"is_some", "is_none"}
  <2>1. RustItems(x, m.name, r) = m.result
    BY <1>1, <1>3, <1>4 DEF RustItems
  <2> QED
    BY <1>0, <1>1, <1>4, <2>1, PlainRendered
<1> QED
  BY <1>2, <1>4

LEMMA ResultsRendered ==
  ASSUME NEW x, x.name = "Result", NEW r, NEW m, m \in ResultMethods(x, r)
  PROVE  Rendered(x, m, r)
<1> DEFINE ok == Arg(x, 1)
<1> DEFINE err == Arg(x, 2)
<1>0. ~IsIterator(x)
  BY DEF IsIterator, Parallels
<1>1. \/ m.name \in {"is_ok", "is_err"}
      \/ m.name \in {"unwrap", "expect", "unwrap_or"} /\ m.result = ok
      \/ m.name = "map" /\ m.result = ResultOf(r, err)
      \/ m.name = "map_err" /\ m.result = ResultOf(ok, r)
      \/ m.name = "as_ref" /\ m.result = ResultOf(Ref(ok), Ref(err))
      \/ m.name = "ok" /\ m.result = Option(ok)
      \/ m.name = "err" /\ m.result = Option(err)
      \/ m.name \in {"and_then", "or_else"} /\ m.result = r
  BY DEF ResultMethods, Unwraps, OnlyIf, All, If, Plain, With, Method
<1>2. CASE m.name \in {"is_ok", "is_err"}
  BY <1>0, <1>2, Unjudged
<1>3. CASE m.name \notin {"is_ok", "is_err"}
  <2>1. RustItems(x, m.name, r) = m.result
    BY <1>1, <1>3 DEF RustItems
  <2> QED
    BY <1>0, <1>1, <1>3, <2>1, PlainRendered
<1> QED
  BY <1>2, <1>3

\* What an iterator is in Rust.
LEMMA IteratorDenotes ==
  ASSUME NEW x, IsIterator(x), NEW b, b = Denotes(x)
  PROVE  /\ b = RustIter(x.name # "Iterator", Exposed(x), x.indexing)
         /\ IsIterator(b) /\ Arg(b, 1) = Exposed(x) /\ b.indexing = x.indexing
         /\ b.name = IF x.name = "Iterator" THEN "Iterator" ELSE "ParallelIterator"
BY DEF Denotes, RustIter, Iter, IsIterator, Parallels, Arg

LEMMA AdaptedDenotes ==
  ASSUME NEW x, IsIterator(x), NEW item, NEW indexing
  PROVE  /\ Denotes(Adapted(x, item, "owned", indexing)) =
              RustIter(x.name # "Iterator", item, IF x.name = "Iterator" THEN "none" ELSE indexing)
         /\ Denotes(Adapted(x, item, "shared_ref", indexing)) =
              RustIter(x.name # "Iterator", Ref(item), IF x.name = "Iterator" THEN "none" ELSE indexing)
BY IterDenotes DEF Adapted

\* An adapter's step on an iterator that is already a Rust type.
LEMMA AdapterSteps ==
  ASSUME NEW b, IsIterator(b), NEW op, op \notin {"count", "any", "all"}, NEW r
  PROVE  Step(b, op, r) = Denotes(RustAdapts(b, op, r))
BY DEF Step, Adapts

LEMMA AdapterRendered ==
  ASSUME NEW x, IsIterator(x), NEW m, NEW r,
         m.name \notin {"iter", "iter_ref", "reduce", "count", "any", "all"},
         Denotes(RustAdapts(Denotes(x), m.name, r)) = Denotes(m.result)
  PROVE  Rendered(x, m, r)
<1>1. Operations(x, m.name) = <<m.name>>
  BY PlainOperations
<1>2. Performed(Denotes(x), <<m.name>>, r) = Step(Denotes(x), m.name, r) /\ Head(<<m.name>>) = m.name
  BY PlainPerformed
<1>3. Step(Denotes(x), m.name, r) = Denotes(RustAdapts(Denotes(x), m.name, r))
  BY IteratorDenotes, AdapterSteps
<1> QED
  BY <1>1, <1>2, <1>3 DEF Rendered

LEMMA AdaptersRendered ==
  ASSUME NEW x, IsIterator(x), Formed(x), NEW r, NEW m, m \in Adapters(x, r), m.code = None
  PROVE  Rendered(x, m, r)
<1> DEFINE item == Arg(x, 1)
<1> DEFINE e == Exposed(x)
<1> DEFINE p == x.name # "Iterator"
<1>0. PICK b : b = Denotes(x)
  OBVIOUS
<1>a. /\ IsIterator(b) /\ Arg(b, 1) = e /\ b.indexing = x.indexing
      /\ b.name = IF x.name = "Iterator" THEN "Iterator" ELSE "ParallelIterator"
  BY <1>0, IteratorDenotes
<1>b. /\ x.mode \in {"owned", "shared_ref"} /\ (x.name = "Iterator" => x.indexing = "none")
      /\ x.mode = "shared_ref" => e = Ref(item) /\ e.name = "Ref" /\ Arg(e, 1) = item
      /\ x.mode = "owned" => e = item
  BY DEF Formed, Exposed, Ref, Type, Arg
<1>c. (b.name # "Iterator") = p
  BY <1>a
<1>d. \A i, n : Denotes(RustIter(p, i, n)) = RustIter(p, i, n)
  BY IterDenotes
<1> HIDE DEF item, e, p
<1>e. Unindexed(x) = IF p THEN "unindexed" ELSE "none"
  BY DEF Unindexed, p
<1>f. /\ \A i, n : Denotes(Adapted(x, i, "owned", n)) = RustIter(p, i, IF p THEN n ELSE "none")
      /\ \A i, n : Denotes(Adapted(x, i, "shared_ref", n)) = RustIter(p, Ref(i), IF p THEN n ELSE "none")
  BY AdaptedDenotes DEF p
<1>1. \/ /\ m.name \in {"copied", "cloned"} /\ m.result = Adapted(x, item, "owned", x.indexing)
         /\ x.mode # "owned"
      \/ m.name = "map" /\ m.result = Adapted(x, r, "owned", x.indexing)
      \/ m.name = "filter" /\ m.result = Adapted(x, item, x.mode, Unindexed(x))
      \/ m.name = "filter_map" /\ m.result = Adapted(x, Arg(r, 1), "owned", Unindexed(x))
      \/ /\ m.name = "enumerate" /\ m.result = Adapted(x, Tuple(<<USize, e>>), "owned", x.indexing)
         /\ x.indexing # "unindexed"
      \/ /\ m.name = "zip" /\ m.result = Adapted(x, Tuple(<<e, Exposed(r)>>), "owned", x.indexing)
         /\ IsIterator(r) /\ (r.name = "Iterator") = (x.name = "Iterator")
         /\ "unindexed" \notin {x.indexing, r.indexing}
  BY DEF Adapters, OnlyIf, If, Plain, With, Filtering, Method, item, e, None
<1>2. CASE /\ m.name \in {"copied", "cloned"} /\ m.result = Adapted(x, item, "owned", x.indexing)
           /\ x.mode # "owned"
  <2>1. RustAdapts(b, m.name, r) = RustIter(p, item, x.indexing)
    BY <1>2, <1>a, <1>b, <1>c DEF RustAdapts
  <2>2. x.indexing = IF p THEN x.indexing ELSE "none"
    BY <1>b DEF p
  <2> QED
    BY <1>0, <1>2, <1>d, <1>f, <2>1, <2>2, AdapterRendered
<1>3. CASE m.name = "map" /\ m.result = Adapted(x, r, "owned", x.indexing)
  <2>1. RustAdapts(b, m.name, r) = RustIter(p, r, x.indexing)
    BY <1>3, <1>a, <1>b, <1>c DEF RustAdapts
  <2>2. x.indexing = IF p THEN x.indexing ELSE "none"
    BY <1>b DEF p
  <2> QED
    BY <1>0, <1>3, <1>d, <1>f, <2>1, <2>2, AdapterRendered
<1>4. CASE m.name = "filter" /\ m.result = Adapted(x, item, x.mode, Unindexed(x))
  <2>1. RustAdapts(b, m.name, r) = RustIter(p, e, Unindexed(x))
    BY <1>4, <1>a, <1>c, <1>e DEF RustAdapts
  <2>2. Denotes(m.result) = RustIter(p, e, Unindexed(x))
    BY <1>4, <1>b, <1>e, <1>f
  <2> QED
    BY <1>0, <1>4, <1>d, <2>1, <2>2, AdapterRendered
<1>5. CASE m.name = "filter_map" /\ m.result = Adapted(x, Arg(r, 1), "owned", Unindexed(x))
  <2>1. RustAdapts(b, m.name, r) = RustIter(p, Arg(r, 1), Unindexed(x))
    BY <1>5, <1>a, <1>c, <1>e DEF RustAdapts
  <2> QED
    BY <1>0, <1>5, <1>d, <1>e, <1>f, <2>1, AdapterRendered
<1>6. CASE /\ m.name = "enumerate" /\ m.result = Adapted(x, Tuple(<<USize, e>>), "owned", x.indexing)
           /\ x.indexing # "unindexed"
  <2>1. RustAdapts(b, m.name, r) = RustIter(p, Tuple(<<USize, e>>), x.indexing)
    BY <1>6, <1>a, <1>c DEF RustAdapts
  <2>2. x.indexing = IF p THEN x.indexing ELSE "none"
    BY <1>b DEF p
  <2> QED
    BY <1>0, <1>6, <1>d, <1>f, <2>1, <2>2, AdapterRendered
<1>7. CASE /\ m.name = "zip" /\ m.result = Adapted(x, Tuple(<<e, Exposed(r)>>), "owned", x.indexing)
           /\ IsIterator(r) /\ (r.name = "Iterator") = (x.name = "Iterator")
           /\ "unindexed" \notin {x.indexing, r.indexing}
  <2>0. PICK other : other = Denotes(r)
    OBVIOUS
  <2>1. /\ other.name = b.name /\ other.indexing = r.indexing /\ Arg(other, 1) = Exposed(r)
    BY <1>7, <1>a, <2>0, IteratorDenotes
  <2>2. RustAdapts(b, m.name, r) = RustIter(p, Tuple(<<e, Exposed(r)>>), x.indexing)
    BY <1>7, <1>a, <1>c, <2>0, <2>1 DEF RustAdapts
  <2>3. x.indexing = IF p THEN x.indexing ELSE "none"
    BY <1>b DEF p
  <2> QED
    BY <1>0, <1>7, <1>d, <1>f, <2>2, <2>3, AdapterRendered
<1> QED
  BY <1>1, <1>2, <1>3, <1>4, <1>5, <1>6, <1>7

LEMMA ConsumersRendered ==
  ASSUME NEW x, IsIterator(x), Formed(x), NEW r, NEW m, m \in Consumers(x, r), m.code = None
  PROVE  Rendered(x, m, r)
<1> DEFINE item == Arg(x, 1)
<1> DEFINE e == Exposed(x)
<1>0. PICK b : b = Denotes(x)
  OBVIOUS
<1>a. /\ IsIterator(b) /\ Arg(b, 1) = e
      /\ b.name = IF x.name = "Iterator" THEN "Iterator" ELSE "ParallelIterator"
  BY <1>0, IteratorDenotes
<1>b. x.mode = "owned" => e = item
  BY DEF Exposed
<1> HIDE DEF item, e
<1>1. \/ m.name \in {"count", "any", "all"}
      \/ m.name = "collect_vec" /\ m.result = Vec(item) /\ x.mode = "owned"
      \/ m.name = "collect_map" /\ m.result = Type("HashMap", item.arguments) /\ x.mode = "owned"
      \/ m.name = "sum" /\ m.result = item /\ x.mode = "owned" /\ IsNumeric(item)
      \/ m.name = "find" /\ m.result = Option(e) /\ x.name = "Iterator"
      \/ m.name \in {"find_any", "find_first", "find_last"} /\ m.result = Option(e)
      \/ m.name = "fold" /\ m.result = r
      \/ m.name = "reduce" /\ m.result = Option(e)
  BY DEF Consumers, OnlyIf, If, Plain, With, Filtering, Method, item, e, None
<1>2. CASE m.name \in {"count", "any", "all"}
  <2>1. Operations(x, m.name) = <<m.name>> /\ Head(<<m.name>>) = m.name
    BY <1>2, PlainOperations, PlainPerformed
  <2>2. ~Judged(b, m.name)
    BY <1>2, <1>a DEF Judged, Adapts, GivesItems
  <2> QED
    BY <1>0, <2>1, <2>2 DEF Rendered
<1>3. CASE m.name \notin {"count", "any", "all", "reduce", "sum"}
  <2>1. RustAdapts(b, m.name, r) = m.result
    BY <1>1, <1>3, <1>a, <1>b DEF RustAdapts
  <2> QED
    BY <1>0, <1>1, <1>3, <2>1, AdapterRendered
<1>4. CASE m.name = "sum"
  <2>1. RustAdapts(b, m.name, r) = Deref(item)
    BY <1>1, <1>4, <1>a, <1>b DEF RustAdapts
  <2>2. item.name \notin Ownerships \union {"LifetimeRef"} /\ ~IsIterator(item)
    BY <1>1, <1>4 DEF IsNumeric, Integers, Floats, Ownerships, IsIterator, Parallels
  <2>3. Deref(item) = item
    BY <2>2 DEF Deref, Underlying, Denotes
  <2> QED
    BY <1>0, <1>1, <1>4, <2>1, <2>3, AdapterRendered
<1>5. CASE m.name = "reduce" /\ x.name = "Iterator"
  <2>1. Operations(x, m.name) = <<"reduce">>
    BY <1>5 DEF Operations, Parallels
  <2>2. RustAdapts(b, "reduce", r) = Option(e)
    BY <1>5, <1>a DEF RustAdapts
  <2>3. Step(b, "reduce", r) = Denotes(Option(e))
    BY <1>a, <2>2, AdapterSteps
  <2> QED
    BY <1>0, <1>1, <1>5, <2>1, <2>3, PlainPerformed DEF Rendered
<1>6. CASE m.name = "reduce" /\ x.name # "Iterator"
  <2>1. Operations(x, m.name) = <<"reduce_with">>
    BY <1>6 DEF Operations, Parallels, IsIterator, Replaced, ReplacedOn
  <2>2. RustAdapts(b, "reduce_with", r) = Option(e)
    BY <1>6, <1>a DEF RustAdapts
  <2>3. Step(b, "reduce_with", r) = Denotes(Option(e))
    BY <1>a, <2>2, AdapterSteps
  <2> QED
    BY <1>0, <1>1, <1>6, <2>1, <2>3, PlainPerformed DEF Rendered
<1> QED
  BY <1>1, <1>2, <1>3, <1>4, <1>5, <1>6

\* Every table's results are.
LEMMA MethodsRendered ==
  ASSUME NEW t, Sound(t), NEW r, NEW rayon, NEW m, m \in MethodsOf(t, r, rayon), m.code = None
  PROVE  Rendered(Underlying(t), m, r)
<1>0. PICK x : x = Underlying(t) /\ Sound(x)
  BY SoundParts DEF Underlying, Formed, Unary
<1>1. Formed(x)
  BY <1>0, SoundParts
<1>2. CASE \/ x.name = "Buffer" /\ m \in BufferMethods(Arg(x, 1))
           \/ x.name = "Slice" /\ m \in SliceMethods(Arg(x, 1))
           \/ x.name = "Vec" /\ m \in VecMethods(Arg(x, 1), r, rayon)
           \/ x.name \in {"HashMap", "BTreeMap"} /\ m \in MapMethods(Arg(x, 1), Arg(x, 2))
           \/ x.name \in {"HashSet", "BTreeSet"} /\ m \in SetMethods(Arg(x, 1))
           \/ x.name = "Option" /\ m \in OptionMethods(x, r)
           \/ x.name = "Result" /\ m \in ResultMethods(x, r)
  BY <1>0, <1>2, BuffersRendered, SlicesRendered, VecsRendered, MapsRendered, SetsRendered,
     OptionsRendered, ResultsRendered
<1>3. CASE \/ x.name = "TextColumn" /\ m \in TextMethods
           \/ x.name \in {"Arc", "Rc", "Box", "RefCell"} /\ m \in CellMethods(x)
           \/ /\ x.name \in {"Sender", "SyncSender", "Receiver", "ThreadHandle", "TcpListener",
                             "TcpStream", "File"}
              /\ m \in ChannelMethods(x)
           \/ x.name = "ThreadPool" /\ m \in PoolMethods(r)
           \/ x.name \in {"String", "Str"} /\ m \in StringMethods(x, r)
           \/ x.name \in Integers \union Floats /\ m \in NumericMethods(x)
           \/ x.name = "PathBuf" /\ m \in PathMethods(x)
  <2>1. /\ ~IsIterator(x)
        /\ x.name \notin {"Option", "Result", "Vec", "Slice", "Buffer", "HashMap", "BTreeMap",
                          "HashSet", "BTreeSet"}
    BY <1>3 DEF IsIterator, Parallels, Integers, Floats
  <2>2. m.name \notin {"iter", "iter_ref", "reduce"}
    <3>1. CASE x.name \in {"Arc", "Rc", "Box", "RefCell"} /\ m \in CellMethods(x)
      BY <3>1 DEF CellMethods, If, Plain, Method
    <3>2. CASE /\ x.name \in {"Sender", "SyncSender", "Receiver", "ThreadHandle", "TcpListener",
                             "TcpStream", "File"}
               /\ m \in ChannelMethods(x)
      BY <3>2 DEF ChannelMethods, Plain, Method
    <3>3. CASE m \in TextMethods \/ m \in PoolMethods(r) \/ m \in NumericMethods(x) \/ m \in PathMethods(x)
      BY <3>3 DEF TextMethods, PoolMethods, NumericMethods, PathMethods, Sized, All, OnlyIf, If,
         Plain, Method
    <3>4. CASE m \in StringMethods(x, r)
      BY <3>4 DEF StringMethods, Sized, All, OnlyIf, If, Plain, Method
    <3> QED
      BY <1>3, <3>1, <3>2, <3>3, <3>4
  <2>3. /\ x.name \in {"Option", "Result"} => m.name \in {"is_some", "is_none", "is_ok", "is_err"}
        /\ x.name \in {"Vec", "Slice", "Buffer", "HashMap", "BTreeMap"} => m.name \notin ItemOps
        /\ x.name \in {"HashSet", "BTreeSet"} => m.name \notin ItemOps \ {"insert", "remove"}
    BY <2>1
  <2>4. Rendered(x, m, r)
    BY <2>1, <2>2, <2>3, Unjudged
  <2> QED
    BY <1>0, <2>4
<1>4. CASE IsIterator(x) /\ m \in Adapters(x, r)
  BY <1>0, <1>1, <1>4, AdaptersRendered
<1>5. CASE IsIterator(x) /\ m \in Consumers(x, r)
  BY <1>0, <1>1, <1>5, ConsumersRendered
<1> QED
  BY <1>0, <1>2, <1>3, <1>4, <1>5, MethodsByKind

\* Behind a reference a method that is not missed is emitted as on the receiver itself.
LEMMA SeenOperations ==
  ASSUME NEW t, NEW x, x = Underlying(t), NEW name,
         ~Missed(t, Denotes(x), name)
  PROVE  Operations(t, name) = Operations(x, name)
<1>1. CASE t.name \in Ownerships \union {"LifetimeRef"}
  <2>0. ReplacedOn(t.name) = {}
    BY <1>1 DEF ReplacedOn, Ownerships, Parallels
  <2>1. ReplacedOn(Denotes(x).name) = ReplacedOn(x.name)
    BY DenotesName DEF ReplacedOn, Parallels
  <2>2. CASE Replaced(t, name)
    <3>1. name \in ReplacedBehind(x.name)
      BY <2>0, <2>2 DEF Replaced
    <3>2. name \notin {"iter", "iter_ref", "reduce"}
      BY <3>1 DEF ReplacedBehind, Floats
    <3> QED
      BY <3>2, PlainOperations
  <2>3. CASE ~Replaced(t, name)
    <3>1. name \notin ReplacedOn(x.name)
      BY <2>1, <2>3 DEF Missed
    <3>2. Operations(t, name) = <<name>>
      BY <2>3 DEF Operations
    <3>3. CASE name \in {"iter", "iter_ref", "reduce"}
      <4>1. name \notin ReplacedBehind(Underlying(x).name)
        BY <3>3 DEF ReplacedBehind, Floats
      <4>2. ~Replaced(x, name)
        BY <3>1, <4>1 DEF Replaced
      <4> QED
        BY <3>2, <4>2 DEF Operations
    <3>4. CASE name \notin {"iter", "iter_ref", "reduce"}
      BY <3>2, <3>4, PlainOperations
    <3> QED
      BY <3>3, <3>4
  <2> QED
    BY <2>2, <2>3
<1>2. CASE t.name \notin Ownerships \union {"LifetimeRef"}
  BY <1>2 DEF Underlying
<1> QED
  BY <1>1, <1>2

\* So a call that is neither missed nor stolen has the type the frontend gave it.
LEMMA ResultsStayAgreed ==
  ASSUME NEW t, Sound(t), NEW r, NEW m \in MethodsOf(t, r, Rayon), m.code = None,
         NEW real, real = Denotes(t),
         ~Missed(t, Deref(real), m.name), ~Stolen(real, m.name)
  PROVE  Emitted(t, real, m, r) = Denotes(m.result)
<1>0. PICK x : x = Underlying(t)
  OBVIOUS
<1>1. PICK base : base = Denotes(x) /\ base = Deref(real)
  BY <1>0, ReceiverBehind
<1>2. PICK ops : ops = Operations(t, m.name) /\ ops = Operations(x, m.name)
  <2>1. ~Missed(t, Denotes(x), m.name)
    BY <1>1
  <2>2. Operations(t, m.name) = Operations(x, m.name)
    BY <1>0, <2>1, SeenOperations
  <2> QED
    BY <2>2
<1>3. Judged(base, Head(ops)) => Performed(base, ops, r) = Denotes(m.result)
  BY <1>0, <1>1, <1>2, MethodsRendered DEF Rendered
<1>4. Emitted(t, real, m, r) =
        IF ~Judged(base, Head(ops)) THEN Denotes(m.result) ELSE Performed(base, ops, r)
  BY <1>1, <1>2 DEF Emitted, Judged, Performed
<1> QED
  BY <1>3, <1>4

------------------------------------------------------------------------------
(* The inputs: what a closure was checked with is what Rust hands it.         *)

LEMMA OneInput ==
  ASSUME NEW a
  PROVE  [i \in DOMAIN <<a>> |-> Denotes(<<a>>[i])] = <<Denotes(a)>>
OBVIOUS

\* What a closure was checked with is what it is lent by operation op.
Lends(base, op, m, r) ==
  LET given == RustInputs(base, op, r) IN
  \/ m.inputs = NoClosure
  \/ m.projection = "borrow" /\ m.name # "filter"
  \/ m.projection = "deref" /\ m.inputs = <<Arg(given[1], 1)>>
  \/ m.projection # "deref" /\ m.inputs = given

LEMMA HeadOperation ==
  ASSUME NEW t, NEW name, name \notin {"iter", "iter_ref"}
  PROVE  Head(Operations(t, name)) \in {name} \union (IF name = "reduce" THEN {"reduce_with"} ELSE {})
BY DEF Operations

LEMMA NoInputs ==
  /\ \A m \in TextMethods : m.inputs = NoClosure
  /\ \A e : \A m \in BufferMethods(e) \union SliceMethods(e) \union SetMethods(e) : m.inputs = NoClosure
  /\ \A k, v : \A m \in MapMethods(k, v) : m.inputs = NoClosure
  /\ \A r : \A m \in PoolMethods(r) : m.inputs = NoClosure
  /\ \A t : \A m \in NumericMethods(t) \union PathMethods(t) : m.inputs = NoClosure
  /\ \A t, r : \A m \in StringMethods(t, r) : m.inputs = NoClosure
  /\ \A t : t.name \in {"Arc", "Rc", "Box", "RefCell"} => \A m \in CellMethods(t) : m.inputs = NoClosure
  /\ \A t : t.name \in {"Sender", "SyncSender", "Receiver", "ThreadHandle", "TcpListener",
                      "TcpStream", "File"} =>
              \A m \in ChannelMethods(t) : m.inputs = NoClosure
<1>1. \A m \in TextMethods : m.inputs = NoClosure
  BY DEF TextMethods, Sized, Plain, Method
<1>2. \A e : \A m \in BufferMethods(e) \union SliceMethods(e) \union SetMethods(e) : m.inputs = NoClosure
  BY DEF BufferMethods, SliceMethods, SetMethods, Sized, OnlyIf, All, Plain, Method
<1>3. \A k, v : \A m \in MapMethods(k, v) : m.inputs = NoClosure
  BY DEF MapMethods, Sized, If, All, Plain, Method
<1>4. \A r : \A m \in PoolMethods(r) : m.inputs = NoClosure
  BY DEF PoolMethods, OnlyIf, Plain, Method
<1>5. \A t : \A m \in NumericMethods(t) \union PathMethods(t) : m.inputs = NoClosure
  BY DEF NumericMethods, PathMethods, If, All, Plain, Method
<1>6. \A t, r : \A m \in StringMethods(t, r) : m.inputs = NoClosure
  BY DEF StringMethods, Sized, OnlyIf, If, All, Plain, Method
<1>7. \A t : t.name \in {"Arc", "Rc", "Box", "RefCell"} => \A m \in CellMethods(t) : m.inputs = NoClosure
  BY DEF CellMethods, If, Plain, Method
<1>8. \A t : t.name \in {"Sender", "SyncSender", "Receiver", "ThreadHandle", "TcpListener",
                      "TcpStream", "File"} =>
              \A m \in ChannelMethods(t) : m.inputs = NoClosure
  BY DEF ChannelMethods, Plain, Method
<1> QED
  BY <1>1, <1>2, <1>3, <1>4, <1>5, <1>6, <1>7, <1>8

\* Each table's closures are.
LEMMA VecsLend ==
  ASSUME NEW x, x.name = "Vec", NEW r, NEW rayon, NEW m, m \in VecMethods(Arg(x, 1), r, rayon)
  PROVE  /\ Lends(x, m.name, m, r)
         /\ m.inputs # NoClosure => m.name \notin {"iter", "iter_ref", "reduce"}
<1>1. \/ m.inputs = NoClosure
      \/ /\ m.name \in {"sort_by_key", "sort_unstable_by_key"}
         /\ m.inputs = <<Ref(Arg(x, 1))>> /\ m.projection = "direct"
  <2>1. CASE m \in SliceMethods(Arg(x, 1))
    BY <2>1, NoInputs
  <2> QED
    BY <2>1 DEF VecMethods, OnlyIf, All, If, Plain, With, Method
<1>2. m.name \in {"sort_by_key", "sort_unstable_by_key"} => RustInputs(x, m.name, r) = <<Ref(Arg(x, 1))>>
  BY DEF RustInputs
<1> QED
  BY <1>1, <1>2 DEF Lends

LEMMA OptionsLend ==
  ASSUME NEW x, x.name = "Option", NEW r, NEW m, m \in OptionMethods(x, r)
  PROVE  /\ Lends(x, m.name, m, r)
         /\ m.inputs # NoClosure => m.name \notin {"iter", "iter_ref", "reduce"}
<1>1. \/ m.inputs = NoClosure
      \/ m.name \in {"map", "and_then"} /\ m.inputs = <<Arg(x, 1)>> /\ m.projection = "direct"
      \/ m.name = "or_else" /\ m.inputs = <<Unit>> /\ m.projection = "direct"
  BY DEF OptionMethods, Unwraps, OnlyIf, All, If, Plain, With, Method
<1>2. /\ m.name \in {"map", "and_then"} => RustInputs(x, m.name, r) = <<Arg(x, 1)>>
      /\ m.name = "or_else" => RustInputs(x, m.name, r) = <<Unit>>
  BY DEF RustInputs
<1> QED
  BY <1>1, <1>2 DEF Lends

LEMMA ResultsLend ==
  ASSUME NEW x, x.name = "Result", NEW r, NEW m, m \in ResultMethods(x, r)
  PROVE  /\ Lends(x, m.name, m, r)
         /\ m.inputs # NoClosure => m.name \notin {"iter", "iter_ref", "reduce"}
<1>1. \/ m.inputs = NoClosure
      \/ m.name \in {"map", "and_then"} /\ m.inputs = <<Arg(x, 1)>> /\ m.projection = "direct"
      \/ m.name \in {"map_err", "or_else"} /\ m.inputs = <<Arg(x, 2)>> /\ m.projection = "direct"
  BY DEF ResultMethods, Unwraps, OnlyIf, All, If, Plain, With, Method
<1>2. /\ m.name \in {"map", "and_then"} => RustInputs(x, m.name, r) = <<Arg(x, 1)>>
      /\ m.name \in {"map_err", "or_else"} => RustInputs(x, m.name, r) = <<Arg(x, 2)>>
  BY DEF RustInputs
<1> QED
  BY <1>1, <1>2 DEF Lends

LEMMA AdaptersLend ==
  ASSUME NEW x, IsIterator(x), Formed(x), NEW r, NEW m, m \in Adapters(x, r), NEW b, Arg(b, 1) = Exposed(x)
  PROVE  /\ Lends(b, m.name, m, r)
         /\ m.inputs # NoClosure => m.name \notin {"iter", "iter_ref", "reduce"}
<1> DEFINE e == Exposed(x)
<1> DEFINE item == Arg(x, 1)
<1>0. x.mode # "owned" => e = Ref(item)
  BY DEF Formed, Exposed
<1>a. x.mode = "owned" => e = item
  BY DEF Exposed
<1> HIDE DEF e, item
<1>1. \/ m.inputs = NoClosure
      \/ m.name \in {"map", "filter_map"} /\ m.inputs = <<e>> /\ m.projection = "direct"
      \/ m.name = "filter" /\ m.inputs = <<e>> /\ m.projection = "deref"
      \/ m.name = "filter" /\ m.inputs = <<Ref(e)>> /\ m.projection = "borrow"
  BY <1>a DEF Adapters, OnlyIf, If, Plain, With, Filtering, Method, item, e
<1>2. /\ m.name \in {"map", "filter_map"} => RustInputs(b, m.name, r) = <<e>>
      /\ m.name = "filter" => RustInputs(b, m.name, r) = <<Ref(e)>>
  BY DEF RustInputs, e
<1>3. Arg(<<Ref(e)>>[1], 1) = e
  BY DEF Arg, Ref, Type
<1> QED
  BY <1>1, <1>2, <1>3 DEF Lends

LEMMA ConsumersLend ==
  ASSUME NEW x, IsIterator(x), Formed(x), NEW r, NEW m, m \in Consumers(x, r),
         NEW b, Arg(b, 1) = Exposed(x), NEW op,
         m.name \notin {"iter", "iter_ref"} =>
           op = m.name \/ (m.name = "reduce" /\ op = "reduce_with")
  PROVE  /\ Lends(b, op, m, r)
         /\ m.inputs # NoClosure => m.name \notin {"iter", "iter_ref"}
<1> DEFINE e == Exposed(x)
<1> HIDE DEF e
<1>1. \/ m.inputs = NoClosure
      \/ m.name \in {"any", "all"} /\ m.inputs = <<e>> /\ m.projection = "direct"
      \/ /\ m.name \in {"find", "find_any", "find_first", "find_last"} /\ m.inputs = <<e>>
         /\ m.projection \in {"borrow", "deref"}
      \/ m.name = "fold" /\ m.inputs = <<r, e>> /\ m.projection = "direct"
      \/ m.name = "reduce" /\ m.inputs = <<e, e>> /\ m.projection = "direct"
  BY DEF Consumers, OnlyIf, If, Plain, With, Filtering, Method, e
<1>2. /\ m.name \in {"any", "all"} => RustInputs(b, op, r) = <<e>>
      /\ m.name \in {"find", "find_any", "find_first", "find_last"} => RustInputs(b, op, r) = <<Ref(e)>>
      /\ m.name = "fold" => RustInputs(b, op, r) = <<r, e>>
      /\ m.name = "reduce" => RustInputs(b, op, r) = <<e, e>>
  BY DEF RustInputs, e
<1>3. Arg(<<Ref(e)>>[1], 1) = e
  BY DEF Arg, Ref, Type
<1> QED
  BY <1>1, <1>2, <1>3 DEF Lends

\* Every table's closures are checked with what they are lent.
LEMMA MethodsLend ==
  ASSUME NEW t, Sound(t), NEW r, NEW rayon, NEW m \in MethodsOf(t, r, rayon)
  PROVE  Lends(Denotes(Underlying(t)), Head(Operations(t, m.name)), m, r)
<1>0. PICK x : x = Underlying(t) /\ Sound(x)
  BY SoundParts DEF Underlying, Formed, Unary
<1>1. Formed(x)
  BY <1>0, SoundParts
<1>2. CASE m.inputs = NoClosure
  BY <1>2 DEF Lends
<1>3. PICK op : op = Head(Operations(t, m.name))
  OBVIOUS
<1>4. m.name \notin {"iter", "iter_ref"} => op = m.name \/ (m.name = "reduce" /\ op = "reduce_with")
  BY <1>3, HeadOperation
<1>5. ASSUME m.inputs # NoClosure
      PROVE  Lends(Denotes(x), op, m, r)
  <2>1. CASE x.name = "Vec" /\ m \in VecMethods(Arg(x, 1), r, rayon)
    <3>1. Denotes(x) = x
      BY <2>1 DEF Denotes, IsIterator, Parallels
    <3>2. Lends(x, m.name, m, r) /\ m.name \notin {"iter", "iter_ref", "reduce"}
      BY <1>5, <2>1, VecsLend
    <3> QED
      BY <1>4, <3>1, <3>2
  <2>2. CASE x.name = "Option" /\ m \in OptionMethods(x, r)
    <3>1. Denotes(x) = x
      BY <2>2 DEF Denotes, IsIterator, Parallels
    <3>2. Lends(x, m.name, m, r) /\ m.name \notin {"iter", "iter_ref", "reduce"}
      BY <1>5, <2>2, OptionsLend
    <3> QED
      BY <1>4, <3>1, <3>2
  <2>3. CASE x.name = "Result" /\ m \in ResultMethods(x, r)
    <3>1. Denotes(x) = x
      BY <2>3 DEF Denotes, IsIterator, Parallels
    <3>2. Lends(x, m.name, m, r) /\ m.name \notin {"iter", "iter_ref", "reduce"}
      BY <1>5, <2>3, ResultsLend
    <3> QED
      BY <1>4, <3>1, <3>2
  <2>4. CASE IsIterator(x) /\ m \in Adapters(x, r)
    <3>1. PICK b : b = Denotes(x) /\ Arg(b, 1) = Exposed(x)
      BY <2>4, IteratorDenotes
    <3>2. Lends(b, m.name, m, r) /\ m.name \notin {"iter", "iter_ref", "reduce"}
      BY <1>1, <1>5, <2>4, <3>1, AdaptersLend
    <3> QED
      BY <1>4, <3>1, <3>2
  <2>5. CASE IsIterator(x) /\ m \in Consumers(x, r)
    <3>1. PICK b : b = Denotes(x) /\ Arg(b, 1) = Exposed(x)
      BY <2>5, IteratorDenotes
    <3>2. Lends(b, op, m, r)
      BY <1>1, <1>4, <2>5, <3>1, ConsumersLend
    <3> QED
      BY <3>1, <3>2
  <2> QED
    BY <1>0, <1>5, <2>1, <2>2, <2>3, <2>4, <2>5, NoInputs, MethodsByKind
<1> QED
  BY <1>0, <1>2, <1>3, <1>5

LEMMA InputsStayAgreed ==
  ASSUME NEW t, Sound(t), NEW r, NEW m \in MethodsOf(t, r, Rayon), NEW real, real = Denotes(t),
         ~(m.projection = "borrow" /\ m.name # "filter")
  PROVE  [i \in DOMAIN m.inputs |-> Denotes(m.inputs[i])] = Lent(real, t, m, r)
<1>0. PICK base, op : base = Deref(real) /\ op = Head(Operations(t, m.name))
  OBVIOUS
<1>1. Lends(base, op, m, r)
  BY <1>0, MethodsLend, ReceiverBehind
<1>2. CASE m.inputs = NoClosure
  <2>1. [i \in DOMAIN <<>> |-> Denotes(<<>>[i])] = <<>>
    OBVIOUS
  <2> QED
    BY <1>2, <2>1 DEF Lent, NoClosure
<1>3. PICK given : given = RustInputs(base, op, r)
  OBVIOUS
<1>4. CASE m.inputs # NoClosure /\ m.projection = "deref" /\ m.inputs = <<Arg(given[1], 1)>>
  <2>1. Lent(real, t, m, r) = <<Denotes(Arg(given[1], 1))>>
    BY <1>0, <1>3, <1>4 DEF Lent
  <2> QED
    BY <1>4, <2>1, OneInput
<1>5. CASE m.inputs # NoClosure /\ m.projection # "deref" /\ m.inputs = given
  <2>1. Lent(real, t, m, r) = [i \in DOMAIN given |-> Denotes(given[i])]
    BY <1>0, <1>3, <1>5 DEF Lent
  <2> QED
    BY <1>5, <2>1
<1> QED
  BY <1>1, <1>2, <1>3, <1>4, <1>5 DEF Lends

(* From any locals on, and whatever their closures give, every call of a chain *)
(* is emitted with the Rust type the frontend gave it, and its closure's       *)
(* parameters have the types its body was checked with, however deep the types.*)
THEOREM TypesStayAgreed ==
  ASSUME NEW locals, NEW results, \A t \in locals \union results : Sound(t)
  PROVE  ChainSpec(locals, results) => []TypesAgree
<1> DEFINE Inv == Sound(lowered) /\ TypesAgree
<1>1. ChainInit(locals) => Inv
  BY DEF ChainInit, TypesAgree, ResultsAgree, InputsAgree
<1>2. Inv /\ [\E r \in results : CallMethod(r)]_chainVars => Inv'
  <2> SUFFICES ASSUME Inv, [\E r \in results : CallMethod(r)]_chainVars
      PROVE  Inv'
    OBVIOUS
  <2>1. CASE UNCHANGED chainVars
    BY <2>1 DEF chainVars, TypesAgree, ResultsAgree, InputsAgree
  <2>2. ASSUME NEW r \in results, CallMethod(r)
        PROVE  Inv'
    <3>1. PICK m \in MethodsOf(lowered, r, Rayon) :
            /\ RefusedWith(lowered, m) = None
            /\ lowered' = m.result
            /\ emitted' = Emitted(lowered, emitted, m, r)
            /\ call' = [method |-> m.name, on |-> Deref(emitted), access |-> Access(lowered, m.name),
                   missed |-> Missed(lowered, Deref(emitted), m.name) \/ Stolen(emitted, m.name),
                   promised |-> [i \in DOMAIN m.inputs |-> Denotes(m.inputs[i])],
                   projection |-> m.projection,
                   lent |-> Lent(emitted, lowered, m, r)]
      BY <2>2 DEF CallMethod
    <3>2. m.code = None
      BY <3>1 DEF RefusedWith
    <3>3. emitted = Denotes(lowered)
      BY <2>2 DEF CallMethod
    <3>4. Sound(lowered')
      BY <3>1, <3>2, SoundMethods
    <3>5. ResultsAgree'
      <4>1. ~call'.missed => emitted' = Denotes(lowered')
        BY <3>1, <3>2, <3>3, ResultsStayAgreed
      <4>2. call' # NoCall
        <5>1. "lent" \in DOMAIN call' /\ "lent" \notin DOMAIN NoCall
          BY <3>1 DEF NoCall
        <5> QED
          BY <5>1
      <4> QED
        BY <4>1, <4>2 DEF ResultsAgree
    <3>6. InputsAgree'
      <4>1. ~(m.projection = "borrow" /\ m.name # "filter") =>
              [i \in DOMAIN m.inputs |-> Denotes(m.inputs[i])] = Lent(emitted, lowered, m, r)
        BY <3>1, <3>3, InputsStayAgreed
      <4> QED
        BY <3>1, <4>1 DEF InputsAgree
    <3> QED
      BY <3>4, <3>5, <3>6 DEF TypesAgree
  <2> QED
    BY <2>1, <2>2
<1> QED
  BY <1>1, <1>2, PTL DEF ChainSpec

\* The types the chains are checked from, and with, are well formed.
LEMMA CheckedTypesSound ==
  \A t \in Locals \union Rs : Sound(t)
<1>1. /\ Sound(Option(String)) /\ Sound(ResultOf(I64, String)) /\ Sound(Slice(String)) /\ Sound(Vec(I64))
      /\ Sound(Option(I64)) /\ Sound(Sequential(String, "shared_ref"))
      /\ Sound(Parallel(I64, "shared_ref", "indexed")) /\ Sound(Parallel(I64, "owned", "unindexed"))
  BY SoundNames, SoundBuilt
<1>2. \A t \in {Vec(t) : t \in {I64, U8, String, Vec(I64)}} : Sound(t)
  BY <1>1, SoundNames, SoundBuilt
<1>3. \A t \in {Type(name, <<I64>>) :
                name \in {"Rc", "Box", "RefCell", "Sender", "ThreadHandle", "BTreeSet"}} : Sound(t)
  BY SoundNames, SoundOne DEF Binary, Parallels
<1>4. \A t \in {Primitive(name) :
                name \in {"TextColumn", "PathBuf", "TcpListener", "TcpStream", "File", "ThreadPool"}} :
        Sound(t)
  BY SoundPrimitive DEF Unary, Binary, Parallels, Ownerships
<1>5. /\ Sound(Type("Buffer", <<F64>>)) /\ Sound(Type("HashSet", <<String>>))
      /\ Sound(Type("Receiver", <<String>>)) /\ Sound(Type("Mutex", <<I64>>))
  BY SoundNames, SoundOne DEF Binary, Parallels
<1>6. /\ Sound(Type("HashMap", <<String, I64>>)) /\ Sound(Type("BTreeMap", <<I64, String>>))
      /\ Sound(Type("Arc", <<Type("Mutex", <<I64>>)>>))
  BY <1>5, SoundNames, SoundOne, SoundTwo DEF Binary, Parallels
<1> QED
  BY <1>1, <1>2, <1>3, <1>4, <1>5, <1>6, SoundNames DEF Locals, Rs
===============================================================================
