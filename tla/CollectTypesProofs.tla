-------------------------- MODULE CollectTypesProofs --------------------------
(***************************************************************************)
(* Proofs about CollectTypes: whatever the types of a program, tracing       *)
(* reports every pointer a value holds, NEEDS_TRACE is exact and no unsigned   *)
(* destructor meets a pointer.                                              *)
(*                                                                         *)
(* Three parts: the recursive functions over types satisfy their equations    *)
(* (a function into the Booleans is its least fixed point or the complement    *)
(* of one); every implementation fits the layout of its type, table by table;   *)
(* and, by induction on Depth, what a type that is Collect may hold.          *)
(***************************************************************************)
EXTENDS CollectTypes, WellFoundedInduction, TLAPS

-----------------------------------------------------------------------------
(* Recursive definitions.                                                   *)

\* f says of each element whether some path along R leads into B
Somewhere(T, B, R, f) == f = [t \in T |-> t \in B \/ \E u \in R[t] : f[u]]

\* f says of each element whether every path along R stays in G
Everywhere(T, G, R, f) == f = [t \in T |-> t \in G /\ \A u \in R[t] : f[u]]

\* Of the sets that hold B and are closed along R there is a least one.
LEMMA SomewhereExists ==
    ASSUME NEW T, NEW B, NEW R, \A t \in T : R[t] \subseteq T
    PROVE  \E f : Somewhere(T, B, R, f)
<1> DEFINE Closed(S) == \A t \in T : t \in B \/ (\E u \in R[t] : u \in S) => t \in S
           Least == {t \in T : \A S \in SUBSET T : Closed(S) => t \in S}
           f == [t \in T |-> t \in Least]
<1>1. Closed(Least)
  <2> SUFFICES ASSUME NEW t \in T, t \in B \/ (\E u \in R[t] : u \in Least),
                      NEW S \in SUBSET T, Closed(S)
               PROVE  t \in S
      OBVIOUS
  <2> QED
      OBVIOUS
<1>2. \A t \in Least : t \in B \/ \E u \in R[t] : u \in Least
  <2> SUFFICES ASSUME NEW t \in Least, t \notin B, \A u \in R[t] : u \notin Least
               PROVE  FALSE
      OBVIOUS
  <2> DEFINE S == Least \ {t}
  <2>1. S \in SUBSET T
      OBVIOUS
  <2>2. Closed(S)
    <3> SUFFICES ASSUME NEW s \in T, s \in B \/ \E u \in R[s] : u \in S
                 PROVE  s \in S
        OBVIOUS
    <3>1. s \in Least
      <4> HIDE DEF Least
      <4> QED
          BY <1>1
    <3>2. s # t
      <4> HIDE DEF Least
      <4> QED
          OBVIOUS
    <3> QED
        BY <3>1, <3>2
  <2> QED
      BY <2>1, <2>2
<1> HIDE DEF Least
<1>3. \A t \in T : f[t] = (t \in B \/ \E u \in R[t] : f[u])
  <2> SUFFICES ASSUME NEW t \in T
               PROVE  f[t] = (t \in B \/ \E u \in R[t] : f[u])
      OBVIOUS
  <2>1. \A u \in T : f[u] = (u \in Least)
      OBVIOUS
  <2>2. (t \in Least) <=> (t \in B \/ \E u \in R[t] : u \in Least)
      BY <1>1, <1>2
  <2>3. (\E u \in R[t] : f[u]) <=> (\E u \in R[t] : u \in Least)
    <3> HIDE DEF f
    <3> QED
        BY <2>1
  <2> HIDE DEF f
  <2> QED
      BY <2>1, <2>2, <2>3
<1>4. f = [t \in T |-> t \in B \/ \E u \in R[t] : f[u]]
  <2> HIDE DEF f
  <2>1. f = [t \in T |-> f[t]]
      BY DEF f
  <2> QED
      BY <1>3, <2>1
<1> HIDE DEF f
<1> QED
    BY <1>4 DEF Somewhere

\* The complement: everything that can be reached satisfies a condition.
LEMMA EverywhereExists ==
    ASSUME NEW T, NEW G, NEW R, \A t \in T : R[t] \subseteq T
    PROVE  \E f : Everywhere(T, G, R, f)
<1> DEFINE B == T \ G
<1> HIDE DEF B
<1>1. PICK g : Somewhere(T, B, R, g)
    BY SomewhereExists
<1> DEFINE f == [t \in T |-> ~g[t]]
<1>2. \A t \in T : f[t] = (t \in G /\ \A u \in R[t] : f[u])
  <2> SUFFICES ASSUME NEW t \in T
               PROVE  (~g[t]) = (t \in G /\ \A u \in R[t] : ~g[u])
      OBVIOUS
  <2>1. g[t] = (t \in B \/ \E u \in R[t] : g[u])
      BY <1>1 DEF Somewhere
  <2> QED
      BY <2>1 DEF B
<1>3. f = [t \in T |-> t \in G /\ \A u \in R[t] : f[u]]
  <2>1. f = [t \in T |-> f[t]]
      OBVIOUS
  <2> HIDE DEF f
  <2> QED
      BY <1>2, <2>1
<1> HIDE DEF f
<1> QED
    BY <1>3 DEF Everywhere

\* the types of some of the arguments of a type
Parts(t, I) == {t.args[i] : i \in I}

\* The arguments that an implementation or a layout names are types.
LEMMA PartsAreTypes ==
    ASSUME NEW t \in Types
    PROVE  /\ Parts(t, DOMAIN t.args) \subseteq Types
           /\ Parts(t, Impl(t).collect) \subseteq Types
           /\ Parts(t, Impl(t).static) \subseteq Types
           /\ Parts(t, Impl(t).needs \ {Always}) \subseteq Types
           /\ Parts(t, UNION Layouts(t)) \subseteq Types
<1>1. \A i \in DOMAIN t.args : t.args[i] \in Types
  <2>1. t.args \in Seq(Types)
      BY TypesAssumption
  <2> QED
      BY <2>1
<1>2. Arguments(t) \subseteq DOMAIN t.args
    BY TypesAssumption
<1> QED
    BY <1>1, <1>2 DEF Arguments, Parts

\* A type is 'static if its arguments are and it has no lifetime of its own.
LEMMA IsStaticEquation ==
    \A t \in Types : IsStatic(t) =
        (t.lifetimes = << >> /\ \A i \in DOMAIN t.args : IsStatic(t.args[i]))
<1> DEFINE static[u \in Types] ==
               u.lifetimes = << >> /\ \A i \in DOMAIN u.args : static[u.args[i]]
           Base == {u \in Types : u.lifetimes = << >>}
           Arcs == [u \in Types |-> Parts(u, DOMAIN u.args)]
<1>1. PICK f : Everywhere(Types, Base, Arcs, f)
  <2>1. \A u \in Types : Arcs[u] \subseteq Types
      BY PartsAreTypes
  <2> HIDE DEF Base, Arcs
  <2> QED
      BY <2>1, EverywhereExists
<1>2. f = [u \in Types |-> u.lifetimes = << >> /\ \A i \in DOMAIN u.args : f[u.args[i]]]
  <2>1. \A u \in Types : f[u] = (u.lifetimes = << >> /\ \A i \in DOMAIN u.args : f[u.args[i]])
    <3> SUFFICES ASSUME NEW u \in Types
                 PROVE  f[u] = (u.lifetimes = << >> /\ \A i \in DOMAIN u.args : f[u.args[i]])
        OBVIOUS
    <3>1. f[u] = (u \in Base /\ \A v \in Arcs[u] : f[v])
      <4> HIDE DEF Base, Arcs
      <4> QED
          BY <1>1 DEF Everywhere
    <3>2. (\A v \in Arcs[u] : f[v]) <=> \A i \in DOMAIN u.args : f[u.args[i]]
        BY DEF Parts
    <3> QED
        BY <3>1, <3>2
  <2>2. f = [u \in Types |-> f[u]]
      BY <1>1 DEF Everywhere
  <2> QED
      BY <2>1, <2>2
<1>3. static = [u \in Types |->
            u.lifetimes = << >> /\ \A i \in DOMAIN u.args : static[u.args[i]]]
    BY <1>2 DEF static
<1>4. \A t : IsStatic(t) = static[t]
    BY DEF IsStatic
<1>5. \A t \in Types : \A i \in DOMAIN t.args : t.args[i] \in Types
    BY PartsAreTypes DEF Parts
<1> HIDE DEF static
<1> QED
    BY <1>3, <1>4, <1>5

\* A type is Collect by its own bounds and those of its arguments.
LEMMA CollectsEquation ==
    \A t \in Types : Collects(t) =
        (Bounds(t) /\ \A i \in Impl(t).collect : Collects(t.args[i]))
<1> DEFINE collects[u \in Types] ==
               Bounds(u) /\ \A i \in Impl(u).collect : collects[u.args[i]]
           Base == {u \in Types : Bounds(u)}
           Arcs == [u \in Types |-> Parts(u, Impl(u).collect)]
<1>1. PICK f : Everywhere(Types, Base, Arcs, f)
  <2>1. \A u \in Types : Arcs[u] \subseteq Types
      BY PartsAreTypes
  <2> HIDE DEF Base, Arcs
  <2> QED
      BY <2>1, EverywhereExists
<1>2. f = [u \in Types |-> Bounds(u) /\ \A i \in Impl(u).collect : f[u.args[i]]]
  <2>1. \A u \in Types : f[u] = (Bounds(u) /\ \A i \in Impl(u).collect : f[u.args[i]])
    <3> SUFFICES ASSUME NEW u \in Types
                 PROVE  f[u] = (Bounds(u) /\ \A i \in Impl(u).collect : f[u.args[i]])
        OBVIOUS
    <3>1. f[u] = (u \in Base /\ \A v \in Arcs[u] : f[v])
      <4> HIDE DEF Base, Arcs
      <4> QED
          BY <1>1 DEF Everywhere
    <3>2. (\A v \in Arcs[u] : f[v]) <=> \A i \in Impl(u).collect : f[u.args[i]]
        BY DEF Parts
    <3> QED
        BY <3>1, <3>2
  <2>2. f = [u \in Types |-> f[u]]
      BY <1>1 DEF Everywhere
  <2> QED
      BY <2>1, <2>2
<1>3. collects = [u \in Types |-> Bounds(u) /\ \A i \in Impl(u).collect : collects[u.args[i]]]
    BY <1>2 DEF collects
<1>4. \A t : Collects(t) = collects[t]
    BY DEF Collects
<1>5. \A t \in Types : \A i \in Impl(t).collect : t.args[i] \in Types
    BY PartsAreTypes DEF Parts
<1> HIDE DEF collects
<1> QED
    BY <1>3, <1>4, <1>5

\* NEEDS_TRACE is computed from that of the arguments.
LEMMA NeedsTraceEquation ==
    \A t \in Types : NeedsTrace(t) =
        (Always \in Impl(t).needs \/ \E i \in Impl(t).needs \ {Always} : NeedsTrace(t.args[i]))
<1> DEFINE needs[u \in Types] ==
               Always \in Impl(u).needs \/ \E i \in Impl(u).needs \ {Always} : needs[u.args[i]]
           Base == {u \in Types : Always \in Impl(u).needs}
           Arcs == [u \in Types |-> Parts(u, Impl(u).needs \ {Always})]
<1>1. PICK f : Somewhere(Types, Base, Arcs, f)
  <2>1. \A u \in Types : Arcs[u] \subseteq Types
      BY PartsAreTypes
  <2> HIDE DEF Base, Arcs
  <2> QED
      BY <2>1, SomewhereExists
<1>2. f = [u \in Types |->
            Always \in Impl(u).needs \/ \E i \in Impl(u).needs \ {Always} : f[u.args[i]]]
  <2>1. \A u \in Types :
            f[u] = (Always \in Impl(u).needs \/ \E i \in Impl(u).needs \ {Always} : f[u.args[i]])
    <3> SUFFICES ASSUME NEW u \in Types
                 PROVE  f[u] = (Always \in Impl(u).needs
                                \/ \E i \in Impl(u).needs \ {Always} : f[u.args[i]])
        OBVIOUS
    <3>1. f[u] = (u \in Base \/ \E v \in Arcs[u] : f[v])
      <4> HIDE DEF Base, Arcs
      <4> QED
          BY <1>1 DEF Somewhere
    <3>2. (\E v \in Arcs[u] : f[v]) <=> \E i \in Impl(u).needs \ {Always} : f[u.args[i]]
        BY DEF Parts
    <3> QED
        BY <3>1, <3>2
  <2>2. f = [u \in Types |-> f[u]]
      BY <1>1 DEF Somewhere
  <2> QED
      BY <2>1, <2>2
<1>3. needs = [u \in Types |->
            Always \in Impl(u).needs \/ \E i \in Impl(u).needs \ {Always} : needs[u.args[i]]]
    BY <1>2 DEF needs
<1>4. \A t : NeedsTrace(t) = needs[t]
    BY DEF NeedsTrace
<1>5. \A t \in Types : \A i \in Impl(t).needs \ {Always} : t.args[i] \in Types
    BY PartsAreTypes DEF Parts
<1> HIDE DEF needs
<1> QED
    BY <1>3, <1>4, <1>5

\* A value may hold a pointer if one of its parts may.
LEMMA MayHoldEquation ==
    \A t \in Types : MayHold(t) =
        (t.con \in Pointers \/ \E i \in UNION Layouts(t) : MayHold(t.args[i]))
<1> DEFINE holds[u \in Types] ==
               u.con \in Pointers \/ \E i \in UNION Layouts(u) : holds[u.args[i]]
           Base == {u \in Types : u.con \in Pointers}
           Arcs == [u \in Types |-> Parts(u, UNION Layouts(u))]
<1>1. PICK f : Somewhere(Types, Base, Arcs, f)
  <2>1. \A u \in Types : Arcs[u] \subseteq Types
      BY PartsAreTypes
  <2> HIDE DEF Base, Arcs
  <2> QED
      BY <2>1, SomewhereExists
<1>2. f = [u \in Types |-> u.con \in Pointers \/ \E i \in UNION Layouts(u) : f[u.args[i]]]
  <2>1. \A u \in Types :
            f[u] = (u.con \in Pointers \/ \E i \in UNION Layouts(u) : f[u.args[i]])
    <3> SUFFICES ASSUME NEW u \in Types
                 PROVE  f[u] = (u.con \in Pointers
                                \/ \E i \in UNION Layouts(u) : f[u.args[i]])
        OBVIOUS
    <3>1. f[u] = (u \in Base \/ \E v \in Arcs[u] : f[v])
      <4> HIDE DEF Base, Arcs
      <4> QED
          BY <1>1 DEF Somewhere
    <3>2. (\E v \in Arcs[u] : f[v]) <=> \E i \in UNION Layouts(u) : f[u.args[i]]
        BY DEF Parts
    <3> QED
        BY <3>1, <3>2
  <2>2. f = [u \in Types |-> f[u]]
      BY <1>1 DEF Somewhere
  <2> QED
      BY <2>1, <2>2
<1>3. holds = [u \in Types |->
            u.con \in Pointers \/ \E i \in UNION Layouts(u) : holds[u.args[i]]]
    BY <1>2 DEF holds
<1>4. \A t : MayHold(t) = holds[t]
    BY DEF MayHold
<1>5. \A t \in Types : \A i \in UNION Layouts(t) : t.args[i] \in Types
    BY PartsAreTypes DEF Parts
<1> HIDE DEF holds
<1> QED
    BY <1>3, <1>4, <1>5

\* Destructors run in the parts of a value too.
LEMMA DropsSafelyEquation ==
    \A t \in Types : DropsSafely(t) =
        (Signed(t) /\ \A i \in UNION Layouts(t) : DropsSafely(t.args[i]))
<1> DEFINE safe[u \in Types] == Signed(u) /\ \A i \in UNION Layouts(u) : safe[u.args[i]]
           Base == {u \in Types : Signed(u)}
           Arcs == [u \in Types |-> Parts(u, UNION Layouts(u))]
<1>1. PICK f : Everywhere(Types, Base, Arcs, f)
  <2>1. \A u \in Types : Arcs[u] \subseteq Types
      BY PartsAreTypes
  <2> HIDE DEF Base, Arcs
  <2> QED
      BY <2>1, EverywhereExists
<1>2. f = [u \in Types |-> Signed(u) /\ \A i \in UNION Layouts(u) : f[u.args[i]]]
  <2>1. \A u \in Types : f[u] = (Signed(u) /\ \A i \in UNION Layouts(u) : f[u.args[i]])
    <3> SUFFICES ASSUME NEW u \in Types
                 PROVE  f[u] = (Signed(u) /\ \A i \in UNION Layouts(u) : f[u.args[i]])
        OBVIOUS
    <3>1. f[u] = (u \in Base /\ \A v \in Arcs[u] : f[v])
      <4> HIDE DEF Base, Arcs
      <4> QED
          BY <1>1 DEF Everywhere
    <3>2. (\A v \in Arcs[u] : f[v]) <=> \A i \in UNION Layouts(u) : f[u.args[i]]
        BY DEF Parts
    <3> QED
        BY <3>1, <3>2
  <2>2. f = [u \in Types |-> f[u]]
      BY <1>1 DEF Everywhere
  <2> QED
      BY <2>1, <2>2
<1>3. safe = [u \in Types |-> Signed(u) /\ \A i \in UNION Layouts(u) : safe[u.args[i]]]
    BY <1>2 DEF safe
<1>4. \A t : DropsSafely(t) = safe[t]
    BY DEF DropsSafely
<1>5. \A t \in Types : \A i \in UNION Layouts(t) : t.args[i] \in Types
    BY PartsAreTypes DEF Parts
<1> HIDE DEF safe
<1> QED
    BY <1>3, <1>4, <1>5

-----------------------------------------------------------------------------
(* Every implementation fits what its type is made of.                      *)

\* Arguments are traced as they are bound and counted in NEEDS_TRACE; a part is
\* of a traced or of a 'static argument, and what is traced can occur in a value.
Fits(I, t) ==
    /\ I.traces = I.collect /\ I.needs \ {Always} = I.collect
    /\ Always \in I.needs <=> t.con \in Pointers
    /\ I.collect \subseteq UNION Layouts(t)
    /\ UNION Layouts(t) \subseteq I.collect \cup I.static

\* The arguments that occur in a value of a type of the library.
LEMMA Contents ==
    ASSUME NEW t
    PROVE  /\ t.con \in Pointers \cup {"scalar", "PhantomData", "Global"} => UNION Layouts(t) = {}
           /\ t.con \in {"Option", "slice", "array", "Vec", "VecDeque", "LinkedList", "BTreeSet",
                         "BinaryHeap", "Box", "Rc", "Arc", "Cell", "RefCell", "static ref",
                         "Static", "Lock", "RefLock", "MetricsAlloc"} => UNION Layouts(t) = {1}
           /\ t.con \in {"Result", "pair", "Box in", "BTreeMap", "Vec in", "HashSet",
                         "hb HashTable"} => UNION Layouts(t) = {1, 2}
           /\ t.con \in {"HashMap", "hb HashSet"} => UNION Layouts(t) = {1, 2, 3}
           /\ t.con = "hb HashMap" => UNION Layouts(t) = {1, 2, 3, 4}
<1>1. t.con \in Pointers \cup {"scalar", "PhantomData", "Global"} => Layouts(t) = {{}}
    BY DEF Layouts, Pointers
<1>2. t.con \in {"Option", "slice", "array", "Vec", "VecDeque", "LinkedList", "BTreeSet",
                 "BinaryHeap"} => Layouts(t) = {{}, {1}}
    BY DEF Layouts, Pointers
<1>3. t.con \in {"Box", "Rc", "Arc", "Cell", "RefCell", "static ref", "Static", "Lock",
                 "RefLock", "MetricsAlloc"} => Layouts(t) = {{1}}
    BY DEF Layouts, Pointers
<1>4. t.con = "Result" => Layouts(t) = {{1}, {2}}
    BY DEF Layouts, Pointers
<1>5. t.con \in {"pair", "Box in"} => Layouts(t) = {{1, 2}}
    BY DEF Layouts, Pointers
<1>6. t.con = "BTreeMap" => Layouts(t) = {{}, {1, 2}}
    BY DEF Layouts, Pointers
<1>7. t.con \in {"Vec in", "HashSet", "hb HashTable"} => Layouts(t) = {{2}, {1, 2}}
    BY DEF Layouts, Pointers
<1>8. t.con = "HashMap" => Layouts(t) = {{3}, {1, 2, 3}}
    BY DEF Layouts, Pointers
<1>9. t.con = "hb HashSet" => Layouts(t) = {{2, 3}, {1, 2, 3}}
    BY DEF Layouts, Pointers
<1>10. t.con = "hb HashMap" => Layouts(t) = {{3, 4}, {1, 2, 3, 4}}
    BY DEF Layouts, Pointers
<1>11. /\ UNION {{}} = {} /\ UNION {{}, {1}} = {1} /\ UNION {{1}} = {1}
       /\ UNION {{1}, {2}} = {1, 2} /\ UNION {{1, 2}} = {1, 2}
       /\ UNION {{}, {1, 2}} = {1, 2} /\ UNION {{2}, {1, 2}} = {1, 2}
    OBVIOUS
<1>12. /\ UNION {{3}, {1, 2, 3}} = {1, 2, 3} /\ UNION {{2, 3}, {1, 2, 3}} = {1, 2, 3}
       /\ UNION {{3, 4}, {1, 2, 3, 4}} = {1, 2, 3, 4}
    OBVIOUS
<1>13. t.con \in Pointers \cup {"scalar", "PhantomData", "Global"} => UNION Layouts(t) = {}
    BY <1>1, <1>11
<1>14. t.con \in {"Option", "slice", "array", "Vec", "VecDeque", "LinkedList", "BTreeSet",
                  "BinaryHeap", "Box", "Rc", "Arc", "Cell", "RefCell", "static ref",
                  "Static", "Lock", "RefLock", "MetricsAlloc"} => UNION Layouts(t) = {1}
    BY <1>2, <1>3, <1>11
<1>15. t.con \in {"Result", "pair", "Box in", "BTreeMap", "Vec in", "HashSet",
                  "hb HashTable"} => UNION Layouts(t) = {1, 2}
    BY <1>4, <1>5, <1>6, <1>7, <1>11
<1>16. /\ t.con \in {"HashMap", "hb HashSet"} => UNION Layouts(t) = {1, 2, 3}
       /\ t.con = "hb HashMap" => UNION Layouts(t) = {1, 2, 3, 4}
    BY <1>8, <1>9, <1>10, <1>12
<1> QED
    BY <1>13, <1>14, <1>15, <1>16

\* An implementation fits when what it does not trace is 'static.
LEMMA ThroughFits ==
    ASSUME NEW t, t.con \notin Pointers,
           NEW C, Always \notin C, NEW S, UNION Layouts(t) = C \cup S,
           NEW I, I.collect = C, I.needs = C, I.traces = C, I.static = S
    PROVE  Fits(I, t)
BY DEF Fits

\* The implementations of the library, table by table.
LEMMA LibraryFits ==
    ASSUME NEW t, NEW I \in Impls, t.con \in DOMAIN I
    PROVE  Fits(I[t.con], t)
<1>1. CASE I = Handles
    BY <1>1, Contents DEF Handles, Through, Opaque, Fits, Pointers, Always
<1>2. CASE I = Containers
  <2>1. CASE t.con = "Result"
    <3>1. /\ I[t.con].collect = {1, 2} /\ I[t.con].needs = {1, 2}
         /\ I[t.con].traces = {1, 2} /\ I[t.con].static = {}
        BY <1>2, <2>1 DEF Containers, Through
    <3>2. UNION Layouts(t) = {1, 2} \cup {}
        BY <1>2, <2>1, Contents DEF Containers
    <3>3. t.con \notin Pointers /\ Always \notin {1, 2}
        BY <1>2, <2>1 DEF Containers, Pointers, Always
    <3> QED
        BY <3>1, <3>2, <3>3, ThroughFits
  <2>2. CASE t.con # "Result"
    <3>1. /\ I[t.con].collect = {1} /\ I[t.con].needs = {1}
         /\ I[t.con].traces = {1} /\ I[t.con].static = {}
        BY <1>2, <2>2 DEF Containers, Through
    <3>2. UNION Layouts(t) = {1} \cup {}
        BY <1>2, <2>2, Contents DEF Containers
    <3>3. t.con \notin Pointers /\ Always \notin {1}
        BY <1>2, <2>2 DEF Containers, Pointers, Always
    <3> QED
        BY <3>1, <3>2, <3>3, ThroughFits
  <2> QED
      BY <2>1, <2>2
<1>3. CASE I = StdMaps
  <2>1. CASE t.con = "HashMap"
    <3>1. /\ I[t.con].collect = {1, 2} /\ I[t.con].needs = {1, 2}
         /\ I[t.con].traces = {1, 2} /\ I[t.con].static = {3}
        BY <1>3, <2>1 DEF StdMaps, Through
    <3>2. UNION Layouts(t) = {1, 2} \cup {3}
        BY <1>3, <2>1, Contents DEF StdMaps
    <3>3. t.con \notin Pointers /\ Always \notin {1, 2}
        BY <1>3, <2>1 DEF StdMaps, Pointers, Always
    <3> QED
        BY <3>1, <3>2, <3>3, ThroughFits
  <2>2. CASE t.con # "HashMap"
    <3>1. /\ I[t.con].collect = {1} /\ I[t.con].needs = {1}
         /\ I[t.con].traces = {1} /\ I[t.con].static = {2}
        BY <1>3, <2>2 DEF StdMaps, Through
    <3>2. UNION Layouts(t) = {1} \cup {2}
        BY <1>3, <2>2, Contents DEF StdMaps
    <3>3. t.con \notin Pointers /\ Always \notin {1}
        BY <1>3, <2>2 DEF StdMaps, Pointers, Always
    <3> QED
        BY <3>1, <3>2, <3>3, ThroughFits
  <2> QED
      BY <2>1, <2>2
<1>4. CASE I = Ordered
  <2>1. CASE t.con = "BTreeMap"
    <3>1. /\ I[t.con].collect = {1, 2} /\ I[t.con].needs = {1, 2}
         /\ I[t.con].traces = {1, 2} /\ I[t.con].static = {}
        BY <1>4, <2>1 DEF Ordered, Through
    <3>2. UNION Layouts(t) = {1, 2} \cup {}
        BY <1>4, <2>1, Contents DEF Ordered
    <3>3. t.con \notin Pointers /\ Always \notin {1, 2}
        BY <1>4, <2>1 DEF Ordered, Pointers, Always
    <3> QED
        BY <3>1, <3>2, <3>3, ThroughFits
  <2>2. CASE t.con # "BTreeMap"
    <3>1. /\ I[t.con].collect = {1} /\ I[t.con].needs = {1}
         /\ I[t.con].traces = {1} /\ I[t.con].static = {}
        BY <1>4, <2>2 DEF Ordered, Through
    <3>2. UNION Layouts(t) = {1} \cup {}
        BY <1>4, <2>2, Contents DEF Ordered
    <3>3. t.con \notin Pointers /\ Always \notin {1}
        BY <1>4, <2>2 DEF Ordered, Pointers, Always
    <3> QED
        BY <3>1, <3>2, <3>3, ThroughFits
  <2> QED
      BY <2>1, <2>2
<1>5. CASE I = Cells
    BY <1>5, Contents DEF Cells, Through, Opaque, Fits, Pointers, Always
<1>6. CASE I = Phantom
    BY <1>6, Contents DEF Phantom, Through, Opaque, Fits, Pointers, Always
<1>7. CASE I = Tuples
  <2>1. CASE t.con = "pair"
    <3>1. /\ I[t.con].collect = {1, 2} /\ I[t.con].needs = {1, 2}
         /\ I[t.con].traces = {1, 2} /\ I[t.con].static = {}
        BY <1>7, <2>1 DEF Tuples, Through
    <3>2. UNION Layouts(t) = {1, 2} \cup {}
        BY <1>7, <2>1, Contents DEF Tuples
    <3>3. t.con \notin Pointers /\ Always \notin {1, 2}
        BY <1>7, <2>1 DEF Tuples, Pointers, Always
    <3> QED
        BY <3>1, <3>2, <3>3, ThroughFits
  <2>2. CASE t.con # "pair"
    <3>1. /\ I[t.con].collect = {1} /\ I[t.con].needs = {1}
         /\ I[t.con].traces = {1} /\ I[t.con].static = {}
        BY <1>7, <2>2 DEF Tuples, Through
    <3>2. UNION Layouts(t) = {1} \cup {}
        BY <1>7, <2>2, Contents DEF Tuples
    <3>3. t.con \notin Pointers /\ Always \notin {1}
        BY <1>7, <2>2 DEF Tuples, Pointers, Always
    <3> QED
        BY <3>1, <3>2, <3>3, ThroughFits
  <2> QED
      BY <2>1, <2>2
<1>8. CASE I = Scalars
    BY <1>8, Contents DEF Scalars, Through, Opaque, Fits, Pointers, Always
<1>9. CASE I = References
    BY <1>9, Contents DEF References, Through, Opaque, Fits, Pointers, Always
<1>10. CASE I = Statics
    BY <1>10, Contents DEF Statics, Through, Opaque, Fits, Pointers, Always
<1>11. CASE I = Locks
  <2>1. /\ I[t.con].collect = {1} /\ I[t.con].needs = {1}
       /\ I[t.con].traces = {1} /\ I[t.con].static = {}
      BY <1>11 DEF Locks, Through
  <2>2. UNION Layouts(t) = {1} \cup {}
      BY <1>11, Contents DEF Locks
  <2>3. t.con \notin Pointers /\ Always \notin {1}
      BY <1>11 DEF Locks, Pointers, Always
  <2> QED
      BY <2>1, <2>2, <2>3, ThroughFits
<1>12. CASE I = Allocators
    BY <1>12, Contents DEF Allocators, Through, Opaque, Fits, Pointers, Always
<1>13. CASE I = Allocated
  <2>1. /\ I[t.con].collect = {1, 2} /\ I[t.con].needs = {1, 2}
       /\ I[t.con].traces = {1, 2} /\ I[t.con].static = {}
      BY <1>13 DEF Allocated, Through
  <2>2. UNION Layouts(t) = {1, 2} \cup {}
      BY <1>13, Contents DEF Allocated
  <2>3. t.con \notin Pointers /\ Always \notin {1, 2}
    <3>1. t.con \in {"Box in", "Vec in"}
        BY <1>13 DEF Allocated
    <3>2. t.con \notin Pointers
        BY <3>1 DEF Pointers
    <3> QED
        BY <3>2 DEF Always
  <2> QED
      BY <2>1, <2>2, <2>3, ThroughFits
<1>14. CASE I = HashBrown
  <2>1. CASE t.con = "hb HashMap"
    <3>1. /\ I[t.con].collect = {1, 2, 4} /\ I[t.con].needs = {1, 2, 4}
         /\ I[t.con].traces = {1, 2, 4} /\ I[t.con].static = {3}
        BY <1>14, <2>1 DEF HashBrown, Through
    <3>2. UNION Layouts(t) = {1, 2, 4} \cup {3}
        BY <1>14, <2>1, Contents DEF HashBrown
    <3>3. t.con \notin Pointers /\ Always \notin {1, 2, 4}
      <4>1. t.con \in {"hb HashMap", "hb HashSet", "hb HashTable"}
          BY <1>14, <2>1 DEF HashBrown
      <4>2. t.con \notin Pointers
          BY <4>1 DEF Pointers
      <4> QED
          BY <4>2 DEF Always
    <3> QED
        BY <3>1, <3>2, <3>3, ThroughFits
  <2>2. CASE t.con = "hb HashSet"
    <3>1. /\ I[t.con].collect = {1, 3} /\ I[t.con].needs = {1, 3}
         /\ I[t.con].traces = {1, 3} /\ I[t.con].static = {2}
        BY <1>14, <2>2 DEF HashBrown, Through
    <3>2. UNION Layouts(t) = {1, 3} \cup {2}
        BY <1>14, <2>2, Contents DEF HashBrown
    <3>3. t.con \notin Pointers /\ Always \notin {1, 3}
      <4>1. t.con \in {"hb HashMap", "hb HashSet", "hb HashTable"}
          BY <1>14, <2>2 DEF HashBrown
      <4>2. t.con \notin Pointers
          BY <4>1 DEF Pointers
      <4> QED
          BY <4>2 DEF Always
    <3> QED
        BY <3>1, <3>2, <3>3, ThroughFits
  <2>3. CASE t.con = "hb HashTable"
    <3>1. /\ I[t.con].collect = {1, 2} /\ I[t.con].needs = {1, 2}
         /\ I[t.con].traces = {1, 2} /\ I[t.con].static = {}
        BY <1>14, <2>3 DEF HashBrown, Through
    <3>2. UNION Layouts(t) = {1, 2} \cup {}
        BY <1>14, <2>3, Contents DEF HashBrown
    <3>3. t.con \notin Pointers /\ Always \notin {1, 2}
      <4>1. t.con \in {"hb HashMap", "hb HashSet", "hb HashTable"}
          BY <1>14, <2>3 DEF HashBrown
      <4>2. t.con \notin Pointers
          BY <4>1 DEF Pointers
      <4> QED
          BY <4>2 DEF Always
    <3> QED
        BY <3>1, <3>2, <3>3, ThroughFits
  <2> QED
      BY <1>14, <2>1, <2>2, <2>3 DEF HashBrown
<1> QED
    BY <1>1, <1>2, <1>3, <1>4, <1>5, <1>6, <1>7, <1>8, <1>9, <1>10, <1>11, <1>12, <1>13, <1>14 DEF Impls

\* What the derive macro generates fits the fields.
LEMMA DerivedFits ==
    ASSUME NEW t \in Types, t.con = "derive"
    PROVE  Fits(Derived(t), t)
<1>1. UNION Layouts(t) = DOMAIN t.args
  <2>1. Layouts(t) = t.variants
      BY DEF Layouts, Pointers
  <2> QED
      BY <2>1, TypesAssumption
<1>2. Always \notin DOMAIN t.args
  <2>1. t.args \in Seq(Types)
      BY TypesAssumption
  <2> QED
      BY <2>1 DEF Always
<1>3. t.con \notin Pointers
    BY DEF Pointers
<1>4. CASE HasOption(t, "require_static")
    BY <1>1, <1>3, <1>4 DEF Derived, Opaque, Fits
<1>5. CASE ~HasOption(t, "require_static")
  <2>1. /\ Derived(t).collect = DOMAIN t.args \ Filtered(t)
        /\ Derived(t).needs = DOMAIN t.args \ Filtered(t)
        /\ Derived(t).traces = DOMAIN t.args \ Filtered(t)
        /\ Derived(t).static = Filtered(t)
      BY <1>5 DEF Derived, Through
  <2> QED
      BY <1>1, <1>2, <1>3, <2>1 DEF Fits
<1> QED
    BY <1>4, <1>5

\* So every implementation fits its type.
LEMMA ImplFits ==
    ASSUME NEW t \in Types
    PROVE  Fits(Impl(t), t)
<1>1. CASE t.con = "derive"
    BY <1>1, DerivedFits DEF Impl
<1>2. CASE t.con # "derive"
  <2> DEFINE impls == CHOOSE I \in Impls : t.con \in DOMAIN I
  <2>1. \E I \in Impls : t.con \in DOMAIN I
      BY <1>2, TypesAssumption
  <2>2. impls \in Impls /\ t.con \in DOMAIN impls
    <3> HIDE DEF Impls
    <3> QED
        BY <2>1
  <2>3. Impl(t) = impls[t.con]
      BY <1>2 DEF Impl
  <2> HIDE DEF impls
  <2> QED
      BY <2>2, <2>3, LibraryFits
<1> QED
    BY <1>1, <1>2

-----------------------------------------------------------------------------
(* What a type that is Collect may hold, by induction on its depth.          *)

\* Arguments are types, and less deep.
LEMMA ArgumentsShallower ==
    ASSUME NEW t \in Types
    PROVE  /\ \A i \in DOMAIN t.args : t.args[i] \in Types /\ Depth(t.args[i]) < Depth(t)
           /\ Impl(t).collect \subseteq DOMAIN t.args
           /\ Impl(t).static \subseteq DOMAIN t.args
           /\ UNION Layouts(t) \subseteq DOMAIN t.args
<1>1. \A i \in DOMAIN t.args : t.args[i] \in Types
    BY PartsAreTypes DEF Parts
<1>2. Arguments(t) \subseteq DOMAIN t.args
    BY TypesAssumption
<1>3. \A i \in DOMAIN t.args : Depth(t.args[i]) < Depth(t)
    BY TypesAssumption
<1> QED
    BY <1>1, <1>2, <1>3 DEF Arguments

\* A set of types has a shallowest member, none of whose arguments is in it.
LEMMA Shallowest ==
    ASSUME NEW S \in SUBSET Types, S # {}
    PROVE  \E t \in S : \A i \in DOMAIN t.args : t.args[i] \notin S
<1> DEFINE D == {Depth(t) : t \in S}
<1>1. D \subseteq Nat /\ D # {}
    BY TypesAssumption
<1>2. PICK d \in D : \A e \in D : ~(<<e, d>> \in OpToRel(<, Nat))
  <2> HIDE DEF D
  <2> QED
      BY <1>1, NatLessThanWellFounded, WFMin
<1>3. \A e \in D : ~(e < d)
  <2> HIDE DEF D
  <2> QED
      BY <1>1, <1>2 DEF OpToRel
<1>4. PICK t \in S : Depth(t) = d
    OBVIOUS
<1>5. \A i \in DOMAIN t.args : Depth(t.args[i]) < Depth(t)
    BY TypesAssumption
<1> QED
    BY <1>3, <1>4, <1>5

\* A 'static type holds no pointer: pointers have a lifetime.
LEMMA StaticHoldsNothing == \A t \in Types : IsStatic(t) => ~MayHold(t)
<1> DEFINE Bad == {t \in Types : IsStatic(t) /\ MayHold(t)}
<1> SUFFICES ASSUME Bad # {}
             PROVE  FALSE
    OBVIOUS
<1>1. PICK t \in Bad : \A i \in DOMAIN t.args : t.args[i] \notin Bad
  <2>1. Bad \in SUBSET Types
      OBVIOUS
  <2> HIDE DEF Bad
  <2> QED
      BY <2>1, Shallowest
<1>2. t.lifetimes = << >> /\ \A i \in DOMAIN t.args : IsStatic(t.args[i])
    BY IsStaticEquation
<1>3. t.con \notin Pointers
    BY <1>2, TypesAssumption
<1>4. PICK i \in UNION Layouts(t) : MayHold(t.args[i])
    BY <1>3, MayHoldEquation
<1>5. i \in DOMAIN t.args /\ t.args[i] \in Types
    BY ArgumentsShallower
<1> QED
    BY <1>1, <1>2, <1>4, <1>5

\* NEEDS_TRACE of a type that is Collect says whether a value may hold a pointer.
LEMMA NeedsTraceIsExact ==
    \A t \in Types : Collects(t) => (NeedsTrace(t) <=> MayHold(t))
<1> DEFINE Bad == {t \in Types : Collects(t) /\ ~(NeedsTrace(t) <=> MayHold(t))}
<1> SUFFICES ASSUME Bad # {}
             PROVE  FALSE
    OBVIOUS
<1>1. PICK t \in Bad : \A i \in DOMAIN t.args : t.args[i] \notin Bad
  <2>1. Bad \in SUBSET Types
      OBVIOUS
  <2> HIDE DEF Bad
  <2> QED
      BY <2>1, Shallowest
<1>2. Fits(Impl(t), t)
    BY ImplFits
<1>3. Bounds(t) /\ \A i \in Impl(t).collect : Collects(t.args[i])
    BY CollectsEquation
<1>4. CASE t.con \in Pointers
    BY <1>2, <1>4, NeedsTraceEquation, MayHoldEquation DEF Fits
<1>5. CASE t.con \notin Pointers
  <2>1. \A i \in Impl(t).collect : NeedsTrace(t.args[i]) <=> MayHold(t.args[i])
      BY <1>1, <1>3, ArgumentsShallower
  <2>2. \A i \in Impl(t).static : ~MayHold(t.args[i])
    <3>1. \A i \in Impl(t).static : IsStatic(t.args[i]) /\ t.args[i] \in Types
        BY <1>3, ArgumentsShallower DEF Bounds
    <3> QED
        BY <3>1, StaticHoldsNothing
  <2>3. NeedsTrace(t) <=> \E i \in Impl(t).collect : NeedsTrace(t.args[i])
      BY <1>2, <1>5, NeedsTraceEquation DEF Fits
  <2>4. MayHold(t) <=> \E i \in UNION Layouts(t) : MayHold(t.args[i])
      BY <1>5, MayHoldEquation
  <2>5. /\ Impl(t).collect \subseteq UNION Layouts(t)
        /\ UNION Layouts(t) \subseteq Impl(t).collect \cup Impl(t).static
      BY <1>2 DEF Fits
  <2> QED
      BY <2>1, <2>2, <2>3, <2>4, <2>5
<1> QED
    BY <1>4, <1>5

\* The author of a destructor that can meet pointers has signed for it.
LEMMA DropsAreSigned ==
    ASSUME NEW t \in Types, Collects(t), t.drop, MayHold(t)
    PROVE  HasOption(t, "unsafe_drop")
<1>1. t.con = "derive"
    BY TypesAssumption
<1>2. Bounds(t)
    BY CollectsEquation
<1>3. Parses(t) /\ DropAllowed(t)
    BY <1>1, <1>2 DEF Bounds, Expands
<1>4. PICK i \in DOMAIN t.attrs[1] : t.attrs[1][i] \in Modes
    BY <1>3 DEF Parses
<1>5. HasOption(t, t.attrs[1][i])
    BY <1>3, <1>4 DEF Parses, HasOption
<1>6. t.attrs[1][i] # "no_drop"
    BY <1>3, <1>5 DEF DropAllowed
<1>7. t.attrs[1][i] # "require_static"
  <2> SUFFICES ASSUME HasOption(t, "require_static")
               PROVE  FALSE
      BY <1>5
  <2>1. Impl(t).static = DOMAIN t.args
      BY <1>1 DEF Impl, Derived, Opaque
  <2>2. \A j \in DOMAIN t.args : IsStatic(t.args[j])
      BY <1>2, <2>1 DEF Bounds
  <2>3. t.con \notin Pointers
      BY <1>1 DEF Pointers
  <2>4. PICK j \in UNION Layouts(t) : MayHold(t.args[j])
      BY <2>3, MayHoldEquation
  <2> QED
      BY <2>2, <2>4, ArgumentsShallower, StaticHoldsNothing
<1> QED
    BY <1>4, <1>5, <1>6, <1>7 DEF Modes

\* No destructor in a type that is Collect, or 'static, meets a pointer unsigned.
LEMMA DropsAreSafe ==
    \A t \in Types : Collects(t) \/ IsStatic(t) => DropsSafely(t)
<1> DEFINE Bad == {t \in Types : (Collects(t) \/ IsStatic(t)) /\ ~DropsSafely(t)}
<1> SUFFICES ASSUME Bad # {}
             PROVE  FALSE
    OBVIOUS
<1>1. PICK t \in Bad : \A i \in DOMAIN t.args : t.args[i] \notin Bad
  <2>1. Bad \in SUBSET Types
      OBVIOUS
  <2> HIDE DEF Bad
  <2> QED
      BY <2>1, Shallowest
<1>2. Signed(t)
    BY DropsAreSigned, StaticHoldsNothing DEF Signed
<1>3. PICK i \in UNION Layouts(t) : ~DropsSafely(t.args[i])
    BY <1>2, DropsSafelyEquation
<1>4. i \in DOMAIN t.args /\ t.args[i] \in Types
    BY ArgumentsShallower
<1>5. CASE IsStatic(t)
    BY <1>1, <1>3, <1>4, <1>5, IsStaticEquation
<1>6. CASE Collects(t)
  <2>1. /\ \A j \in Impl(t).collect : Collects(t.args[j])
        /\ \A j \in Impl(t).static : IsStatic(t.args[j])
      BY <1>6, CollectsEquation DEF Bounds
  <2>2. i \in Impl(t).collect \cup Impl(t).static
      BY ImplFits DEF Fits
  <2> QED
      BY <1>1, <1>3, <1>4, <2>1, <2>2
<1> QED
    BY <1>5, <1>6

-----------------------------------------------------------------------------
(* Tracing.                                                                 *)

\* What is queued is Collect, and what was passed over holds nothing.
TracingInv ==
    /\ ty \in Types
    /\ status \in {"tracing", "panicked"} => Collects(ty)
    /\ queued \subseteq Types /\ \A t \in queued : Collects(t)
    /\ passed \subseteq Types /\ \A t \in passed : ~MayHold(t)
    /\ \A p \in found : p.brand = Arena

THEOREM TracingInvariance == TracingSpec => []TracingInv
<1>1. TracingInit => TracingInv
    BY DEF TracingInit, TracingInv
<1>2. TracingInv /\ [TracingNext]_traceVars => TracingInv'
  <2> SUFFICES ASSUME TracingInv, [TracingNext]_traceVars
               PROVE  TracingInv'
      OBVIOUS
  <2>1. CASE Compile
      BY <2>1 DEF Compile, TracingInv
  <2>2. CASE Skip
    <3>1. PICK t \in queued : ~NeedsTrace(t) /\ passed' = passed \cup {t}
        BY <2>2 DEF Skip
    <3>2. ~MayHold(t)
        BY <3>1, NeedsTraceIsExact DEF TracingInv
    <3> QED
        BY <2>2, <3>1, <3>2 DEF Skip, TracingInv
  <2>3. CASE Report
    <3>1. PICK t \in queued :
              /\ t.con \in Pointers
              /\ found' = found \cup {[con |-> t.con, brand |-> t.lifetimes[1]]}
        BY <2>3 DEF Report
    <3>2. Bounds(t)
        BY CollectsEquation DEF TracingInv
    <3>3. t.lifetimes[1] = Arena
      <4>1. Branded(t, Arena)
          BY <3>2 DEF Bounds
      <4>2. t.lifetimes = <<Arena>>
          BY <3>1, <4>1 DEF Branded, Pointers
      <4> QED
          BY <4>2
    <3> QED
        BY <2>3, <3>1, <3>3 DEF Report, TracingInv
  <2>4. CASE Descend
    <3>1. PICK t \in queued : \E layout \in Layouts(t) :
              /\ queued' = queued \cup {t.args[i] : i \in layout \cap Impl(t).traces}
              /\ passed' = passed \cup {t.args[i] : i \in layout \ Impl(t).traces}
        BY <2>4 DEF Descend
    <3>2. PICK layout \in Layouts(t) :
              /\ queued' = queued \cup {t.args[i] : i \in layout \cap Impl(t).traces}
              /\ passed' = passed \cup {t.args[i] : i \in layout \ Impl(t).traces}
        BY <3>1
    <3>3. t \in Types /\ Collects(t)
        BY DEF TracingInv
    <3>4. /\ Bounds(t)
          /\ \A i \in Impl(t).collect : Collects(t.args[i]) /\ t.args[i] \in Types
          /\ \A i \in UNION Layouts(t) : t.args[i] \in Types
        BY <3>3, CollectsEquation, ArgumentsShallower
    <3>5. /\ Impl(t).traces = Impl(t).collect
          /\ UNION Layouts(t) \subseteq Impl(t).collect \cup Impl(t).static
        BY <3>3, ImplFits DEF Fits
    <3>6. \A i \in layout \ Impl(t).traces : t.args[i] \in Types /\ ~MayHold(t.args[i])
        BY <3>2, <3>4, <3>5, StaticHoldsNothing DEF Bounds
    <3> QED
        BY <2>4, <3>2, <3>4, <3>5, <3>6 DEF Descend, TracingInv
  <2>5. CASE BorrowPanics
      BY <2>5 DEF BorrowPanics, TracingInv
  <2>6. CASE UNCHANGED traceVars
      BY <2>6 DEF TracingInv, traceVars
  <2> QED
      BY <2>1, <2>2, <2>3, <2>4, <2>5, <2>6 DEF TracingNext
<1> QED
    BY <1>1, <1>2, PTL DEF TracingSpec

\* Rule 1 of Collect, for every type of every program.
THEOREM TraceExactness == TracingSpec => []TraceExact
<1>1. TracingInv => TraceExact
    BY DEF TracingInv, TraceExact
<1> QED
    BY <1>1, TracingInvariance, PTL

\* NEEDS_TRACE, for every type that is queued.
THEOREM NeedsTraceExactness == TracingSpec => []NeedsTraceExact
<1>1. TracingInv => NeedsTraceExact
    BY NeedsTraceIsExact DEF TracingInv, NeedsTraceExact
<1> QED
    BY <1>1, TracingInvariance, PTL

\* Rule 2 of Collect, at any depth of any type.
THEOREM DropSafety == TracingSpec => []NoPointersInDrop
<1>1. TracingInv => NoPointersInDrop
    BY DropsAreSafe DEF TracingInv, NoPointersInDrop
<1> QED
    BY <1>1, TracingInvariance, PTL
=============================================================================
