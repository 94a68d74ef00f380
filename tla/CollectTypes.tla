----------------------------- MODULE CollectTypes -----------------------------
(***************************************************************************)
(* The contract between the collector and the types it traces: Collect,     *)
(* Trace and NEEDS_TRACE (src/collect.rs), their implementations for the     *)
(* standard library, allocators, hashbrown, locks and pointers, and the      *)
(* derive macro (derive/src/lib.rs).  GcContext rests on it: what a value     *)
(* reports is what it holds.                                                *)
(*                                                                         *)
(* A type is a constructor applied to argument types; the arguments of a     *)
(* derived type are its fields.  Compile is what the macro and the trait      *)
(* bounds make of a type, and the other steps trace one value of it, part by  *)
(* part, as a mark_one would, up to a panic of a RefLock.  The value is       *)
(* chosen as tracing meets it: what tracing passes over is never looked at.   *)
(***************************************************************************)
EXTENDS Integers, Sequences

CONSTANTS
    Types,      \* the types of a program
    Depth(_),   \* how deep a type is nested
    Arena       \* the 'gc lifetime of the arena that stores the value

\* AnyLifetime: no lifetime parameter
AnyLifetime == "any"

VARIABLES
    ty, status,
    queued,     \* the types of the parts that were queued to be traced
    passed,     \* the types of the parts that tracing passed over
    found       \* the pointers reported

traceVars == <<ty, status, queued, passed, found>>

-----------------------------------------------------------------------------
(* How a type implements Collect: by which bounds on its arguments, and from *)
(* which of them it takes NEEDS_TRACE and which of them it traces.           *)
(* Always among the needs is the default, NEEDS_TRACE = true.                *)
Always == 0

Through(I) == [collect |-> I, static |-> {}, needs |-> I, traces |-> I]
Opaque(I)  == [collect |-> {}, static |-> I, needs |-> {}, traces |-> {}]

Containers ==
    [c \in {"Box", "slice", "Option", "Vec", "VecDeque", "LinkedList", "Result"} |->
        Through(IF c = "Result" THEN {1, 2} ELSE {1})]

\* a hasher cannot be traced and must be 'static
StdMaps ==
    [c \in {"HashMap", "HashSet"} |->
        IF c = "HashMap" THEN [Through({1, 2}) EXCEPT !.static = {3}]
        ELSE [Through({1}) EXCEPT !.static = {2}]]

Ordered ==
    [c \in {"BTreeMap", "BTreeSet", "BinaryHeap", "Rc", "Arc"} |->
        Through(IF c = "BTreeMap" THEN {1, 2} ELSE {1})]

(* Mutant: a cell leaves NEEDS_TRACE at its default. *)
CellsDefault == [c \in {"Cell", "RefCell"} |-> [Opaque({1}) EXCEPT !.needs = {Always}]]

Cells   == [c \in {"Cell", "RefCell"} |-> Opaque({1})]
Phantom == [c \in {"PhantomData"} |-> Opaque({})]
Tuples  == [c \in {"array", "pair"} |-> Through(IF c = "pair" THEN {1, 2} ELSE {1})]
Scalars == [c \in {"scalar"} |-> Opaque({})]

(* Mutant: without the bound that works around a bug of rustc.               *)
ReferencesUnbounded == [c \in {"static ref"} |-> Opaque({})]

\* &'static T where T: 'static
References == [c \in {"static ref"} |-> Opaque({1})]
Statics    == [c \in {"Static"} |-> Opaque({1})]
Locks      == [c \in {"Lock", "RefLock"} |-> Through({1})]

Allocators == [c \in {"MetricsAlloc", "Global"} |-> Opaque(IF c = "Global" THEN {} ELSE {1})]
Allocated  == [c \in {"Box in", "Vec in"} |-> Through({1, 2})]

HashBrown ==
    [c \in {"hb HashMap", "hb HashSet", "hb HashTable"} |->
        CASE c = "hb HashMap"   -> [Through({1, 2, 4}) EXCEPT !.static = {3}]
          [] c = "hb HashSet"   -> [Through({1, 3}) EXCEPT !.static = {2}]
          [] c = "hb HashTable" -> Through({1, 2})]

Pointers == {"Gc", "GcWeak"}
Handles  == [c \in Pointers |-> [Opaque({}) EXCEPT !.needs = {Always}]]

Impls == {Handles, Containers, StdMaps, Ordered, Cells, Phantom, Tuples, Scalars,
          References, Statics, Locks, Allocators, Allocated, HashBrown}

-----------------------------------------------------------------------------
(* #[derive(Collect)].  t.attrs are the #[collect(...)] attributes of the    *)
(* type, each the sequence of its options; t.fields[i] those of field i.     *)

Modes == {"require_static", "no_drop", "unsafe_drop"}

Once(opts, names) == \A i, j \in DOMAIN opts :
                         opts[i] \in names /\ opts[j] \in names => i = j

(* One attribute, one mode, and no option twice.                            *)
Parses(t) ==
    /\ DOMAIN t.attrs = {1}
    /\ LET opts == t.attrs[1] IN
       /\ \A i \in DOMAIN opts : opts[i] \in Modes \cup {"bound", "gc_lifetime"}
       /\ Once(opts, {"bound"}) /\ Once(opts, {"gc_lifetime"}) /\ Once(opts, Modes)
       /\ \E i \in DOMAIN opts : opts[i] \in Modes

HasOption(t, o) == \E a \in DOMAIN t.attrs : \E i \in DOMAIN t.attrs[a] : t.attrs[a][i] = o

\* the fields marked #[collect(require_static)]
Filtered(t) == {i \in DOMAIN t.fields : t.fields[i] = << <<"require_static">> >>}

(* Errors at fields and variants are looked for only in the tracing modes.   *)
(* An empty attribute on a field is none.                                    *)
FieldsParse(t) ==
    \A i \in DOMAIN t.fields :
        t.fields[i] \in {<< >>, << << >> >>, << <<"require_static">> >>}

(* The lifetime the impl is for; with several the author has to choose.      *)
GcLifetime(t) ==
    IF HasOption(t, "gc_lifetime") THEN t.chosen
    ELSE IF t.lifetimes = << >> THEN AnyLifetime
    ELSE t.lifetimes[1]

Unambiguous(t) == HasOption(t, "gc_lifetime") \/ Len(t.lifetimes) <= 1

(* Mutant: a 'static type leaves NEEDS_TRACE at its default. *)
DerivedDefault(t) ==
    IF HasOption(t, "require_static") THEN [Opaque(DOMAIN t.args) EXCEPT !.needs = {Always}]
    ELSE [Through(DOMAIN t.args \ Filtered(t)) EXCEPT !.static = Filtered(t)]

(* Mutant: a field that is not traced gets no 'static bound. *)
DerivedUnbounded(t) == Through(DOMAIN t.args \ Filtered(t))

Derived(t) ==
    IF HasOption(t, "require_static") THEN Opaque(DOMAIN t.args)
    ELSE [Through(DOMAIN t.args \ Filtered(t)) EXCEPT !.static = Filtered(t)]

(* Mutant: Drop is forbidden in no mode. *)
DropAnywhere(t) == TRUE

\* __MustNotImplDrop conflicts with an implementation of Drop
DropAllowed(t) == HasOption(t, "no_drop") => ~t.drop

Expands(t) ==
    /\ Parses(t) /\ DropAllowed(t)
    /\ HasOption(t, "require_static") \/ (FieldsParse(t) /\ ~t.onVariant /\ Unambiguous(t))

Impl(t) ==
    IF t.con = "derive" THEN Derived(t)
    ELSE LET impls == CHOOSE I \in Impls : t.con \in DOMAIN I IN impls[t.con]

-----------------------------------------------------------------------------
(* What a value of a type is made of: the arguments it has parts of.         *)
Layouts(t) ==
    CASE t.con \in Pointers \cup {"scalar", "PhantomData", "Global"} -> {{}}
      [] t.con \in {"Option", "slice", "array", "Vec", "VecDeque", "LinkedList", "BTreeSet",
                    "BinaryHeap"} -> {{}, {1}}
      [] t.con = "Result" -> {{1}, {2}}
      [] t.con = "derive" -> t.variants
      [] t.con \in {"pair", "Box in"} -> {{1, 2}}
      [] t.con = "BTreeMap" -> {{}, {1, 2}}
      [] t.con \in {"Vec in", "HashSet", "hb HashTable"} -> {{2}, {1, 2}}
      [] t.con = "HashMap" -> {{3}, {1, 2, 3}}
      [] t.con = "hb HashMap" -> {{3, 4}, {1, 2, 3, 4}}
      [] t.con = "hb HashSet" -> {{2, 3}, {1, 2, 3}}
      [] OTHER -> {{1}}

Arguments(t) == Impl(t).collect \cup Impl(t).static \cup Impl(t).traces
                \cup (Impl(t).needs \ {Always}) \cup UNION Layouts(t)

(* Types are finite terms: a type that contains itself without a pointer in  *)
(* between is refused by rustc, as its NEEDS_TRACE would depend on itself.    *)
(* Destructors of the user's own are those of derived types.                 *)
ASSUME TypesAssumption ==
    \A t \in Types :
        /\ Depth(t) \in Nat
        /\ t.con = "derive" \/ \E I \in Impls : t.con \in DOMAIN I
        /\ t.args \in Seq(Types)
        /\ \A i \in DOMAIN t.args : Depth(t.args[i]) < Depth(t)
        /\ Arguments(t) \subseteq DOMAIN t.args
        /\ t.con \in Pointers => t.lifetimes # << >>
        /\ t.con = "derive" => UNION t.variants = DOMAIN t.args
        /\ t.drop => t.con = "derive"

(* What the compiler checks: 'static and Copy bounds, and Collect<'gc>.      *)
IsStatic(t) ==
    LET static[u \in Types] ==
            u.lifetimes = << >> /\ \A i \in DOMAIN u.args : static[u.args[i]]
    IN static[t]

IsCopy(t) ==
    LET copy[u \in Types] ==
            \/ u.con \in Pointers \cup {"scalar", "static ref", "PhantomData"}
            \/ u.con \in {"Option", "array", "pair", "Static", "Result"}
               /\ \A i \in DOMAIN u.args : copy[u.args[i]]
    IN copy[t]

(* Mutant: a pointer can be traced by any arena. *)
AnyBrand(t, l) == TRUE

\* the lifetime for which Gc, GcWeak, MetricsAlloc and derived types are Collect
Branded(t, l) ==
    CASE t.con \in Pointers \cup {"MetricsAlloc"} -> t.lifetimes = <<l>>
      [] t.con = "derive" /\ ~HasOption(t, "require_static") -> GcLifetime(t) \in {AnyLifetime, l}
      [] OTHER -> TRUE

Bounds(t) ==
    /\ t.con = "derive" => Expands(t)
    /\ t.con = "Lock" => IsCopy(t.args[1])
    /\ Branded(t, Arena)
    /\ \A i \in Impl(t).static : IsStatic(t.args[i])

Collects(t) ==
    LET collects[u \in Types] ==
            Bounds(u) /\ \A i \in Impl(u).collect : collects[u.args[i]]
    IN collects[t]

NeedsTrace(t) ==
    LET needs[u \in Types] ==
            \/ Always \in Impl(u).needs
            \/ \E i \in Impl(u).needs \ {Always} : needs[u.args[i]]
    IN needs[t]

-----------------------------------------------------------------------------
TracingInit ==
    /\ ty \in Types
    /\ status = "source" /\ queued = {} /\ passed = {} /\ found = {}

Compile ==
    /\ status = "source"
    /\ IF Collects(ty)
       THEN status' = "tracing" /\ queued' = {ty}
       ELSE status' = "rejected" /\ UNCHANGED queued
    /\ UNCHANGED <<ty, passed, found>>

(* Trace::trace does not enter a value whose type needs no tracing.          *)
Skip ==
    /\ status = "tracing"
    /\ \E t \in queued :
          /\ ~NeedsTrace(t)
          /\ passed' = passed \cup {t}
    /\ UNCHANGED <<ty, status, queued, found>>

\* Gc and GcWeak report themselves
Report ==
    /\ status = "tracing"
    /\ \E t \in queued :
          /\ t.con \in Pointers
          /\ found' = found \cup {[con |-> t.con, brand |-> t.lifetimes[1]]}
    /\ UNCHANGED <<ty, status, queued, passed>>

(* Collect::trace of everything else traces the parts of some arguments.     *)
Descend ==
    /\ status = "tracing"
    /\ \E t \in queued : \E layout \in Layouts(t) :
          /\ NeedsTrace(t) /\ t.con \notin Pointers
          /\ queued' = queued \cup {t.args[i] : i \in layout \cap Impl(t).traces}
          /\ passed' = passed \cup {t.args[i] : i \in layout \ Impl(t).traces}
    /\ UNCHANGED <<ty, status, found>>

(* RefLock::trace borrows, which panics if a RefMut was forgotten.           *)
BorrowPanics ==
    /\ status = "tracing"
    /\ \E t \in queued : NeedsTrace(t) /\ t.con = "RefLock"
    /\ status' = "panicked"
    /\ UNCHANGED <<ty, queued, passed, found>>

TracingNext == Compile \/ Skip \/ Report \/ Descend \/ BorrowPanics

TracingSpec == TracingInit /\ [][TracingNext]_traceVars

-----------------------------------------------------------------------------
(* Can a value of the type hold a pointer?  This is about values, whatever   *)
(* the type's Collect says.                                                 *)
MayHold(t) ==
    LET holds[u \in Types] ==
            u.con \in Pointers \/ \E i \in UNION Layouts(u) : holds[u.args[i]]
    IN holds[t]

(* Whatever the type, every Gc and GcWeak pointer that a value holds is       *)
(* reported: at any moment, and after a panic, what was passed over can hold  *)
(* none, and all else is reported or still to be traced.  A pointer of       *)
(* another arena is never among those reported.                             *)
(* Rule 1 of Collect, for the derive macro and every implementation, with     *)
(* the NEEDS_TRACE shortcut on the way.                                      *)
TraceExact ==
    /\ \A p \in found : p.brand = Arena
    /\ \A t \in passed : ~MayHold(t)

(* NEEDS_TRACE is false exactly of the types no value of which can hold a     *)
(* pointer: no value is queued and traced for nothing.                       *)
NeedsTraceExact == \A t \in queued : NeedsTrace(t) <=> MayHold(t)

\* a destructor of the type itself
Signed(t) == t.drop /\ MayHold(t) => HasOption(t, "unsafe_drop")

(* Rule 2 of Collect: a destructor written by the user cannot meet pointers, *)
(* at any depth of a value, unless its author signed for it (unsafe_drop).   *)
DropsSafely(t) ==
    LET safe[u \in Types] ==
            Signed(u) /\ \A i \in UNION Layouts(u) : safe[u.args[i]]
    IN safe[t]

NoPointersInDrop == status \in {"tracing", "panicked"} => DropsSafely(ty)
=============================================================================
