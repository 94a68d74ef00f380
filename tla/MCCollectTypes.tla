---- MODULE MCCollectTypes ----
(* CollectTypes, for TLC: the types that are tried. *)
EXTENDS CollectTypes, FiniteSetsExt

Type(con, lifetimes, args) ==
    [con |-> con, lifetimes |-> lifetimes, args |-> args, attrs |-> << >>,
     fields |-> << >>, variants |-> {}, onVariant |-> FALSE, drop |-> FALSE,
     chosen |-> AnyLifetime]

Plain(con, args) == Type(con, << >>, args)

Other  == "other"
Scalar == Plain("scalar", << >>)
Gc     == Type("Gc", <<Arena>>, << >>)
GcWeak == Type("GcWeak", <<Arena>>, << >>)
Alien  == Type("Gc", <<Other>>, << >>)
Leaves == {Scalar, Gc, GcWeak}

Alloc(t) == Type("MetricsAlloc", <<Arena>>, <<t>>)
Allocs == {Plain("Global", << >>), Alloc(Plain("Global", << >>)), Gc}

Ones  == {"Box", "slice", "Option", "Vec", "VecDeque", "LinkedList", "BTreeSet",
          "BinaryHeap", "Rc", "Arc", "array", "Cell", "RefCell", "PhantomData",
          "static ref", "Static", "Lock", "RefLock"}

Wrapped(cons, S) == {Plain(c, <<t>>) : c \in cons, t \in S}
One(S) == Wrapped(Ones, S) \cup {Alloc(t) : t \in S}

Many(S) ==
    {Plain(c, <<t, u>>) :
        c \in {"Result", "BTreeMap", "pair", "HashSet"}, t \in S, u \in Leaves}
    \cup {Plain(c, <<t, a>>) :
        c \in {"Box in", "Vec in", "hb HashTable"}, t \in S, a \in Allocs}
    \cup {Plain("HashMap", <<t, u, h>>) : t \in S, u \in Leaves, h \in Leaves}
    \cup {Plain("hb HashSet", <<t, h, a>>) : t \in S, h \in Leaves, a \in Allocs}
    \cup {Plain("hb HashMap", <<t, u, h, a>>) :
        t \in S, u \in Leaves, h \in {Scalar, Gc}, a \in Allocs}

\* every implementation over every leaf, and nested once more
LibraryTypes ==
    LET flat == Leaves \cup {Alien}
        first == flat \cup Allocs \cup One(flat) \cup Many(flat)
    IN first \cup One(Many(Leaves)) \cup One(One(Leaves)) \cup Many(One(Leaves))

Lifetimes == {<< >>, <<Arena>>, <<Other>>, <<Arena, Other>>}

Attrs ==
    {<< >>, << <<"bound">> >>, << <<"no_drop", "unknown">> >>,
     << <<"no_drop", "require_static">> >>,
     << <<"no_drop">>, <<"no_drop">> >>, << <<"unsafe_drop", "bound">> >>,
     << <<"no_drop", "gc_lifetime">> >>, << <<"require_static", "bound">> >>}
    \cup {<< <<m>> >> : m \in Modes}

FieldAttrs == {<< >>, << << >> >>, << <<"require_static">> >>, << <<"no_drop">> >>,
               << <<"require_static">>, <<"require_static">> >>}

Derive(lifetimes, args, attrs, fields, variants, drop) ==
    [con |-> "derive", lifetimes |-> lifetimes, args |-> args, attrs |-> attrs,
     fields |-> fields, variants |-> variants, onVariant |-> FALSE, drop |-> drop,
     chosen |-> Arena]

Struct == {{1, 2}}
Enum   == {{1}, {2}}

\* of two fields: every use of the attributes, and every shape of those that compile
Derives ==
    {Derive(l, <<t, Scalar>>, a, <<f, << >> >>, Struct, d) :
        l \in Lifetimes, t \in {Scalar, Gc}, a \in Attrs, f \in FieldAttrs, d \in BOOLEAN}
    \cup {Derive(l, <<t, u>>, << <<m>> >>, <<f, g>>, vs, d) :
        l \in Lifetimes,
        t \in Leaves \cup {Alien, Plain("RefLock", <<Gc>>), Plain("Cell", <<Gc>>)},
        u \in {Scalar, Gc}, m \in Modes,
        f \in {<< >>, << <<"require_static">> >>}, g \in {<< >>, << <<"require_static">> >>},
        vs \in {Struct, Enum}, d \in BOOLEAN}

DeriveTypes ==
    Derives \cup {[t EXCEPT !.onVariant = TRUE] : t \in {d \in Derives : d.lifetimes = << >>}}
    \cup Wrapped({"Option", "Vec", "RefLock", "Cell"}, {d \in Derives : Expands(d)})

AllTypes == LibraryTypes \cup DeriveTypes

\* TLC keeps the value of a constant definition, not of one a constant stands for
TestedTypes == AllTypes

RECURSIVE Nesting(_)
Nesting(t) ==
    IF t.args = << >> THEN 0
    ELSE 1 + Max({Nesting(t.args[i]) : i \in DOMAIN t.args})
====
