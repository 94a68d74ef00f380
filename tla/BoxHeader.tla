------------------------------- MODULE BoxHeader -------------------------------
(***************************************************************************)
(* The header of a box (src/types.rs).  The address of a vtable, which is a  *)
(* multiple of 16, shares a word with the colour, needs_trace and is_live;    *)
(* every operation of the collector reads and rewrites that word, or calls    *)
(* through it.  Bit masks are written as arithmetic: a mask of adjacent bits  *)
(* has a unit, its lowest bit, and a size, the number of its values.          *)
(*                                                                         *)
(* handle is a Gc of user code, on its way through Gc::cast, as_ptr and       *)
(* from_ptr (src/gc.rs): the address it holds, relative to the box, and the   *)
(* type of the value that it promises.                                      *)
(***************************************************************************)
EXTENDS Integers

CONSTANTS
    Boxes, Types, NULL,
    Vtable,         \* the vtable of each type lies at 16 * Vtable[t]
    Size, Align,    \* the layout of a value of each type
    Casts           \* the pairs of types that Gc::cast is used with

ASSUME NullAssumption == NULL \notin Boxes
ASSUME VtableAssumption ==
    Vtable \in [Types -> Nat] /\ \A t, u \in Types : Vtable[t] = Vtable[u] => t = u
ASSUME LayoutAssumption == Size \in [Types -> Nat] /\ Align \in [Types -> Nat \ {0}]
ASSUME CastsAssumption == Casts \subseteq Types \X Types

VARIABLES
    tagged,     \* tagged_vtable of each box
    next,       \* the next box in the list
    allocated,  \* the layout each box was allocated with, NULL: not allocated
    called,     \* the last function called through a vtable, and its type
    handle

headerVars == <<tagged, next, allocated, called, handle>>

Colors == {"White", "WhiteWeak", "Gray", "Black"}
Links == Boxes \cup {NULL}

-----------------------------------------------------------------------------
(* tagged_ptr: get, set and set_bool with a mask, and untag.                 *)

VtableAlign == 16

Get(word, unit, size) == ((word \div unit) % size) * unit
Set(word, unit, size, tag) == word - Get(word, unit, size) + Get(tag, unit, size)
SetBool(word, unit, value) == word - Get(word, unit, 2) + IF value THEN unit ELSE 0

(* Mutant: only the colour is masked out. *)
UntagColor(word) == word - (word % 4)

Untag(word) == word - (word % VtableAlign)

(* GcBoxHeader: colour in bits 0 and 1, needs_trace in bit 2, is_live in 3.  *)
ColorOf(word) ==
    LET tag == Get(word, 1, 4) IN
    IF tag = 0 THEN "White" ELSE IF tag = 1 THEN "WhiteWeak"
    ELSE IF tag = 2 THEN "Gray" ELSE "Black"

TagOf(c) == IF c = "White" THEN 0 ELSE IF c = "WhiteWeak" THEN 1
            ELSE IF c = "Gray" THEN 2 ELSE 3

(* Mutant: the mask of the colour takes needs_trace in. *)
SetColorWide(word, c) == Set(word, 1, 8, TagOf(c))

SetColor(word, c) == Set(word, 1, 4, TagOf(c))
NeedsTrace(word) == Get(word, 4, 2) # 0
IsLive(word) == Get(word, 8, 2) # 0
SetNeedsTrace(word, b) == SetBool(word, 4, b)
SetLive(word, b) == SetBool(word, 8, b)

NewHeader(t) == VtableAlign * Vtable[t]
VtableOf(word) == CHOOSE t \in Types : NewHeader(t) = Untag(word)

-----------------------------------------------------------------------------
(* The layout of a box is repr(C): header, padding, value, padding.          *)
HeaderSize  == 16
HeaderAlign == 8

RoundUp(n, a) == ((n + a - 1) \div a) * a
ValueOffset(t) == RoundUp(HeaderSize, Align[t])
Larger(m, n) == IF m >= n THEN m ELSE n

BoxLayout(t) ==
    LET align == Larger(HeaderAlign, Align[t])
    IN [size |-> RoundUp(ValueOffset(t) + Size[t], align), align |-> align]

Layouts == {BoxLayout(t) : t \in Types}

\* what the header of a box stands for
Records == [type : Types, color : Colors, needsTrace : BOOLEAN, live : BOOLEAN, next : Links]

ASSUME NullIsNoneAssumption == NULL \notin Layouts \cup Records

-----------------------------------------------------------------------------
HeaderInit ==
    /\ tagged = [b \in Boxes |-> 0] /\ next = [b \in Boxes |-> NULL]
    /\ allocated = [b \in Boxes |-> NULL]
    /\ called = NULL /\ handle = NULL

Allocated(b) == allocated[b] # NULL

(* Context::allocate: the header of a new box, and the Gc that Gc::new gives. *)
Allocate(b, t, nt, n) ==
    /\ ~Allocated(b)
    /\ tagged' = [tagged EXCEPT ![b] = SetNeedsTrace(SetLive(NewHeader(t), TRUE), nt)]
    /\ next' = [next EXCEPT ![b] = n]
    /\ allocated' = [allocated EXCEPT ![b] = BoxLayout(t)]
    /\ handle' = [box |-> b, at |-> 0, type |-> t]
    /\ UNCHANGED called

Paint(b, c) ==
    /\ Allocated(b)
    /\ tagged' = [tagged EXCEPT ![b] = SetColor(@, c)]
    /\ UNCHANGED <<next, allocated, called, handle>>

Link(b, n) ==
    /\ Allocated(b)
    /\ next' = [next EXCEPT ![b] = n]
    /\ UNCHANGED <<tagged, allocated, called, handle>>

CallThrough(b, f) == called' = [function |-> f, type |-> VtableOf(tagged[b])]

TraceValue(b) ==
    /\ Allocated(b) /\ IsLive(tagged[b])
    /\ CallThrough(b, "trace")
    /\ UNCHANGED <<tagged, next, allocated, handle>>

LetGo(b) == handle' = IF handle # NULL /\ handle.box = b THEN NULL ELSE handle

(* The sweep of a box that weak pointers are left to.                       *)
DropInPlace(b) ==
    /\ Allocated(b) /\ IsLive(tagged[b])
    /\ tagged' = [tagged EXCEPT ![b] = SetLive(@, FALSE)]
    /\ CallThrough(b, "drop")
    /\ LetGo(b)
    /\ UNCHANGED <<next, allocated>>

(* The sweep of a box without, and the drop of the arena: if it is live the  *)
(* value is dropped, then the box is deallocated.                           *)
Dealloc(b) ==
    /\ Allocated(b)
    /\ IF IsLive(tagged[b]) THEN CallThrough(b, "drop") ELSE UNCHANGED called
    /\ allocated' = [allocated EXCEPT ![b] = NULL]
    /\ tagged' = [tagged EXCEPT ![b] = 0] /\ next' = [next EXCEPT ![b] = NULL]
    /\ LetGo(b)

(* Gc::cast and erase keep the address of the box.                          *)
Cast(t) ==
    /\ handle # NULL /\ <<handle.type, t>> \in Casts
    /\ handle' = [handle EXCEPT !.type = t]
    /\ UNCHANGED <<tagged, next, allocated, called>>

(* Mutant: from_ptr forgets the padding after the header. *)
HeaderOffsetUnpadded(t) == HeaderSize

\* Gc::from_ptr extends the layout of the header by that of the value
HeaderOffset(t) == RoundUp(HeaderSize, Align[t])

(* Gc::as_ptr, and Gc::from_ptr of what it returned.                        *)
ThroughPtr ==
    /\ handle # NULL
    /\ handle' = [handle EXCEPT !.at = @ + ValueOffset(handle.type) - HeaderOffset(handle.type)]
    /\ UNCHANGED <<tagged, next, allocated, called>>

HeaderNext ==
    \/ \E b \in Boxes :
        \/ \E t \in Types, nt \in BOOLEAN, n \in Links : Allocate(b, t, nt, n)
        \/ \E c \in Colors : Paint(b, c)
        \/ \E n \in Links : Link(b, n)
        \/ TraceValue(b) \/ DropInPlace(b) \/ Dealloc(b)
    \/ \E t \in Types : Cast(t)
    \/ ThroughPtr

HeaderSpec == HeaderInit /\ [][HeaderNext]_headerVars

-----------------------------------------------------------------------------
(* The words are numbers, and every box in use has the vtable of a type.     *)
Words == {NewHeader(t) + 8 * l + 4 * nt + c : t \in Types, l \in 0..1, nt \in 0..1, c \in 0..3}

HeaderTypeOK ==
    /\ tagged \in [Boxes -> Nat] /\ next \in [Boxes -> Links]
    /\ allocated \in [Boxes -> Layouts \cup {NULL}]
    /\ \A b \in Boxes : Allocated(b) => tagged[b] \in Words
    /\ handle # NULL => handle.box \in Boxes /\ handle.at \in Int /\ handle.type \in Types

(* Whatever the flags were changed to, in any order, a box is deallocated     *)
(* with the layout it was allocated with: GcBox::dealloc asks the vtable.     *)
DeallocFits ==
    \A b \in Boxes : Allocated(b) =>
        \E t \in Types : NewHeader(t) = Untag(tagged[b]) /\ BoxLayout(t) = allocated[b]

(* A Gc holds the address of a box that is allocated, after any number of     *)
(* casts and trips through as_ptr and from_ptr, for every alignment.          *)
HandleAtHeader == handle # NULL => Allocated(handle.box) /\ handle.at = 0

(* The header is a record of independent fields: a step changes the field it  *)
(* is about and no other, and functions called through the vtable are those   *)
(* of the type the box was allocated with.                                   *)
Record(b) ==
    [type |-> VtableOf(tagged[b]), color |-> ColorOf(tagged[b]),
     needsTrace |-> NeedsTrace(tagged[b]), live |-> IsLive(tagged[b]), next |-> next[b]]

HeaderOf == [b \in Boxes |-> IF Allocated(b) THEN Record(b) ELSE NULL]

Typed == INSTANCE TypedBoxes WITH box <- HeaderOf

ImplementsHeader == Typed!Spec
=============================================================================
