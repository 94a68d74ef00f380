------------------------------ MODULE TypedBoxes ------------------------------
(***************************************************************************)
(* What the collector takes the header of a box for: a record with a type,  *)
(* a colour, two flags and a link, each of which changes only when it is     *)
(* set, and through which the functions of the type of the value are called. *)
(* BoxHeader implements it with two words.                                  *)
(***************************************************************************)
CONSTANTS Boxes, Types, NULL

VARIABLES
    box,        \* the header of each box, NULL where there is none
    called      \* the last function called through a vtable, and its type

typedVars == <<box, called>>

Colors == {"White", "WhiteWeak", "Gray", "Black"}

Links == Boxes \cup {NULL}

Header == [type : Types, color : Colors, needsTrace : BOOLEAN, live : BOOLEAN, next : Links]

Init == box = [b \in Boxes |-> NULL] /\ called = NULL

Alloc(b, t, nt, n) ==
    /\ box[b] = NULL
    /\ box' = [box EXCEPT ![b] = [type |-> t, color |-> "White", needsTrace |-> nt,
                                  live |-> TRUE, next |-> n]]
    /\ UNCHANGED called

Paint(b, c) ==
    /\ box[b] # NULL
    /\ box' = [box EXCEPT ![b].color = c]
    /\ UNCHANGED called

Link(b, n) ==
    /\ box[b] # NULL
    /\ box' = [box EXCEPT ![b].next = n]
    /\ UNCHANGED called

Call(b, f) == called' = [function |-> f, type |-> box[b].type]

Trace(b) == box[b] # NULL /\ box[b].live /\ Call(b, "trace") /\ UNCHANGED box

\* the value goes, the box stays for the weak pointers
Shell(b) ==
    /\ box[b] # NULL /\ box[b].live
    /\ box' = [box EXCEPT ![b].live = FALSE]
    /\ Call(b, "drop")

Free(b) ==
    /\ box[b] # NULL
    /\ box' = [box EXCEPT ![b] = NULL]
    /\ IF box[b].live THEN Call(b, "drop") ELSE UNCHANGED called

Next ==
    \E b \in Boxes :
        \/ \E t \in Types, nt \in BOOLEAN, n \in Links : Alloc(b, t, nt, n)
        \/ \E c \in Colors : Paint(b, c)
        \/ \E n \in Links : Link(b, n)
        \/ Trace(b) \/ Shell(b) \/ Free(b)

Spec == Init /\ [][Next]_typedVars
=============================================================================
