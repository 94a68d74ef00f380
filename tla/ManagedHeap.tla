----------------------------- MODULE ManagedHeap -----------------------------
(***************************************************************************)
(* What an arena promises to the code inside its callbacks: a heap whose     *)
(* garbage goes away at once, between two callbacks and as a whole.  There   *)
(* are no phases, colours, queues, barriers or lists here.                  *)
(*                                                                         *)
(* An object is alive until a collection takes it away, which it does only   *)
(* together with all that points at it.  Afterwards weak pointers to it are  *)
(* dead, and its memory is given back when there are none left.             *)
(***************************************************************************)
CONSTANT Obj

VARIABLES
    born,                       \* objects allocated so far
    alive,                      \* objects strong pointers may lead to, and
                                \* weak ones be upgraded to
    memory,                     \* objects whose memory is not given back
    strong, weak,               \* what each object points at
    rootStrong, rootWeak,
    mode,                       \* the callback in progress
    held, heldWeak,             \* the pointers user code holds
    gone                        \* has the arena been dropped?

rootVars == <<rootStrong, rootWeak>>
userVars == <<mode, held, heldWeak>>
heapVars == <<born, alive, memory, strong, weak, rootVars, userVars, gone>>

Callbacks == {"mutate", "mutate_root", "finalize"}

Closed(S) == \A o \in S : strong[o] \subseteq S

Reach(R) == {o \in Obj : \A S \in SUBSET Obj :
                             (R \subseteq S /\ Closed(S)) => o \in S}

WeakOf(S) == UNION {weak[o] : o \in S}

WeakHandles == held \cup heldWeak

HeapInit ==
    /\ born = {} /\ alive = {} /\ memory = {}
    /\ strong = [o \in Obj |-> {}] /\ weak = [o \in Obj |-> {}]
    /\ rootStrong = {} /\ rootWeak = {}
    /\ mode = "mutate_root" /\ held = {} /\ heldWeak = {}
    /\ gone = FALSE

(* A callback may read all that the root leads to, and forgets it again.     *)
Enter ==
    /\ mode = "idle" /\ ~gone
    /\ mode' \in Callbacks
    /\ held' = Reach(rootStrong)
    /\ heldWeak' = (rootWeak \cup WeakOf(held')) \ held'
    /\ UNCHANGED <<born, alive, memory, strong, weak, rootVars, gone>>

Leave ==
    /\ mode \in Callbacks
    /\ mode' = "idle" /\ held' = {} /\ heldWeak' = {}
    /\ UNCHANGED <<born, alive, memory, strong, weak, rootVars, gone>>

New(o) ==
    /\ mode \in Callbacks /\ o \notin born
    /\ born' = born \cup {o} /\ alive' = alive \cup {o} /\ memory' = memory \cup {o}
    /\ \E S \in SUBSET held : strong' = [strong EXCEPT ![o] = S]
    /\ \E W \in SUBSET WeakHandles : weak' = [weak EXCEPT ![o] = W]
    /\ held' = held \cup {o}
    /\ UNCHANGED <<rootVars, mode, heldWeak, gone>>

(* A store into an object user code holds, of pointers it holds.             *)
Write(p) ==
    /\ mode \in Callbacks
    /\ \E S \in SUBSET (strong[p] \cup held) : strong' = [strong EXCEPT ![p] = S]
    /\ \E W \in SUBSET (weak[p] \cup WeakHandles) : weak' = [weak EXCEPT ![p] = W]
    /\ UNCHANGED <<born, alive, memory, rootVars, userVars, gone>>

WriteRoot ==
    /\ mode = "mutate_root"
    /\ rootStrong' \subseteq held /\ rootWeak' \subseteq WeakHandles
    /\ UNCHANGED <<born, alive, memory, strong, weak, userVars, gone>>

(* Upgrading or resurrecting: a weak pointer becomes a strong one, exactly   *)
(* if its object is alive.                                                  *)
Strengthen(o) ==
    /\ mode \in Callbacks /\ o \in alive
    /\ held' = held \cup Reach({o})
    /\ heldWeak' = (heldWeak \cup WeakOf(Reach({o}))) \ held'
    /\ UNCHANGED <<born, alive, memory, strong, weak, rootVars, mode, gone>>

Bury(S) ==
    /\ strong' = [o \in Obj |-> IF o \in S THEN {} ELSE strong[o]]
    /\ weak' = [o \in Obj |-> IF o \in S THEN {} ELSE weak[o]]

(* A collection takes away some of what the root does not lead to, and       *)
(* leaves nothing alive that points at what it took.                        *)
CollectGarbage ==
    /\ mode = "idle" /\ ~gone
    /\ alive' \subseteq alive
    /\ Reach(rootStrong) \subseteq alive' /\ Closed(alive')
    /\ Bury(alive \ alive')
    /\ UNCHANGED <<born, memory, rootVars, userVars, gone>>

(* Memory is given back when nothing alive is left to ask whether the object *)
(* still exists.                                                            *)
Reclaim(o) ==
    /\ mode = "idle" /\ o \in memory \ alive
    /\ o \notin rootWeak \cup WeakOf(alive)
    /\ memory' = memory \ {o}
    /\ UNCHANGED <<born, alive, strong, weak, rootVars, userVars, gone>>

(* The arena is dropped between callbacks, or for want of a root.            *)
DropArena ==
    /\ mode \in {"idle", "mutate_root"} /\ ~gone
    /\ gone' = TRUE /\ alive' = {}
    /\ Bury(alive)
    /\ rootStrong' = {} /\ rootWeak' = {}
    /\ mode' = "idle" /\ held' = {} /\ heldWeak' = {}
    /\ UNCHANGED <<born, memory>>

HeapNext ==
    \/ Enter \/ Leave
    \/ \E o \in Obj : New(o)
    \/ \E p \in held : Write(p)
    \/ WriteRoot
    \/ \E o \in WeakHandles : Strengthen(o)
    \/ CollectGarbage
    \/ \E o \in Obj : Reclaim(o)
    \/ DropArena

HeapSpec == HeapInit /\ [][HeapNext]_heapVars
=============================================================================
