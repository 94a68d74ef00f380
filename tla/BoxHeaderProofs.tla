---------------------------- MODULE BoxHeaderProofs ----------------------------
(***************************************************************************)
(* Proofs about BoxHeader, for any boxes, types, layouts and vtables.       *)
(***************************************************************************)
EXTENDS BoxHeader, TLAPS

(* The word of a vtable with its flags; Words are its values.               *)
WordOf(v, l, n, c) == 16 * v + 8 * l + 4 * n + c

Flags(v, l, n, c) == v \in Nat /\ l \in 0..1 /\ n \in 0..1 /\ c \in 0..3

LEMMA Masks ==
    ASSUME NEW v, NEW l, NEW n, NEW c, Flags(v, l, n, c)
    PROVE  /\ WordOf(v, l, n, c) \in Nat
           /\ Get(WordOf(v, l, n, c), 1, 4) = c
           /\ Get(WordOf(v, l, n, c), 4, 2) = 4 * n
           /\ Get(WordOf(v, l, n, c), 8, 2) = 8 * l
           /\ Untag(WordOf(v, l, n, c)) = 16 * v
<1> USE DEF Flags, WordOf
<1>1. WordOf(v, l, n, c) \in Nat
  OBVIOUS
<1>2. Get(WordOf(v, l, n, c), 1, 4) = c
  BY SMT DEF Get
<1>3. Get(WordOf(v, l, n, c), 4, 2) = 4 * n
  BY SMT DEF Get
<1>4. Get(WordOf(v, l, n, c), 8, 2) = 8 * l
  BY SMTT(30) DEF Get
<1>5. Untag(WordOf(v, l, n, c)) = 16 * v
  BY SMT DEF Untag, VtableAlign
<1> QED
  BY <1>1, <1>2, <1>3, <1>4, <1>5

(* What the setters make of a word: one field changes.                      *)
LEMMA Setters ==
    ASSUME NEW v, NEW l, NEW n, NEW c, Flags(v, l, n, c)
    PROVE  /\ \A k \in Colors : SetColor(WordOf(v, l, n, c), k) = WordOf(v, l, n, TagOf(k))
           /\ \A b \in BOOLEAN : SetNeedsTrace(WordOf(v, l, n, c), b)
                                     = WordOf(v, l, IF b THEN 1 ELSE 0, c)
           /\ \A b \in BOOLEAN : SetLive(WordOf(v, l, n, c), b)
                                     = WordOf(v, IF b THEN 1 ELSE 0, n, c)
<1>1. ASSUME NEW k \in Colors
      PROVE  SetColor(WordOf(v, l, n, c), k) = WordOf(v, l, n, TagOf(k))
  <2>1. TagOf(k) \in 0..3
    BY DEF TagOf
  <2>2. Get(TagOf(k), 1, 4) = TagOf(k)
    BY <2>1, SMT DEF Get
  <2>3. SetColor(WordOf(v, l, n, c), k)
            = WordOf(v, l, n, c) - Get(WordOf(v, l, n, c), 1, 4) + Get(TagOf(k), 1, 4)
    BY DEF SetColor, Set
  <2>4. Get(WordOf(v, l, n, c), 1, 4) = c
    BY Masks
  <2>5. SetColor(WordOf(v, l, n, c), k) = WordOf(v, l, n, c) - c + TagOf(k)
    BY <2>2, <2>3, <2>4
  <2> QED
    BY <2>1, <2>5, SMT DEF WordOf, Flags
<1>2. ASSUME NEW b \in BOOLEAN
      PROVE  SetNeedsTrace(WordOf(v, l, n, c), b) = WordOf(v, l, IF b THEN 1 ELSE 0, c)
  <2>1. SetNeedsTrace(WordOf(v, l, n, c), b)
            = WordOf(v, l, n, c) - 4 * n + IF b THEN 4 ELSE 0
    BY Masks, SMT DEF SetNeedsTrace, SetBool
  <2> QED
    BY <2>1, SMT DEF WordOf, Flags
<1>3. ASSUME NEW b \in BOOLEAN
      PROVE  SetLive(WordOf(v, l, n, c), b) = WordOf(v, IF b THEN 1 ELSE 0, n, c)
  <2>1. SetLive(WordOf(v, l, n, c), b)
            = WordOf(v, l, n, c) - 8 * l + IF b THEN 8 ELSE 0
    BY Masks, SMT DEF SetLive, SetBool
  <2> QED
    BY <2>1, SMT DEF WordOf, Flags
<1> QED
  BY <1>1, <1>2, <1>3

(* The fields that the getters read in a word.                              *)
LEMMA Getters ==
    ASSUME NEW t \in Types, NEW l \in 0..1, NEW n \in 0..1, NEW c \in 0..3
    PROVE  LET w == WordOf(Vtable[t], l, n, c) IN
           /\ w \in Words /\ w \in Nat
           /\ Untag(w) = NewHeader(t)
           /\ VtableOf(w) = t
           /\ IsLive(w) <=> l = 1
           /\ NeedsTrace(w) <=> n = 1
           /\ ColorOf(w) \in Colors
           /\ TagOf(ColorOf(w)) = c
<1> DEFINE w == WordOf(Vtable[t], l, n, c)
<1>1. Flags(Vtable[t], l, n, c)
  BY VtableAssumption DEF Flags
<1>2. /\ w \in Nat /\ Get(w, 1, 4) = c /\ Get(w, 4, 2) = 4 * n /\ Get(w, 8, 2) = 8 * l
      /\ Untag(w) = 16 * Vtable[t]
  BY <1>1, Masks
<1>3. Untag(w) = NewHeader(t)
  BY <1>2 DEF NewHeader, VtableAlign
<1>4. \A u \in Types : NewHeader(u) = NewHeader(t) => u = t
  BY VtableAssumption, SMT DEF NewHeader, VtableAlign
<1>5. VtableOf(w) = t
  BY <1>3, <1>4 DEF VtableOf
<1>6. w = NewHeader(t) + 8 * l + 4 * n + c
  BY DEF WordOf, NewHeader, VtableAlign
<1>7. (IsLive(w) <=> l = 1) /\ (NeedsTrace(w) <=> n = 1)
  BY <1>2, SMT DEF IsLive, NeedsTrace
<1>8. ColorOf(w) \in Colors /\ TagOf(ColorOf(w)) = c
  BY <1>2, SMT DEF ColorOf, TagOf, Colors
<1> QED
  BY <1>2, <1>3, <1>5, <1>6, <1>7, <1>8 DEF Words

LEMMA WordsHaveFields ==
    ASSUME NEW w \in Words
    PROVE  \E t \in Types, l \in 0..1, n \in 0..1, c \in 0..3 : w = WordOf(Vtable[t], l, n, c)
BY DEF Words, WordOf, NewHeader, VtableAlign

LEMMA ColorsHaveTags == \A k \in Colors : TagOf(k) \in 0..3
BY DEF Colors, TagOf

(* A colour is read back as it was set.                                     *)
LEMMA TagsAreUnique == \A j, k \in Colors : TagOf(j) = TagOf(k) => j = k
BY DEF Colors, TagOf

(* Setting one field of a word that belongs to a type keeps the others.     *)
LEMMA SettersKeepRecords ==
    ASSUME NEW w \in Words
    PROVE  /\ \A k \in Colors :
                 /\ SetColor(w, k) \in Words
                 /\ Untag(SetColor(w, k)) = Untag(w)
                 /\ VtableOf(SetColor(w, k)) = VtableOf(w)
                 /\ ColorOf(SetColor(w, k)) = k
                 /\ NeedsTrace(SetColor(w, k)) = NeedsTrace(w)
                 /\ IsLive(SetColor(w, k)) = IsLive(w)
           /\ /\ SetLive(w, FALSE) \in Words
              /\ Untag(SetLive(w, FALSE)) = Untag(w)
              /\ VtableOf(SetLive(w, FALSE)) = VtableOf(w)
              /\ ColorOf(SetLive(w, FALSE)) = ColorOf(w)
              /\ NeedsTrace(SetLive(w, FALSE)) = NeedsTrace(w)
              /\ IsLive(SetLive(w, FALSE)) = FALSE
<1>1. PICK t \in Types, l \in 0..1, n \in 0..1, c \in 0..3 : w = WordOf(Vtable[t], l, n, c)
  BY WordsHaveFields
<1>2. Flags(Vtable[t], l, n, c)
  BY VtableAssumption DEF Flags
<1>0. \A x \in Words : IsLive(x) \in BOOLEAN /\ NeedsTrace(x) \in BOOLEAN
  BY DEF IsLive, NeedsTrace
<1>3. ASSUME NEW k \in Colors
      PROVE  /\ SetColor(w, k) \in Words
             /\ Untag(SetColor(w, k)) = Untag(w)
             /\ VtableOf(SetColor(w, k)) = VtableOf(w)
             /\ ColorOf(SetColor(w, k)) = k
             /\ NeedsTrace(SetColor(w, k)) = NeedsTrace(w)
             /\ IsLive(SetColor(w, k)) = IsLive(w)
  <2>1. SetColor(w, k) = WordOf(Vtable[t], l, n, TagOf(k)) /\ TagOf(k) \in 0..3
    BY <1>1, <1>2, Setters, ColorsHaveTags
  <2>2. ColorOf(SetColor(w, k)) = k
    BY <2>1, Getters, TagsAreUnique
  <2> QED
    BY <1>0, <1>1, <2>1, <2>2, Getters
<1>4. /\ SetLive(w, FALSE) \in Words
      /\ Untag(SetLive(w, FALSE)) = Untag(w)
      /\ VtableOf(SetLive(w, FALSE)) = VtableOf(w)
      /\ ColorOf(SetLive(w, FALSE)) = ColorOf(w)
      /\ NeedsTrace(SetLive(w, FALSE)) = NeedsTrace(w)
      /\ IsLive(SetLive(w, FALSE)) = FALSE
  <2>0. SetLive(WordOf(Vtable[t], l, n, c), FALSE) = WordOf(Vtable[t], 0, n, c)
    <3>1. \A b \in BOOLEAN : SetLive(WordOf(Vtable[t], l, n, c), b)
                              = WordOf(Vtable[t], IF b THEN 1 ELSE 0, n, c)
      BY <1>2, Setters
    <3>2. SetLive(WordOf(Vtable[t], l, n, c), FALSE) = WordOf(Vtable[t], IF FALSE THEN 1 ELSE 0, n, c)
      BY <3>1, Zenon
    <3> QED
      BY <3>2, Zenon
  <2>1. SetLive(w, FALSE) = WordOf(Vtable[t], 0, n, c)
    BY <1>1, <2>0
  <2> DEFINE u == WordOf(Vtable[t], 0, n, c)
  <2>2. /\ u \in Words /\ Untag(u) = NewHeader(t) /\ VtableOf(u) = t
        /\ ~IsLive(u) /\ (NeedsTrace(u) <=> n = 1)
        /\ ColorOf(u) \in Colors /\ TagOf(ColorOf(u)) = c
    BY Getters
  <2>3. /\ Untag(w) = NewHeader(t) /\ VtableOf(w) = t /\ (NeedsTrace(w) <=> n = 1)
        /\ ColorOf(w) \in Colors /\ TagOf(ColorOf(w)) = c
    BY <1>1, Getters
  <2>4. ColorOf(u) = ColorOf(w)
    BY <2>2, <2>3, TagsAreUnique
  <2> QED
    BY <1>0, <2>1, <2>2, <2>3, <2>4
<1> QED
  BY <1>3, <1>4

(* The word that Context::allocate puts together.                           *)
LEMMA NewWord ==
    ASSUME NEW t \in Types, NEW nt \in BOOLEAN
    PROVE  LET w == SetNeedsTrace(SetLive(NewHeader(t), TRUE), nt) IN
           /\ w \in Words
           /\ Untag(w) = NewHeader(t)
           /\ VtableOf(w) = t
           /\ ColorOf(w) = "White"
           /\ NeedsTrace(w) = nt
           /\ IsLive(w) = TRUE
<1> DEFINE n == IF nt THEN 1 ELSE 0
           w == WordOf(Vtable[t], 1, n, 0)
<1>1. NewHeader(t) = WordOf(Vtable[t], 0, 0, 0)
  BY VtableAssumption, SMT DEF NewHeader, VtableAlign, WordOf
<1>2. Flags(Vtable[t], 0, 0, 0) /\ Flags(Vtable[t], 1, 0, 0)
  BY VtableAssumption DEF Flags
<1>3. SetLive(NewHeader(t), TRUE) = WordOf(Vtable[t], 1, 0, 0)
  <2>1. SetLive(WordOf(Vtable[t], 0, 0, 0), TRUE) = WordOf(Vtable[t], 1, 0, 0)
    <3>1. \A b \in BOOLEAN : SetLive(WordOf(Vtable[t], 0, 0, 0), b)
                              = WordOf(Vtable[t], IF b THEN 1 ELSE 0, 0, 0)
      BY <1>2, Setters
    <3>2. SetLive(WordOf(Vtable[t], 0, 0, 0), TRUE) = WordOf(Vtable[t], IF TRUE THEN 1 ELSE 0, 0, 0)
      BY <3>1, Zenon
    <3> QED
      BY <3>2, Zenon
  <2> QED
    BY <1>1, <2>1
<1>4. SetNeedsTrace(SetLive(NewHeader(t), TRUE), nt) = w
  <2>1. SetNeedsTrace(WordOf(Vtable[t], 1, 0, 0), nt) = w
    BY <1>2, Setters
  <2> QED
    BY <1>3, <2>1
<1>5. n \in 0..1 /\ (n = 1 <=> nt)
  OBVIOUS
<1>6. /\ w \in Words /\ Untag(w) = NewHeader(t) /\ VtableOf(w) = t
      /\ NeedsTrace(w) <=> n = 1
      /\ IsLive(w) <=> 1 = 1
      /\ ColorOf(w) \in Colors /\ TagOf(ColorOf(w)) = 0
  BY <1>5, Getters
<1>7. ColorOf(w) = "White"
  BY <1>6 DEF TagOf, Colors
<1>8. IsLive(w) \in BOOLEAN /\ NeedsTrace(w) \in BOOLEAN
  BY DEF IsLive, NeedsTrace
<1> QED
  BY <1>4, <1>5, <1>6, <1>7, <1>8

-----------------------------------------------------------------------------
(* The invariant: types, own layouts, and the Gc at the header of its box.   *)
HeaderInv == HeaderTypeOK /\ DeallocFits /\ HandleAtHeader

LEMMA OffsetsAgree == \A t \in Types : HeaderOffset(t) = ValueOffset(t) /\ ValueOffset(t) \in Int
BY LayoutAssumption DEF HeaderOffset, ValueOffset, RoundUp, HeaderSize

LEMMA HeaderInvInit == HeaderInit => HeaderInv
BY DEF HeaderInit, HeaderInv, HeaderTypeOK, DeallocFits, HandleAtHeader, Allocated, Links

LEMMA HeaderInvStep == HeaderInv /\ [HeaderNext]_headerVars => HeaderInv'
<1> SUFFICES ASSUME HeaderInv, [HeaderNext]_headerVars PROVE HeaderInv'
  OBVIOUS
<1> USE DEF HeaderInv, HeaderTypeOK, DeallocFits, HandleAtHeader, Allocated
<1>0. ASSUME NEW w \in Words PROVE w \in Nat
  <2>1. PICK t \in Types, l \in 0..1, n \in 0..1, c \in 0..3 : w = WordOf(Vtable[t], l, n, c)
    BY WordsHaveFields
  <2> QED
    BY <2>1, Getters
<1>1. ASSUME NEW b \in Boxes, NEW t \in Types, NEW nt \in BOOLEAN, NEW n \in Links,
             Allocate(b, t, nt, n)
      PROVE  HeaderInv'
  <2> DEFINE w == SetNeedsTrace(SetLive(NewHeader(t), TRUE), nt)
  <2>1. w \in Words /\ Untag(w) = NewHeader(t)
    BY NewWord
  <2>2. /\ tagged' = [tagged EXCEPT ![b] = w]
        /\ allocated' = [allocated EXCEPT ![b] = BoxLayout(t)]
        /\ next' = [next EXCEPT ![b] = n]
        /\ handle' = [box |-> b, at |-> 0, type |-> t]
    BY <1>1 DEF Allocate
  <2> HIDE DEF w
  <2>3. BoxLayout(t) \in Layouts /\ BoxLayout(t) # NULL
    BY NullIsNoneAssumption DEF Layouts
  <2>4. HeaderTypeOK'
    BY <1>0, <2>1, <2>2, <2>3
  <2>5. DeallocFits'
    BY <2>1, <2>2, <2>3
  <2>6. HandleAtHeader'
    BY <2>1, <2>2, <2>3
  <2> QED
    BY <2>4, <2>5, <2>6
<1>2. ASSUME NEW b \in Boxes, NEW c \in Colors, Paint(b, c) PROVE HeaderInv'
  BY <1>0, <1>2, SettersKeepRecords DEF Paint
<1>3. ASSUME NEW b \in Boxes, NEW n \in Links, Link(b, n) PROVE HeaderInv'
  BY <1>3 DEF Link
<1>4. ASSUME NEW b \in Boxes, TraceValue(b) PROVE HeaderInv'
  BY <1>4 DEF TraceValue
<1>5. ASSUME NEW b \in Boxes, DropInPlace(b) PROVE HeaderInv'
  <2> DEFINE w == SetLive(tagged[b], FALSE)
  <2>1. tagged[b] \in Words
    BY <1>5 DEF DropInPlace
  <2>2. w \in Words /\ Untag(w) = Untag(tagged[b])
    BY <2>1, SettersKeepRecords, Zenon
  <2>3. tagged' = [tagged EXCEPT ![b] = w] /\ UNCHANGED <<next, allocated>> /\ LetGo(b)
    BY <1>5 DEF DropInPlace
  <2> HIDE DEF w
  <2> QED
    BY <1>0, <2>2, <2>3 DEF LetGo
<1>6. ASSUME NEW b \in Boxes, Dealloc(b) PROVE HeaderInv'
  <2>1. HeaderTypeOK'
    BY <1>6 DEF Dealloc, LetGo, Links
  <2>2. DeallocFits'
    BY <1>6 DEF Dealloc
  <2>3. HandleAtHeader'
    BY <1>6 DEF Dealloc, LetGo
  <2> QED
    BY <2>1, <2>2, <2>3
<1>7. ASSUME NEW t \in Types, Cast(t) PROVE HeaderInv'
  BY <1>7 DEF Cast
<1>8. CASE ThroughPtr
  BY <1>8, OffsetsAgree DEF ThroughPtr
<1>9. CASE UNCHANGED headerVars
  BY <1>9 DEF headerVars
<1> QED
  BY <1>1, <1>2, <1>3, <1>4, <1>5, <1>6, <1>7, <1>8, <1>9 DEF HeaderNext

(* The words stay the vtables of types with flags, whatever is set.         *)
THEOREM HeaderTypeCorrect == HeaderSpec => []HeaderTypeOK
<1>1. HeaderSpec => []HeaderInv
  BY HeaderInvInit, HeaderInvStep, PTL DEF HeaderSpec
<1> QED
  BY <1>1, PTL DEF HeaderInv

(* A box is deallocated with the layout it was allocated with.              *)
THEOREM LayoutsFit == HeaderSpec => []DeallocFits
<1>1. HeaderSpec => []HeaderInv
  BY HeaderInvInit, HeaderInvStep, PTL DEF HeaderSpec
<1> QED
  BY <1>1, PTL DEF HeaderInv

(* A Gc points at its box through casts, as_ptr and from_ptr, for every      *)
(* alignment.                                                              *)
THEOREM HandlesStayAtHeader == HeaderSpec => []HandleAtHeader
<1>1. HeaderSpec => []HeaderInv
  BY HeaderInvInit, HeaderInvStep, PTL DEF HeaderSpec
<1> QED
  BY <1>1, PTL DEF HeaderInv

-----------------------------------------------------------------------------
(* The word as a record.                                                    *)
LEMMA RecordsAreTyped ==
    ASSUME HeaderTypeOK, NEW b \in Boxes, Allocated(b)
    PROVE  Record(b) \in Records /\ Record(b) # NULL
<1>1. tagged[b] \in Words /\ next[b] \in Links
  BY DEF HeaderTypeOK
<1>2. PICK t \in Types, l \in 0..1, n \in 0..1, c \in 0..3 : tagged[b] = WordOf(Vtable[t], l, n, c)
  BY <1>1, WordsHaveFields
<1>3. VtableOf(tagged[b]) \in Types /\ ColorOf(tagged[b]) \in Colors
  BY <1>2, Getters
<1>4. NeedsTrace(tagged[b]) \in BOOLEAN /\ IsLive(tagged[b]) \in BOOLEAN
  BY DEF NeedsTrace, IsLive
<1> QED
  BY <1>1, <1>3, <1>4, NullIsNoneAssumption DEF Record, Records

(* A step that rewrites the word or the link of one box changes one header.  *)
LEMMA OneHeaderChanges ==
    ASSUME NEW b \in Boxes, Allocated(b)',
           \A a \in Boxes \ {b} :
               tagged'[a] = tagged[a] /\ next'[a] = next[a] /\ allocated'[a] = allocated[a]
    PROVE  HeaderOf' = [HeaderOf EXCEPT ![b] = Record(b)']
<1>1. \A a \in Boxes \ {b} : HeaderOf'[a] = HeaderOf[a]
  BY DEF HeaderOf, Allocated, Record
<1>2. HeaderOf'[b] = Record(b)'
  BY DEF HeaderOf
<1> QED
  BY <1>1, <1>2, Zenon DEF HeaderOf

LEMMA HeaderInitRefines == HeaderInit => Typed!Init
BY DEF HeaderInit, Typed!Init, HeaderOf, Allocated

LEMMA HeaderStepRefines ==
    HeaderInv /\ [HeaderNext]_headerVars => [Typed!Next]_(Typed!typedVars)
<1> SUFFICES ASSUME HeaderInv, [HeaderNext]_headerVars
             PROVE  Typed!Next \/ UNCHANGED <<HeaderOf, called>>
  BY DEF Typed!typedVars
<1>0. HeaderTypeOK
  BY DEF HeaderInv
<1>a. ASSUME NEW b \in Boxes, Allocated(b) PROVE HeaderOf[b] = Record(b) /\ HeaderOf[b] # NULL
  BY <1>0, <1>a, RecordsAreTyped DEF HeaderOf
<1>1. ASSUME NEW b \in Boxes, NEW t \in Types, NEW nt \in BOOLEAN, NEW n \in Links,
             Allocate(b, t, nt, n)
      PROVE  Typed!Alloc(b, t, nt, n)
  <2> DEFINE w == SetNeedsTrace(SetLive(NewHeader(t), TRUE), nt)
  <2>1. /\ VtableOf(w) = t /\ ColorOf(w) = "White" /\ NeedsTrace(w) = nt /\ IsLive(w) = TRUE
    BY NewWord
  <2>2. /\ tagged' = [tagged EXCEPT ![b] = w] /\ next' = [next EXCEPT ![b] = n]
        /\ allocated' = [allocated EXCEPT ![b] = BoxLayout(t)]
        /\ ~Allocated(b) /\ UNCHANGED called
    BY <1>1 DEF Allocate
  <2> HIDE DEF w
  <2>3. BoxLayout(t) # NULL
    BY NullIsNoneAssumption DEF Layouts
  <2>4. HeaderOf' = [HeaderOf EXCEPT ![b] = [type |-> t, color |-> "White", needsTrace |-> nt,
                                            live |-> TRUE, next |-> n]]
    <3>1. /\ Allocated(b)' /\ tagged'[b] = w /\ next'[b] = n
          /\ \A a \in Boxes \ {b} :
                tagged'[a] = tagged[a] /\ next'[a] = next[a] /\ allocated'[a] = allocated[a]
      BY <1>0, <2>2, <2>3 DEF HeaderTypeOK, Allocated
    <3>2. HeaderOf' = [HeaderOf EXCEPT ![b] = Record(b)']
      BY <3>1, OneHeaderChanges
    <3> QED
      BY <2>1, <3>1, <3>2 DEF Record
  <2>5. HeaderOf[b] = NULL
    BY <2>2 DEF HeaderOf
  <2> QED
    BY <2>2, <2>4, <2>5, Zenon DEF Typed!Alloc
<1>2. ASSUME NEW b \in Boxes, NEW c \in Colors, Paint(b, c) PROVE Typed!Paint(b, c)
  <2> DEFINE w == SetColor(tagged[b], c)
  <2>1. /\ Allocated(b) /\ UNCHANGED <<next, allocated, called>>
        /\ tagged' = [tagged EXCEPT ![b] = w]
    BY <1>2 DEF Paint
  <2>2. tagged[b] \in Words
    BY <1>0, <2>1 DEF HeaderTypeOK
  <2>3. /\ VtableOf(w) = VtableOf(tagged[b]) /\ ColorOf(w) = c
        /\ NeedsTrace(w) = NeedsTrace(tagged[b]) /\ IsLive(w) = IsLive(tagged[b])
    BY <2>2, SettersKeepRecords
  <2> HIDE DEF w
  <2>5. HeaderOf' = [HeaderOf EXCEPT ![b] = [Record(b) EXCEPT !.color = c]]
    <3>1. /\ Allocated(b)' /\ tagged'[b] = w /\ next'[b] = next[b]
          /\ \A a \in Boxes \ {b} :
                tagged'[a] = tagged[a] /\ next'[a] = next[a] /\ allocated'[a] = allocated[a]
      BY <1>0, <2>1 DEF HeaderTypeOK, Allocated
    <3>2. HeaderOf' = [HeaderOf EXCEPT ![b] = Record(b)']
      BY <3>1, OneHeaderChanges
    <3>3. Record(b)' = [Record(b) EXCEPT !.color = c]
      BY <2>3, <3>1 DEF Record
    <3> QED
      BY <3>2, <3>3
  <2> QED
    BY <1>a, <2>1, <2>5 DEF Typed!Paint
<1>3. ASSUME NEW b \in Boxes, NEW n \in Links, Link(b, n) PROVE Typed!Link(b, n)
  <2>1. /\ Allocated(b) /\ UNCHANGED <<tagged, allocated, called>>
        /\ next' = [next EXCEPT ![b] = n]
    BY <1>3 DEF Link
  <2>3. HeaderOf' = [HeaderOf EXCEPT ![b] = [Record(b) EXCEPT !.next = n]]
    <3>1. /\ Allocated(b)' /\ tagged'[b] = tagged[b] /\ next'[b] = n
          /\ \A a \in Boxes \ {b} :
                tagged'[a] = tagged[a] /\ next'[a] = next[a] /\ allocated'[a] = allocated[a]
      BY <1>0, <2>1 DEF HeaderTypeOK, Allocated
    <3>2. HeaderOf' = [HeaderOf EXCEPT ![b] = Record(b)']
      BY <3>1, OneHeaderChanges
    <3>3. Record(b)' = [Record(b) EXCEPT !.next = n]
      BY <3>1 DEF Record
    <3> QED
      BY <3>2, <3>3
  <2> QED
    BY <1>a, <2>1, <2>3 DEF Typed!Link
<1>b. ASSUME UNCHANGED <<tagged, next, allocated>> PROVE UNCHANGED HeaderOf
  BY <1>b DEF HeaderOf, Allocated, Record
<1>4. ASSUME NEW b \in Boxes, TraceValue(b) PROVE Typed!Trace(b)
  <2>1. HeaderOf[b] = Record(b) /\ HeaderOf[b] # NULL /\ UNCHANGED HeaderOf
    BY <1>4, <1>a, <1>b DEF TraceValue
  <2> QED
    BY <1>4, <2>1 DEF TraceValue, CallThrough, Record, Typed!Trace, Typed!Call
<1>5. ASSUME NEW b \in Boxes, DropInPlace(b) PROVE Typed!Shell(b)
  <2> DEFINE w == SetLive(tagged[b], FALSE)
  <2>1. /\ Allocated(b) /\ UNCHANGED <<next, allocated>> /\ IsLive(tagged[b])
        /\ tagged' = [tagged EXCEPT ![b] = w]
        /\ called' = [function |-> "drop", type |-> VtableOf(tagged[b])]
    BY <1>5 DEF DropInPlace, CallThrough
  <2>2. tagged[b] \in Words
    BY <1>0, <2>1 DEF HeaderTypeOK
  <2>3. /\ VtableOf(w) = VtableOf(tagged[b]) /\ ColorOf(w) = ColorOf(tagged[b])
        /\ NeedsTrace(w) = NeedsTrace(tagged[b]) /\ IsLive(w) = FALSE
    BY <2>2, SettersKeepRecords, Zenon
  <2> HIDE DEF w
  <2>5. HeaderOf' = [HeaderOf EXCEPT ![b] = [Record(b) EXCEPT !.live = FALSE]]
    <3>1. /\ Allocated(b)' /\ tagged'[b] = w /\ next'[b] = next[b]
          /\ \A a \in Boxes \ {b} :
                tagged'[a] = tagged[a] /\ next'[a] = next[a] /\ allocated'[a] = allocated[a]
      BY <1>0, <2>1 DEF HeaderTypeOK, Allocated
    <3>2. HeaderOf' = [HeaderOf EXCEPT ![b] = Record(b)']
      BY <3>1, OneHeaderChanges
    <3>a. /\ VtableOf(tagged'[b]) = VtableOf(tagged[b]) /\ ColorOf(tagged'[b]) = ColorOf(tagged[b])
          /\ NeedsTrace(tagged'[b]) = NeedsTrace(tagged[b]) /\ IsLive(tagged'[b]) = FALSE
      BY <2>3, <3>1, Zenon
    <3>3. Record(b)' = [Record(b) EXCEPT !.live = FALSE]
      <4> DEFINE r == [type |-> VtableOf(tagged[b]), color |-> ColorOf(tagged[b]),
                       needsTrace |-> NeedsTrace(tagged[b]), live |-> FALSE, next |-> next[b]]
      <4>1. Record(b)' = r
        BY <3>1, <3>a, Zenon DEF Record
      <4>2. ASSUME NEW l
            PROVE  [Record(b) EXCEPT !.live = l] =
                       [type |-> VtableOf(tagged[b]), color |-> ColorOf(tagged[b]),
                        needsTrace |-> NeedsTrace(tagged[b]), live |-> l, next |-> next[b]]
        BY DEF Record
      <4>3. [Record(b) EXCEPT !.live = FALSE] = r
        BY <4>2, Zenon
      <4> QED
        BY <4>1, <4>3
    <3> QED
      BY <3>2, <3>3
  <2>6. HeaderOf[b] = Record(b) /\ HeaderOf[b] # NULL
    BY <1>a, <2>1
  <2> QED
    BY <2>1, <2>5, <2>6 DEF Record, Typed!Shell, Typed!Call
<1>6. ASSUME NEW b \in Boxes, Dealloc(b) PROVE Typed!Free(b)
  <2>1. HeaderOf[b] = Record(b) /\ HeaderOf[b] # NULL
    BY <1>6, <1>a DEF Dealloc
  <2>2. \A a \in Boxes \ {b} : HeaderOf'[a] = HeaderOf[a]
    BY <1>0, <1>6 DEF Dealloc, HeaderOf, Allocated, Record, HeaderTypeOK
  <2>3. HeaderOf'[b] = NULL
    BY <1>0, <1>6 DEF Dealloc, HeaderOf, Allocated, HeaderTypeOK
  <2>4. HeaderOf' = [HeaderOf EXCEPT ![b] = NULL]
    BY <2>2, <2>3, Zenon DEF HeaderOf
  <2> QED
    BY <1>6, <2>1, <2>4 DEF Dealloc, CallThrough, Record, Typed!Free, Typed!Call
<1>7. ASSUME NEW t \in Types, Cast(t) PROVE UNCHANGED <<HeaderOf, called>>
  BY <1>7, <1>b DEF Cast
<1>8. ASSUME ThroughPtr PROVE UNCHANGED <<HeaderOf, called>>
  BY <1>8, <1>b DEF ThroughPtr
<1>9. ASSUME UNCHANGED headerVars PROVE UNCHANGED <<HeaderOf, called>>
  BY <1>9, <1>b DEF headerVars
<1> QED
  BY <1>1, <1>2, <1>3, <1>4, <1>5, <1>6, <1>7, <1>8, <1>9
     DEF HeaderNext, Typed!Next, Typed!Links, Typed!Colors, Links, Colors

(* Two words implement the header: a record of a type, a colour, two flags   *)
(* and a link, each of which changes only when it is set.                   *)
THEOREM PackingIsFaithful == HeaderSpec => ImplementsHeader
<1>1. HeaderSpec => []HeaderInv
  BY HeaderInvInit, HeaderInvStep, PTL DEF HeaderSpec
<1> QED
  BY <1>1, HeaderInitRefines, HeaderStepRefines, PTL DEF HeaderSpec, ImplementsHeader, Typed!Spec
=============================================================================
