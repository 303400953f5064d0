-------------------------- MODULE ArrayListsProofs --------------------------
(* What the halves of the ArrayList operations return.                      *)
EXTENDS ArrayLists, WellFoundedInduction, TLAPS

\* The size of a list is an integer; where it is not negative the list is a
\* sequence, and its size is its length.
LEMMA SizeType ==
  ASSUME NEW S, NEW l \in ListOf(S)
  PROVE  /\ Size(l) \in Int
         /\ l \in Seq(S) => Size(l) = Len(l) /\ Len(l) \in Nat
         /\ Size(l) >= 0 => l \in Seq(S)
         /\ Size(l) = 0 <=> l = <<>>
<1>1. CASE l \in Seq(S)
  <2>1. DOMAIN l = 1..Len(l) /\ Len(l) \in Nat
    BY <1>1
  <2>2. 0 \notin DOMAIN l
    BY <2>1
  <2>. QED  BY <1>1, <2>1, <2>2 DEF Size
<1>2. CASE l \in [{0} -> {n \in Int : n < 0}]
  <2>1. DOMAIN l = {0} /\ l[0] \in Int /\ l[0] < 0
    BY <1>2
  <2>2. Size(l) = l[0]
    BY <2>1 DEF Size
  <2>3. l # <<>>
    <3>1. DOMAIN <<>> = {}
      OBVIOUS
    <3>. QED  BY <2>1, <3>1
  <2>4. l \notin Seq(S)
    <3>1. SUFFICES ASSUME l \in Seq(S) PROVE FALSE
      OBVIOUS
    <3>2. DOMAIN l = 1..Len(l)
      BY <3>1
    <3>3. 0 \in 1..Len(l)
      BY <2>1, <3>2
    <3>. QED  BY <3>3
  <2>. QED  BY <2>1, <2>2, <2>3, <2>4
<1>. QED  BY <1>1, <1>2 DEF ListOf

\* The same for a list that is known to be a sequence.
LEMMA SizeIsLen ==
  ASSUME NEW S, NEW l \in Seq(S)
  PROVE  Size(l) = Len(l) /\ Len(l) \in Nat /\ l \in ListOf(S)
BY SizeType DEF ListOf

\* The slots of a list hold what the list is made of.
LEMMA SlotType ==
  ASSUME NEW S, NEW l \in ListOf(S), NEW i \in 1..Size(l)
  PROVE  l[i] \in S
<1>1. Size(l) \in Int /\ Size(l) >= 0
  BY SizeType
<1>2. l \in Seq(S)
  BY <1>1, SizeType
<1>3. Size(l) = Len(l)
  BY <1>2, SizeIsLen
<1>. QED  BY <1>2, <1>3

LEMMA EmptyList ==
  ASSUME NEW S
  PROVE  <<>> \in ListOf(S) /\ Size(<<>>) = 0
<1>1. <<>> \in Seq(S) /\ Len(<<>>) = 0
  OBVIOUS
<1>. QED  BY <1>1, SizeIsLen

\* A list of no positive size is a list.
LEMMA VacantType ==
  ASSUME NEW S, NEW n \in Int, n <= 0
  PROVE  Vacant(n) \in ListOf(S)
<1>1. CASE n = 0
  <2>1. <<>> \in Seq(S)
    OBVIOUS
  <2>. QED  BY <1>1, <2>1 DEF Vacant, ListOf
<1>2. CASE n # 0
  <2>1. [k \in {0} |-> n] \in [{0} -> {m \in Int : m < 0}]
    BY <1>2
  <2>. QED  BY <1>2, <2>1 DEF Vacant, ListOf
<1>. QED  BY <1>1, <1>2

\* add stores an element and leaves a list of one more slot than it had read.
LEMMA StoreAtType ==
  ASSUME NEW S, NEW l \in Seq(S \cup {Null}), NEW n \in Nat, NEW e \in S
  PROVE  /\ StoreAt(l, n, e) \in Seq(S \cup {Null})
         /\ StoreAt(l, n, e) # <<>>
<1>0. Size(l) = Len(l) /\ Len(l) \in Nat /\ ~(n < 0)
  BY SizeIsLen
<1>1. StoreAt(l, n, e) \in [1..(n + 1) -> S \cup {Null}] /\ n + 1 \in Nat
  BY <1>0 DEF StoreAt
<1>2. StoreAt(l, n, e) \in Seq(S \cup {Null}) /\ Len(StoreAt(l, n, e)) = n + 1
  BY <1>1
<1>. QED  BY <1>2

\* Whatever size add has read, and whatever has become of the list since, it
\* leaves a list.
LEMMA StoreAtList ==
  ASSUME NEW S, NEW l \in ListOf(S \cup {Null}), NEW n \in Int, NEW e \in S
  PROVE  StoreAt(l, n, e) \in ListOf(S \cup {Null})
<1>1. CASE n < 0
  <2>1. n + 1 \in Int /\ n + 1 <= 0
    BY <1>1
  <2>2. Vacant(n + 1) \in ListOf(S \cup {Null})
    BY <2>1, VacantType
  <2>. QED  BY <1>1, <2>2 DEF StoreAt
<1>2. CASE ~(n < 0)
  <2>1. \A k \in 1..(n + 1) : k <= Size(l) => l[k] \in S \cup {Null}
    <3> SUFFICES ASSUME NEW k \in 1..(n + 1), k <= Size(l)
                 PROVE  l[k] \in S \cup {Null}
      OBVIOUS
    <3>1. Size(l) \in Int /\ Size(l) >= 0
      BY SizeType
    <3>2. l \in Seq(S \cup {Null})
      BY <3>1, SizeType
    <3>3. Size(l) = Len(l) /\ Len(l) \in Nat
      BY <3>2, SizeIsLen
    <3>. QED  BY <3>2, <3>3
  <2>2. StoreAt(l, n, e) \in [1..(n + 1) -> S \cup {Null}] /\ n + 1 \in Nat
    BY <1>2, <2>1 DEF StoreAt
  <2>3. StoreAt(l, n, e) \in Seq(S \cup {Null})
    BY <2>2
  <2>. QED  BY <2>3 DEF ListOf
<1>. QED  BY <1>1, <1>2

\* The element is in the last slot of that list.
LEMMA StoreAtLast ==
  ASSUME NEW S, NEW l \in ListOf(S \cup {Null}), NEW n \in Int, ~(n < 0), NEW e \in S
  PROVE  /\ Size(StoreAt(l, n, e)) = n + 1 /\ StoreAt(l, n, e)[n + 1] = e
         /\ n + 1 \in 1..(n + 1)
<1>1. n + 1 \in 1..(n + 1) /\ n + 1 \in Nat
  OBVIOUS
<1>2. DOMAIN StoreAt(l, n, e) = 1..(n + 1) /\ StoreAt(l, n, e)[n + 1] = e
  BY <1>1 DEF StoreAt
<1>3. Len(StoreAt(l, n, e)) = n + 1
  BY <1>1, <1>2
<1>4. Size(StoreAt(l, n, e)) = n + 1
  <2>1. 0 \notin DOMAIN StoreAt(l, n, e)
    BY <1>2
  <2>. QED  BY <1>3, <2>1 DEF Size
<1>. QED  BY <1>1, <1>2, <1>4

\* The shift of remove keeps the elements of the list in the list.
LEMMA ShiftFromType ==
  ASSUME NEW S, NEW l \in Seq(S), l # <<>>, NEW i \in Int
  PROVE  ShiftFrom(l, i) \in Seq(S)
<1>1. Size(l) = Len(l) /\ Len(l) \in Nat /\ Len(l) # 0
  BY SizeIsLen
<1>2. ~(Size(l) <= 0) /\ Len(l) - 1 \in Nat
  BY <1>1
<1>3. \A k \in 1..(Len(l) - 1) : k \in 1..Len(l) /\ k + 1 \in 1..Len(l)
  BY <1>1
<1>. QED  BY <1>1, <1>2, <1>3 DEF ShiftFrom

\* It leaves a list of a smaller size also where nothing is left to remove.
LEMMA ShiftFromList ==
  ASSUME NEW S, NEW l \in ListOf(S), NEW i \in Int
  PROVE  ShiftFrom(l, i) \in ListOf(S)
<1>1. Size(l) \in Int
  BY SizeType
<1>2. CASE Size(l) <= 0
  <2>1. Vacant(Size(l) - 1) \in ListOf(S)
    BY <1>1, <1>2, VacantType
  <2>. QED  BY <1>2, <2>1 DEF ShiftFrom
<1>3. CASE ~(Size(l) <= 0)
  <2>1. l \in Seq(S) /\ l # <<>>
    BY <1>1, <1>3, SizeType
  <2>2. ShiftFrom(l, i) \in Seq(S)
    BY <2>1, ShiftFromType
  <2>. QED  BY <2>2 DEF ListOf
<1>. QED  BY <1>2, <1>3

\* indexOf returns the first position of e, or 0 when there is none.
LEMMA IndexOfList ==
  ASSUME NEW S, NEW l \in ListOf(S), NEW e
  PROVE  /\ IndexOf(l, e) \in Nat
         /\ IndexOf(l, e) = 0 => \A i \in 1..Size(l) : l[i] # e
         /\ IndexOf(l, e) # 0 => IndexOf(l, e) \in 1..Size(l) /\ l[IndexOf(l, e)] = e
<1> DEFINE T == {i \in 1..Size(l) : l[i] = e}
           R == {p \in Nat \X Nat : p[1] < p[2]}
<1>0. Size(l) \in Int
  BY SizeType
<1>1. CASE T = {}
  BY <1>1 DEF IndexOf
<1>2. CASE T # {}
  <2>1. IsWellFoundedOn(R, Nat)
    BY NatLessThanWellFounded DEF OpToRel
  <2>2. PICK m \in T : \A j \in T : <<j, m>> \notin R
    <3>1. T \subseteq Nat
      BY <1>0
    <3>. HIDE DEF T, R
    <3>. QED  BY <1>2, <2>1, <3>1, WFMin
  <2>3. m \in 1..Size(l) /\ l[m] = e /\ \A j \in 1..(m - 1) : l[j] # e
    <3>1. ASSUME NEW j \in 1..(m - 1), l[j] = e PROVE FALSE
      <4>1. j \in T /\ j < m /\ j \in Nat /\ m \in Nat
        BY <1>0, <3>1
      <4>. QED  BY <4>1, <2>2
    <3>. QED  BY <3>1
  <2>4. IndexOf(l, e) \in 1..Size(l) /\ l[IndexOf(l, e)] = e
    BY <2>3 DEF IndexOf
  <2>. QED  BY <1>0, <2>4
<1>. QED  BY <1>1, <1>2

\* The same for a sequence.
LEMMA IndexOfType ==
  ASSUME NEW S, NEW l \in Seq(S), NEW e
  PROVE  /\ IndexOf(l, e) \in 0..Len(l)
         /\ IndexOf(l, e) = 0 => \A i \in 1..Len(l) : l[i] # e
         /\ IndexOf(l, e) # 0 => l # <<>> /\ l[IndexOf(l, e)] = e
<1>1. l \in ListOf(S) /\ Size(l) = Len(l) /\ Len(l) \in Nat
  BY SizeIsLen
<1>2. /\ IndexOf(l, e) \in Nat
      /\ IndexOf(l, e) = 0 => \A i \in 1..Len(l) : l[i] # e
      /\ IndexOf(l, e) # 0 => IndexOf(l, e) \in 1..Len(l) /\ l[IndexOf(l, e)] = e
  BY <1>1, IndexOfList
<1>3. IndexOf(l, e) # 0 => l # <<>>
  <2>1. l = <<>> => Len(l) = 0
    OBVIOUS
  <2>. QED  BY <1>1, <1>2, <2>1
<1>. QED  BY <1>1, <1>2, <1>3

\* A list with one element: finding it, taking it off, and adding it again.
LEMMA OneElement ==
  ASSUME NEW e
  PROVE  /\ Size(<<e>>) = 1
         /\ IndexOf(<<e>>, e) = 1
         /\ ShiftFrom(<<e>>, 1) = <<>>
         /\ StoreAt(<<>>, 0, e) = <<e>>
<1>0. <<e>> \in Seq({e}) /\ Len(<<e>>) = 1
  OBVIOUS
<1>1. Size(<<e>>) = 1
  BY <1>0, SizeIsLen
<1>2. IndexOf(<<e>>, e) = 1
  <2>1. \A i \in 1..1 : i = 1
    OBVIOUS
  <2>2. 1 \in 1..1 /\ <<e>>[1] = e /\ \A j \in 1..(1 - 1) : <<e>>[j] # e
    OBVIOUS
  <2>. QED  BY <1>1, <2>1, <2>2 DEF IndexOf
<1>3. ShiftFrom(<<e>>, 1) = <<>>
  BY <1>1 DEF ShiftFrom
<1>4. StoreAt(<<>>, 0, e) = <<e>>
  BY EmptyList DEF StoreAt
<1>. QED  BY <1>1, <1>2, <1>3, <1>4
=============================================================================
