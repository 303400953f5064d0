----------------------------- MODULE ArrayLists -----------------------------
(***************************************************************************)
(* java.util.ArrayList as jbus uses it: an unsynchronised list that        *)
(* several threads share.  A call is not atomic.  add(e) reads the size    *)
(* and then stores the element and the new size; remove(e) looks for the   *)
(* index and then shifts the tail.  Each of the two halves is one operator *)
(* here, so that a step of another thread can fall between them.           *)
(*                                                                         *)
(* A list is the sequence of its first `size' slots.  A slot that no       *)
(* thread has filled holds Null, as does a slot that remove has cleared.   *)
(* Positions count from 1; position 0 says that nothing was found.         *)
(*                                                                         *)
(* Two threads that remove from one list can take its size below zero:     *)
(* elementData[--size] = null stores the size before it throws.  Such a    *)
(* list has no elements, and is not empty either, since isEmpty() asks     *)
(* whether the size is 0.  It is kept as the function 0 |-> size.          *)
(***************************************************************************)
EXTENDS Integers, Sequences

CONSTANT Null

\* The lists over S, those of a negative size included.
ListOf(S) == [{0} -> {n \in Int : n < 0}] \cup Seq(S)

\* size().
Size(l) == IF 0 \in DOMAIN l THEN l[0] ELSE Len(l)

\* The list of size n, which is not positive.
Vacant(n) == IF n = 0 THEN <<>> ELSE [k \in {0} |-> n]

\* indexOf: the first position of e, or 0.
IndexOf(l, e) ==
  IF \E i \in 1..Size(l) : l[i] = e
  THEN CHOOSE i \in 1..Size(l) : l[i] = e /\ \A j \in 1..(i - 1) : l[j] # e
  ELSE 0

\* The second half of add(e): elementData[size++] = e, where n is the size the
\* first half read.  Slots the list has given up since are empty, and elements
\* stored behind n + 1 since are lost.  There is no slot n when n is negative:
\* the size has grown by then, and the caller gets an exception.
StoreAt(l, n, e) ==
  IF n < 0 THEN Vacant(n + 1)
  ELSE [k \in 1..(n + 1) |-> IF k = n + 1 THEN e
                             ELSE IF k <= Size(l) THEN l[k] ELSE Null]

\* The second half of remove(e): the tail behind position i moves one slot to
\* the left and the size shrinks by one.  When i has fallen behind the end,
\* nothing moves and the last slot is dropped all the same.  When there is no
\* slot left the size has shrunk, and the caller gets an exception.
ShiftFrom(l, i) ==
  IF Size(l) <= 0 THEN Vacant(Size(l) - 1)
  ELSE [k \in 1..(Size(l) - 1) |-> IF k < i THEN l[k] ELSE l[k + 1]]
=============================================================================
