----------------------------- MODULE ClassLists -----------------------------
(***************************************************************************)
(* The equivalence classes netcmp keeps of the elements and of the nets,    *)
(* and the operations that fracture them (MakeElist / MakeNlist,            *)
(* FractureElementClass / FractureNodeClass in base/netcmp.c).  The code    *)
(* has each of them twice, once for elements and once for nets; they are    *)
(* the same and stated once here.                                           *)
(*                                                                          *)
(* A list L is a record of                                                  *)
(*   classes  the classes, each with its members and its legalpartition     *)
(*            flag (count is the number of members)                         *)
(*   hash     the hash values, each as the set of the members that have it  *)
(*   old      OldNumberOfEclasses or OldNumberOfNclasses                    *)
(*                                                                          *)
(* Members have equal hash values exactly when the data hashed is equal,    *)
(* and the magic number of a class, drawn anew for every class on every     *)
(* iteration, stands for nothing but the identity of the class.  Both       *)
(* idealise away collisions of random numbers and of their sums.            *)
(***************************************************************************)
EXTENDS Netlists

EmptyList == [classes |-> {}, hash |-> {}, old |-> 0]

Class(S, legal) == [members |-> S, legal |-> legal]

Members(L) == UNION {C.members : C \in L.classes}

Partition(L) == {C.members : C \in L.classes}

ClassOf(L, x) == CHOOSE S \in Partition(L) : x \in S

HashOf(L, x) == CHOOSE h \in L.hash : x \in h

Count(S, c) == Cardinality(In(S, c))

Balanced(S) == Count(S, 1) = Count(S, 2)

OneToOne(S) == Count(S, 1) = 1 /\ Count(S, 2) = 1

\* The hash values of members whose data are key[x].
Hashed(key) == {{y \in DOMAIN key : key[y] = key[x]} : x \in DOMAIN key}

\* One class of all members, about to be fractured for the first time.
InitialList(key) ==
  [classes |-> {Class(DOMAIN key, TRUE)}, hash |-> Hashed(key), old |-> 0]

(***************************************************************************)
(* MakeElist puts the members of a class with equal hash values into a      *)
(* class of their own.  The groups that do not have as many members from    *)
(* either circuit are regrouped into a single class, which is illegal, and  *)
(* BadMatchDetected is set.                                                 *)
(***************************************************************************)
Groups(S, hash) == {S \cap h : h \in hash} \ {{}}

IllegalGroups(S, hash) == {g \in Groups(S, hash) : ~Balanced(g)}

\* Mutant of MakeList: the illegal groups are dropped, not regrouped.
MakeListDropping(S, hash) ==
  {Class(g, TRUE) : g \in Groups(S, hash) \ IllegalGroups(S, hash)}

MakeList(S, hash) ==
  LET illegal == IllegalGroups(S, hash)
  IN  {Class(g, TRUE) : g \in Groups(S, hash) \ illegal}
        \cup (IF illegal = {} THEN {} ELSE {Class(UNION illegal, FALSE)})

(***************************************************************************)
(* FractureElementClass fractures every class that has not exactly two      *)
(* members, or every class under exhaustive subdivision, and counts the     *)
(* classes.  (The count field of the first, all-embracing class is zero,    *)
(* so that it is always fractured.)                                         *)
(***************************************************************************)
\* Mutant of Fractured: classes of two members never are.
FracturedMany(L, exhaustive) == {C \in L.classes : Cardinality(C.members) # 2}

Fractured(L, exhaustive) ==
  {C \in L.classes : exhaustive \/ Cardinality(C.members) # 2}

FracturedClasses(L, exhaustive) ==
  (L.classes \ Fractured(L, exhaustive))
    \cup UNION {MakeList(C.members, L.hash) : C \in Fractured(L, exhaustive)}

Fracture(L, exhaustive) ==
  LET classes == FracturedClasses(L, exhaustive)
  IN  [classes |-> classes, hash |-> L.hash, old |-> Cardinality(classes)]

\* Mutant of Mismatch: classes of two members are not looked at.
MismatchOfMany(L, exhaustive) ==
  \E C \in L.classes :
    Cardinality(C.members) # 2 /\ IllegalGroups(C.members, L.hash) # {}

Mismatch(L, exhaustive) ==
  \E C \in Fractured(L, exhaustive) : IllegalGroups(C.members, L.hash) # {}

\* Iterate gives the members new hash values and marks the classes of two
\* members of the same circuit, which may not be fractured again.
Marked(C) ==
  IF Cardinality(C.members) = 2 /\ ~Balanced(C.members)
    THEN Class(C.members, FALSE) ELSE C

Rehash(L, key) ==
  [classes |-> {Marked(C) : C \in L.classes}, hash |-> Hashed(key), old |-> L.old]

(***************************************************************************)
(* EquivalenceElements gives a and b, members of class C, one hash value    *)
(* and the other members of C another, and makes C alone into new classes.  *)
(***************************************************************************)
EquatedHash(C, a, b) == {{a, b}, C.members \ {a, b}}

Equate(L, C, a, b) ==
  [classes |-> (L.classes \ {C}) \cup MakeList(C.members, EquatedHash(C, a, b)),
   hash    |-> ({h \ C.members : h \in L.hash} \cup EquatedHash(C, a, b)) \ {{}},
   old     |-> L.old]

(***************************************************************************)
(* The type of a list: the classes partition the members, and so do the     *)
(* hash values.                                                             *)
(***************************************************************************)
IsPartition(P, X) ==
  /\ UNION P = X
  /\ {} \notin P
  /\ \A S, T \in P : S \cap T # {} => S = T

ClassesOK(classes, X) ==
  /\ classes \subseteq [members : SUBSET X, legal : BOOLEAN]
  /\ UNION {C.members : C \in classes} = X
  /\ \A C \in classes : C.members # {}
  /\ \A C, D \in classes : C.members \cap D.members # {} => C = D

ListOK(L, X) ==
  /\ L = [classes |-> L.classes, hash |-> L.hash, old |-> L.old]
  /\ ClassesOK(L.classes, X)
  /\ IsPartition(L.hash, X)
  /\ L.old \in Nat
=============================================================================
