------------------------- MODULE ClassTablesProofs -------------------------
(***************************************************************************)
(* Proofs about ClassTables, for every finite set of classes and           *)
(* interfaces and every order the passes may take them in: the tables keep *)
(* their types, what is declared once at a position of a virtual table     *)
(* keeps its signature in every class below, the fields of an object are   *)
(* apart and its references known, its destructors run from its class      *)
(* upwards, and every call runs the method the class of the object         *)
(* promises.                                                               *)
(***************************************************************************)
EXTENDS ClassTables, FiniteSetTheorems, SequenceTheorems, WellFoundedInduction, TLAPS

(* What an activation is to do: an interface takes over the methods of those
   it extends; a class takes over the table of its base first. *)
Declarations(c) == {Declare(Method(c, i)) : i \in DOMAIN program[c].methods}
Extending == [op : {"inherit"}, from : Interfaces]
Later(c) ==
  Declarations(c) \cup [op : {"interface"}, interface : Interfaces]
  \cup [op : {"implement"}, interface : Interfaces, index : Nat]

TodoOK(c, todo) ==
  IF c \in Interfaces THEN todo \in Seq(Extending \cup Declarations(c))
  ELSE \/ todo \in Seq(Later(c))
       \/ /\ program[c].base # None /\ todo # <<>> /\ Head(todo) = Inherits(program[c].base)
          /\ Tail(todo) \in Seq(Later(c))

(* Induction, on what a set contains. *)
LEMMA Induction ==
  ASSUME NEW S, 0 \in S, \A n \in Nat : n \in S => n + 1 \in S
  PROVE  \A n \in Nat : n \in S
<1> SUFFICES ASSUME NEW b \in Nat, b \notin S PROVE FALSE
  OBVIOUS
<1> DEFINE R == {ss \in Nat \X Nat : ss[1] < ss[2]}
           N == {n \in Nat : n \notin S}
<1>1. IsWellFoundedOn(R, Nat)
  BY NatLessThanWellFounded DEF OpToRel
<1>2. \A x \in Nat, y \in Nat : <<y, x>> \notin R => x <= y
  OBVIOUS
<1>3. N \in SUBSET Nat /\ N # {}
  OBVIOUS
<1> HIDE DEF R
<1>4. PICK x \in N : \A y \in N : <<y, x>> \notin R
  BY <1>1, <1>3, WFMin
<1>5. x \in Nat /\ x \notin S /\ x # 0
  BY <1>4
<1>6. x - 1 \in Nat /\ (x - 1) + 1 = x
  BY <1>5
<1>7. x - 1 \in N
  BY <1>5, <1>6
<1>8. x <= x - 1
  BY <1>2, <1>4, <1>5, <1>6, <1>7
<1> QED
  BY <1>5, <1>8

(* A set of numbers has a least one. *)
LEMMA Least ==
  ASSUME NEW N \in SUBSET Nat, N # {}
  PROVE  \E x \in N : \A y \in N : x <= y
<1> DEFINE R == {ss \in Nat \X Nat : ss[1] < ss[2]}
<1>1. IsWellFoundedOn(R, Nat)
  BY NatLessThanWellFounded DEF OpToRel
<1>2. \A x \in Nat, y \in Nat : <<y, x>> \notin R => x <= y
  OBVIOUS
<1> HIDE DEF R
<1>3. PICK x \in N : \A y \in N : <<y, x>> \notin R
  BY <1>1, WFMin
<1> QED
  BY <1>2, <1>3

(* A function repeated n times. *)
Repeats(f, X, x0, step) ==
  f \in [Nat -> X] /\ f[0] = x0 /\ \A n \in Nat : f[n + 1] = step[f[n]]

LEMMA Iterated ==
  ASSUME NEW X, NEW x0 \in X, NEW step \in [X -> X]
  PROVE  \E f : Repeats(f, X, x0, step)
<1> DEFINE Steps(g, m) == g[0] = x0 /\ \A i \in 0 .. m : i # 0 => g[i] = step[g[i - 1]]
           Built(m) == \E g \in [0 .. m -> X] : Steps(g, m)
           S == {m \in Nat : Built(m)}
<1>1. 0 \in S
  <2> DEFINE g == [i \in 0 .. 0 |-> x0]
  <2>1. g \in [0 .. 0 -> X] /\ Steps(g, 0)
    OBVIOUS
  <2> QED
    BY <2>1
<1>2. ASSUME NEW n \in Nat, n \in S PROVE n + 1 \in S
  <2>1. PICK g \in [0 .. n -> X] : Steps(g, n)
    BY <1>2
  <2> DEFINE h == [i \in 0 .. n + 1 |-> IF i = n + 1 THEN step[g[n]] ELSE g[i]]
  <2>2. n \in 0 .. n /\ g[n] \in X /\ step[g[n]] \in X
    OBVIOUS
  <2>3. \A i \in 0 .. n + 1 : i # n + 1 => i \in 0 .. n /\ g[i] \in X
    OBVIOUS
  <2>4. h \in [0 .. n + 1 -> X]
    BY <2>2, <2>3
  <2>5. \A i \in 0 .. n : i \in 0 .. n + 1 /\ i # n + 1 /\ h[i] = g[i]
    OBVIOUS
  <2>6. n + 1 \in 0 .. n + 1 /\ (n + 1) - 1 = n /\ h[n + 1] = step[h[n]]
    BY <2>2, <2>5
  <2> HIDE DEF h
  <2>7. h[0] = x0
    BY <2>1, <2>5
  <2>8. ASSUME NEW i \in 0 .. n + 1, i # 0 PROVE h[i] = step[h[i - 1]]
    <3>1. CASE i = n + 1
      BY <2>6, <3>1
    <3>2. CASE i # n + 1
      <4>1. i \in 0 .. n /\ i - 1 \in 0 .. n
        BY <2>8, <3>2
      <4> QED
        BY <2>1, <2>5, <2>8, <4>1
    <3> QED
      BY <3>1, <3>2
  <2> QED
    BY <2>4, <2>7, <2>8
<1>3. \A m \in Nat : m \in S
  <2> HIDE DEF S
  <2> QED
    BY <1>1, <1>2, Induction
<1>4. \A m \in Nat : Built(m)
  BY <1>3
<1> DEFINE G(m) == CHOOSE g \in [0 .. m -> X] : Steps(g, m)
<1>5. \A m \in Nat : G(m) \in [0 .. m -> X] /\ Steps(G(m), m)
  BY <1>4
<1> HIDE DEF G, Built
<1>6. ASSUME NEW m \in Nat PROVE G(m + 1)[m] = G(m)[m]
  <2> DEFINE E == {i \in Nat : i <= m => G(m + 1)[i] = G(m)[i]}
  <2>1. 0 \in E
    BY <1>5
  <2>2. ASSUME NEW i \in Nat, i \in E PROVE i + 1 \in E
    <3> SUFFICES ASSUME i + 1 <= m PROVE G(m + 1)[i + 1] = G(m)[i + 1]
      OBVIOUS
    <3>1. i + 1 \in 0 .. m /\ i + 1 \in 0 .. m + 1 /\ i + 1 # 0 /\ (i + 1) - 1 = i /\ i <= m /\ m + 1 \in Nat
      OBVIOUS
    <3>2. G(m)[i + 1] = step[G(m)[i]] /\ G(m + 1)[i + 1] = step[G(m + 1)[i]]
      BY <1>5, <3>1
    <3> QED
      BY <2>2, <3>1, <3>2
  <2> HIDE DEF E
  <2>3. m \in E
    BY <2>1, <2>2, Induction
  <2> QED
    BY <2>3 DEF E
<1> DEFINE f == [n \in Nat |-> G(n)[n]]
<1>7. f \in [Nat -> X]
  BY <1>5
<1>8. f[0] = x0
  BY <1>5
<1>9. ASSUME NEW n \in Nat PROVE f[n + 1] = step[f[n]]
  <2>1. n + 1 \in Nat /\ n + 1 \in 0 .. n + 1 /\ n + 1 # 0 /\ (n + 1) - 1 = n
    OBVIOUS
  <2>2. G(n + 1)[n + 1] = step[G(n + 1)[n]]
    BY <1>5, <2>1
  <2> QED
    BY <1>6, <2>1, <2>2
<1> HIDE DEF f
<1> QED
  BY <1>7, <1>8, <1>9 DEF Repeats

LEMMA InductionFromOne ==
  ASSUME NEW S, 1 \in S, \A n \in Nat \ {0} : n \in S => n + 1 \in S
  PROVE  \A n \in Nat \ {0} : n \in S
<1> DEFINE Z == {m \in Nat : m = 0 \/ m \in S}
<1>1. 0 \in Z
  OBVIOUS
<1>2. ASSUME NEW n \in Nat, n \in Z PROVE n + 1 \in Z
  BY <1>2
<1> HIDE DEF Z
<1>3. \A m \in Nat : m \in Z
  BY <1>1, <1>2, Induction
<1> QED
  BY <1>3 DEF Z

(* FlattenSeq concatenates. *)
LEMMA Flattened ==
  ASSUME NEW T, NEW seqs \in Seq(Seq(T)), seqs # <<>>
  PROVE  \E f \in [1 .. Len(seqs) -> Seq(T)] :
           /\ FlattenSeq(seqs) = f[Len(seqs)]
           /\ \A i \in 1 .. Len(seqs) : f[i] = IF i = 1 THEN seqs[i] ELSE f[i - 1] \o seqs[i]
<1>1. Len(seqs) \in Nat \ {0} /\ \A i \in 1 .. Len(seqs) : seqs[i] \in Seq(T)
  OBVIOUS
<1> DEFINE Steps(f, m) == \A i \in 1 .. m : f[i] = IF i = 1 THEN seqs[i] ELSE f[i - 1] \o seqs[i]
           Built(m) == \E f \in [1 .. m -> Seq(T)] : Steps(f, m)
           S == {m \in Nat : m \in 1 .. Len(seqs) => Built(m)}
<1>2. 1 \in S
  <2> SUFFICES Built(1)
    OBVIOUS
  <2> DEFINE f == [i \in 1 .. 1 |-> seqs[1]]
  <2>1. f \in [1 .. 1 -> Seq(T)] /\ Steps(f, 1)
    BY <1>1
  <2> QED
    BY <2>1
<1>3. ASSUME NEW n \in Nat \ {0}, n \in S PROVE n + 1 \in S
  <2> SUFFICES ASSUME n + 1 \in 1 .. Len(seqs) PROVE Built(n + 1)
    <3> HIDE DEF Built
    <3> QED
      OBVIOUS
  <2>1. n \in 1 .. Len(seqs)
    BY <1>1
  <2>2. PICK g \in [1 .. n -> Seq(T)] : Steps(g, n)
    BY <1>3, <2>1
  <2> DEFINE f == [i \in 1 .. n + 1 |-> IF i = n + 1 THEN g[n] \o seqs[n + 1] ELSE g[i]]
  <2>3. /\ n \in 1 .. n /\ \A i \in 1 .. n + 1 : i # n + 1 => i \in 1 .. n
        /\ \A i \in 1 .. n : i # 1 => i - 1 \in 1 .. n
        /\ \A i \in 1 .. n : i \in 1 .. n + 1 /\ i # n + 1
    OBVIOUS
  <2>4. g[n] \in Seq(T) /\ seqs[n + 1] \in Seq(T)
    BY <1>1, <2>3
  <2>5. g[n] \o seqs[n + 1] \in Seq(T)
    BY <2>4
  <2>6. f \in [1 .. n + 1 -> Seq(T)]
    BY <2>3, <2>5
  <2>7. \A i \in 1 .. n : f[i] = g[i]
    BY <2>3
  <2>8. n + 1 \in 1 .. n + 1 /\ n + 1 # 1 /\ (n + 1) - 1 = n
    OBVIOUS
  <2>9. f[n + 1] = f[n] \o seqs[n + 1]
    BY <2>3, <2>7, <2>8
  <2> HIDE DEF f
  <2>10. ASSUME NEW i \in 1 .. n + 1 PROVE f[i] = IF i = 1 THEN seqs[i] ELSE f[i - 1] \o seqs[i]
    <3>1. CASE i = n + 1
      BY <2>8, <2>9, <3>1
    <3>2. CASE i # n + 1
      <4>1. i \in 1 .. n /\ f[i] = g[i]
        BY <2>3, <2>7, <3>2
      <4>2. g[i] = IF i = 1 THEN seqs[i] ELSE g[i - 1] \o seqs[i]
        BY <2>2, <4>1
      <4> QED
        BY <2>3, <2>7, <4>1, <4>2
    <3> QED
      BY <3>1, <3>2
  <2> QED
    BY <2>6, <2>10
<1> HIDE DEF S
<1>4. Len(seqs) \in S
  BY <1>1, <1>2, <1>3, InductionFromOne
<1>5. PICK f \in [1 .. Len(seqs) -> Seq(T)] : Steps(f, Len(seqs))
  <2>1. Len(seqs) \in 1 .. Len(seqs)
    BY <1>1
  <2>2. Built(Len(seqs))
    <3> HIDE DEF Built
    <3> QED
      BY <1>4, <2>1 DEF S
  <2> QED
    BY <2>2
<1> DEFINE F(h) == [i \in 1 .. Len(seqs) |-> IF i = 1 THEN seqs[i] ELSE h[i - 1] \o seqs[i]]
           Fix == CHOOSE h : h = F(h)
<1>6. f = F(f)
  BY <1>5
<1>7. Fix = F(Fix)
  BY <1>6
<1>8. FlattenSeq(seqs) = Fix[Len(seqs)]
  BY <1>1 DEF FlattenSeq
<1> HIDE DEF Fix
<1>9. \A i \in 1 .. Len(seqs) : Fix[i] = IF i = 1 THEN seqs[i] ELSE Fix[i - 1] \o seqs[i]
  BY <1>7
<1> DEFINE E == {m \in Nat : m \in 1 .. Len(seqs) => Fix[m] = f[m]}
<1>10. 1 \in E
  BY <1>1, <1>5, <1>9
<1>11. ASSUME NEW n \in Nat \ {0}, n \in E PROVE n + 1 \in E
  <2> SUFFICES ASSUME n + 1 \in 1 .. Len(seqs) PROVE Fix[n + 1] = f[n + 1]
    OBVIOUS
  <2>1. n \in 1 .. Len(seqs) /\ n + 1 # 1 /\ (n + 1) - 1 = n
    BY <1>1
  <2>2. Fix[n] = f[n]
    BY <1>11, <2>1
  <2>3. Fix[n + 1] = Fix[n] \o seqs[n + 1]
    BY <1>9, <2>1
  <2>4. f[n + 1] = f[n] \o seqs[n + 1]
    BY <1>5, <2>1
  <2> QED
    BY <2>2, <2>3, <2>4
<1> HIDE DEF E
<1>12. Len(seqs) \in E
  BY <1>1, <1>10, <1>11, InductionFromOne
<1>13. Fix[Len(seqs)] = f[Len(seqs)]
  BY <1>1, <1>12 DEF E
<1> QED
  BY <1>5, <1>8, <1>13

LEMMA FlattenType ==
  ASSUME NEW T, NEW seqs \in Seq(Seq(T))
  PROVE  /\ FlattenSeq(seqs) \in Seq(T)
         /\ seqs = <<>> => FlattenSeq(seqs) = <<>>
<1>1. CASE seqs = <<>>
  <2>1. FlattenSeq(seqs) = <<>>
    BY <1>1 DEF FlattenSeq
  <2> QED
    BY <2>1
<1>2. CASE seqs # <<>>
  <2>1. Len(seqs) \in 1 .. Len(seqs)
    BY <1>2
  <2> QED
    BY <1>2, <2>1, Flattened
<1> QED
  BY <1>1, <1>2

-----------------------------------------------------------------------------
(* Programs. *)

Beings == Classes \cup {None}

LEMMA ProgramFacts ==
  ASSUME program \in Programs
  PROVE  /\ IsFiniteSet(Classes) /\ None \notin Classes /\ Interfaces \subseteq Classes
         /\ \A c \in Classes :
              /\ program[c].base \in Beings
              /\ program[c].base # None => (c \in Interfaces <=> program[c].base \in Interfaces)
              /\ program[c].implements \in Seq(Interfaces)
              /\ c \in Interfaces =>
                   program[c].base = IF program[c].implements = <<>> THEN None
                                     ELSE Head(program[c].implements)
              /\ program[c].methods \in Seq([signature : STRING, modifier : Modifiers])
              /\ program[c].fields \in Seq([bytes : {1, 2, 4, 8}, reference : BOOLEAN, weak : BOOLEAN])
BY ProgramAssumption DEF Classes, Interfaces, Beings

LEMMA SameProgram ==
  ASSUME program' = program
  PROVE  /\ Classes' = Classes /\ Interfaces' = Interfaces /\ Methods' = Methods /\ Beings' = Beings
         /\ Above' = Above /\ Heights' = Heights
<1>1. Classes' = Classes /\ Interfaces' = Interfaces
  BY DEF Classes, Interfaces
<1>2. Methods' = Methods
  BY <1>1 DEF Methods, Method
<1>3. Above' = Above
  BY DEF Above, Classes
<1> QED
  BY <1>1, <1>2, <1>3 DEF Heights, Beings

(* The classes above. *)
LEMMA AboveFacts ==
  ASSUME program \in Programs
  PROVE  /\ Above \in [Nat -> [Beings -> Beings]]
         /\ \A c \in Beings : Above[0][c] = c
         /\ \A n \in Nat : Above[n][None] = None
         /\ \A n \in Nat : \A c \in Classes : Above[n + 1][c] = Above[n][program[c].base]
<1> DEFINE X == [Beings -> Beings]
           start == [c \in Beings |-> c]
           step == [g \in X |-> [c \in Beings |-> IF c = None THEN c ELSE g[program[c].base]]]
           F(g) == [n \in Nat |-> [c \in Beings |->
                      IF n = 0 \/ c = None THEN c ELSE g[n - 1][program[c].base]]]
<1>1. \A c \in Beings : c # None => c \in Classes /\ program[c].base \in Beings
  BY ProgramFacts DEF Beings
<1>2. start \in X /\ step \in [X -> X]
  BY <1>1
<1>3. PICK f : f \in [Nat -> X] /\ f[0] = start /\ \A n \in Nat : f[n + 1] = step[f[n]]
  <2> HIDE DEF start, step, X
  <2>1. \E f : Repeats(f, X, start, step)
    BY <1>2, Iterated
  <2> QED
    BY <2>1 DEF Repeats
<1>4. \A n \in Nat : f[n] \in X
  BY <1>3
<1>5. ASSUME NEW n \in Nat
      PROVE  f[n] = [c \in Beings |-> IF n = 0 \/ c = None THEN c ELSE f[n - 1][program[c].base]]
  <2>1. CASE n = 0
    BY <1>3, <2>1
  <2>2. CASE n # 0
    <3>1. n - 1 \in Nat /\ (n - 1) + 1 = n
      BY <2>2
    <3>2. f[n] = step[f[n - 1]] /\ f[n - 1] \in X
      BY <1>3, <1>4, <3>1
    <3> QED
      BY <2>2, <3>2
  <2> QED
    BY <2>1, <2>2
<1>6. f = F(f)
  <2>1. \A n \in Nat : f[n] = F(f)[n]
    BY <1>5
  <2>2. f = [n \in Nat |-> f[n]]
    BY <1>3
  <2> HIDE DEF X
  <2> QED
    BY <2>1, <2>2
<1>7. Above = F(Above)
  <2>1. Above = CHOOSE g : g = F(g)
    BY DEF Above, Beings
  <2> HIDE DEF F
  <2> QED
    BY <1>6, <2>1
<1>8. \A n \in Nat : Above[n] = [c \in Beings |->
                        IF n = 0 \/ c = None THEN c ELSE Above[n - 1][program[c].base]]
  BY <1>7
<1>9. \A n \in Nat : \A c \in Beings :
        Above[n][c] = IF n = 0 \/ c = None THEN c ELSE Above[n - 1][program[c].base]
  <2> SUFFICES ASSUME NEW n \in Nat, NEW c \in Beings
               PROVE  Above[n][c] = IF n = 0 \/ c = None THEN c ELSE Above[n - 1][program[c].base]
    OBVIOUS
  <2>1. Above[n] = [x \in Beings |-> IF n = 0 \/ x = None THEN x ELSE Above[n - 1][program[x].base]]
    BY <1>8
  <2> QED
    BY <2>1
<1>10. None \in Beings /\ \A c \in Classes : c \in Beings /\ c # None
  BY ProgramFacts DEF Beings
<1>11. \A n \in Nat : \A c \in Classes : Above[n + 1][c] = Above[n][program[c].base]
  <2> SUFFICES ASSUME NEW n \in Nat, NEW c \in Classes PROVE Above[n + 1][c] = Above[n][program[c].base]
    OBVIOUS
  <2>1. n + 1 \in Nat /\ n + 1 # 0 /\ (n + 1) - 1 = n
    OBVIOUS
  <2> QED
    BY <1>9, <1>10, <2>1
<1>12. Above[0] = start /\ \A n \in Nat : Above[n + 1] = [c \in Beings |->
          IF c = None THEN c ELSE Above[n][program[c].base]]
  <2>1. ASSUME NEW n \in Nat PROVE n + 1 \in Nat /\ n + 1 # 0 /\ (n + 1) - 1 = n
    OBVIOUS
  <2> QED
    BY <1>8, <2>1
<1> DEFINE S == {n \in Nat : Above[n] \in X}
<1>13. 0 \in S
  BY <1>2, <1>12
<1>14. ASSUME NEW n \in Nat, n \in S PROVE n + 1 \in S
  <2>1. Above[n] \in X
    BY <1>14
  <2>2. Above[n + 1] = step[Above[n]]
    BY <1>12, <2>1
  <2> QED
    BY <1>2, <2>1, <2>2
<1>15. \A n \in Nat : n \in S
  <2> HIDE DEF S
  <2> QED
    BY <1>13, <1>14, Induction
<1>16. Above \in [Nat -> X]
  <2> HIDE DEF X
  <2>1. Above = [n \in Nat |-> Above[n]]
    BY <1>7
  <2> QED
    BY <1>15, <2>1
<1> QED
  BY <1>9, <1>10, <1>11, <1>16

LEMMA AboveType ==
  ASSUME program \in Programs, NEW n \in Nat, NEW c \in Beings
  PROVE  Above[n][c] \in Beings
BY AboveFacts

LEMMA AboveSum ==
  ASSUME program \in Programs, NEW m \in Nat, NEW n \in Nat, NEW c \in Beings
  PROVE  Above[m + n][c] = Above[m][Above[n][c]]
<1> DEFINE S == {k \in Nat : \A x \in Beings : Above[m + k][x] = Above[m][Above[k][x]]}
<1>1. 0 \in S
  <2>1. m + 0 = m
    OBVIOUS
  <2> QED
    BY <2>1, AboveFacts
<1>2. ASSUME NEW k \in Nat, k \in S PROVE k + 1 \in S
  <2> SUFFICES ASSUME NEW x \in Beings PROVE Above[m + (k + 1)][x] = Above[m][Above[k + 1][x]]
    OBVIOUS
  <2>1. m + (k + 1) = (m + k) + 1 /\ m + k \in Nat /\ k + 1 \in Nat /\ (m + k) + 1 \in Nat
    OBVIOUS
  <2>2. CASE x = None
    BY <2>1, <2>2, AboveFacts
  <2>3. CASE x # None
    <3>1. x \in Classes /\ program[x].base \in Beings
      BY <2>3, ProgramFacts DEF Beings
    <3>2. Above[(m + k) + 1][x] = Above[m + k][program[x].base]
      BY <2>1, <3>1, AboveFacts
    <3>3. Above[k + 1][x] = Above[k][program[x].base]
      BY <3>1, AboveFacts
    <3> QED
      BY <1>2, <2>1, <3>1, <3>2, <3>3
  <2> QED
    BY <2>2, <2>3
<1>3. \A k \in Nat : k \in S
  <2> HIDE DEF S
  <2> QED
    BY <1>1, <1>2, Induction
<1> QED
  BY <1>3

-----------------------------------------------------------------------------
(* Folds. *)

LEMMA Greatest ==
  ASSUME NEW n \in Nat, NEW s \in SUBSET (1 .. n), s # {}
  PROVE  Max(s) \in s /\ \A y \in s : Max(s) >= y
<1> DEFINE N == {n - x : x \in s}
<1>1. N \in SUBSET Nat /\ N # {}
  <2>1. ASSUME NEW x \in s PROVE n - x \in Nat
    <3>1. x \in 1 .. n
      OBVIOUS
    <3> QED
      BY <3>1
  <2>2. PICK x \in s : TRUE
    OBVIOUS
  <2>3. n - x \in N
    OBVIOUS
  <2> QED
    BY <2>1, <2>3
<1>2. PICK m \in N : \A y \in N : m <= y
  <2> HIDE DEF N
  <2> QED
    BY <1>1, Least
<1>3. PICK x \in s : m = n - x
  BY <1>2
<1>4. \A y \in s : n - y \in N
  OBVIOUS
<1>5. \A y \in s : y \in Nat /\ n - x <= n - y
  BY <1>2, <1>3, <1>4
<1>6. \A y \in s : x >= y
  BY <1>5
<1> QED
  BY <1>6 DEF Max

LEMMA GreatestOfRange ==
  ASSUME NEW k \in Nat \ {0}
  PROVE  Max(1 .. k) = k
<1>1. k \in 1 .. k /\ 1 .. k \in SUBSET (1 .. k) /\ 1 .. k # {}
  OBVIOUS
<1>2. Max(1 .. k) \in 1 .. k /\ \A y \in 1 .. k : Max(1 .. k) >= y
  BY <1>1, Greatest
<1>3. PICK m : m = Max(1 .. k)
  OBVIOUS
<1>4. m \in 1 .. k /\ m >= k
  BY <1>1, <1>2, <1>3
<1> QED
  BY <1>3, <1>4

LEMMA RangeLess ==
  ASSUME NEW k \in Nat \ {0}
  PROVE  1 .. k # {} /\ (1 .. k) \ {k} = 1 .. k - 1
<1>1. k \in 1 .. k
  OBVIOUS
<1>2. \A x \in Int : x \in (1 .. k) \ {k} <=> x \in 1 .. k - 1
  OBVIOUS
<1> QED
  BY <1>1, <1>2

Folded(g, A, base, seq, W) ==
  /\ g \in [SUBSET (DOMAIN seq) -> A]
  /\ \A s \in SUBSET (DOMAIN seq) :
       g[s] = IF s = {} THEN base ELSE W[<<g[s \ {Max(s)}], seq[Max(s)]>>]

(* What FoldLeft chooses exists, for operators that are functions. *)
LEMMA FoldExists ==
  ASSUME NEW A, NEW E, NEW base \in A, NEW seq \in Seq(E), NEW W \in [A \X E -> A]
  PROVE  \E g : Folded(g, A, base, seq, W)
<1> DEFINE n == Len(seq)
           P == SUBSET (DOMAIN seq)
           X == [P -> A]
           With(t, m) == W[<<t, m>>]
           Of(g, s) == IF s = {} THEN base ELSE With(g[s \ {Max(s)}], seq[Max(s)])
           F(g) == [s \in P |-> Of(g, s)]
           step == [g \in X |-> F(g)]
           start == [s \in P |-> base]
<1>1. n \in Nat /\ DOMAIN seq = 1 .. n /\ \A i \in 1 .. n : seq[i] \in E
  OBVIOUS
<1>2. \A t \in A, m \in E : With(t, m) \in A
  OBVIOUS
<1>3. \A s \in P : s # {} => Max(s) \in s /\ Max(s) \in 1 .. n /\ s \ {Max(s)} \in P
  <2> SUFFICES ASSUME NEW s \in P, s # {} PROVE Max(s) \in s /\ Max(s) \in 1 .. n /\ s \ {Max(s)} \in P
    OBVIOUS
  <2>1. Max(s) \in s
    BY <1>1, Greatest
  <2> QED
    BY <2>1
<1> HIDE DEF n
<1>4. \A g \in X : F(g) \in X
  <2> SUFFICES ASSUME NEW g \in X, NEW s \in P PROVE Of(g, s) \in A
    OBVIOUS
  <2>1. CASE s = {}
    BY <2>1
  <2>2. CASE s # {}
    <3>1. g[s \ {Max(s)}] \in A /\ seq[Max(s)] \in E
      BY <1>1, <1>3, <2>2
    <3> HIDE DEF With
    <3> QED
      BY <1>2, <2>2, <3>1
  <2> QED
    BY <2>1, <2>2
<1> HIDE DEF With
<1>5. start \in X /\ step \in [X -> X]
  <2>1. start \in X
    OBVIOUS
  <2> HIDE DEF F, X
  <2> QED
    BY <1>4, <2>1
<1>6. PICK f : f \in [Nat -> X] /\ f[0] = start /\ \A k \in Nat : f[k + 1] = step[f[k]]
  <2> HIDE DEF start, step, X
  <2>1. \E f : Repeats(f, X, start, step)
    BY <1>5, Iterated
  <2> QED
    BY <2>1 DEF Repeats
<1>7. \A k \in Nat : f[k] \in X /\ f[k + 1] = F(f[k])
  <2> HIDE DEF X, F
  <2> QED
    BY <1>6
<1> DEFINE S == {k \in Nat : \A j \in Nat, s \in P : (s \subseteq 1 .. k /\ j >= k + 1) => f[j + 1][s] = f[j][s]}
<1>8. 0 \in S
  <2> SUFFICES ASSUME NEW j \in Nat, NEW s \in P, s \subseteq 1 .. 0, j >= 1 PROVE f[j + 1][s] = f[j][s]
    OBVIOUS
  <2>1. s = {} /\ j - 1 \in Nat /\ (j - 1) + 1 = j
    OBVIOUS
  <2>2. f[j + 1] = F(f[j]) /\ f[j] = F(f[j - 1])
    BY <1>7, <2>1
  <2>3. F(f[j])[s] = base /\ F(f[j - 1])[s] = base
    BY <2>1
  <2> QED
    BY <2>2, <2>3
<1>9. ASSUME NEW k \in Nat, k \in S PROVE k + 1 \in S
  <2> SUFFICES ASSUME NEW j \in Nat, NEW s \in P, s \subseteq 1 .. k + 1, j >= (k + 1) + 1
               PROVE  f[j + 1][s] = f[j][s]
    <3>1. k + 1 \in Nat
      OBVIOUS
    <3> QED
      BY <3>1
  <2>1. j - 1 \in Nat /\ (j - 1) + 1 = j /\ j - 1 >= k + 1
    OBVIOUS
  <2>2. f[j + 1] = F(f[j]) /\ f[j] = F(f[j - 1])
    BY <1>7, <2>1
  <2>3. F(f[j])[s] = Of(f[j], s) /\ F(f[j - 1])[s] = Of(f[j - 1], s)
    OBVIOUS
  <2>4. CASE s = {}
    BY <2>2, <2>3, <2>4
  <2>5. CASE s # {}
    <3>1. PICK x : x = Max(s)
      OBVIOUS
    <3>2. PICK r : r = s \ {x}
      OBVIOUS
    <3>3. x \in s /\ r \in P /\ \A y \in s : x >= y
      BY <1>1, <1>3, <2>5, <3>1, <3>2, Greatest
    <3>4. r \subseteq 1 .. k
      <4> SUFFICES ASSUME NEW y \in r PROVE y \in 1 .. k
        OBVIOUS
      <4>1. y \in 1 .. k + 1 /\ x \in 1 .. k + 1 /\ y # x /\ x >= y
        BY <3>2, <3>3
      <4> QED
        BY <4>1
    <3>5. f[(j - 1) + 1][r] = f[j - 1][r]
      BY <1>9, <2>1, <3>3, <3>4
    <3>6. f[j][r] = f[j - 1][r]
      BY <2>1, <3>5
    <3>7. Of(f[j], s) = With(f[j][r], seq[x]) /\ Of(f[j - 1], s) = With(f[j - 1][r], seq[x])
      BY <2>5, <3>1, <3>2
    <3> QED
      BY <2>2, <2>3, <3>6, <3>7
  <2> QED
    BY <2>4, <2>5
<1>10. \A k \in Nat : k \in S
  <2> HIDE DEF S
  <2> QED
    BY <1>8, <1>9, Induction
<1>11. f[n + 1] = F(f[n + 1]) /\ f[n + 1] \in X
  <2>1. n \in S /\ n + 1 \in Nat /\ (n + 1) + 1 \in Nat
    BY <1>1, <1>10
  <2>2. \A s \in P : f[(n + 1) + 1][s] = f[n + 1][s]
    <3>1. \A s \in P : s \subseteq 1 .. n
      BY <1>1
    <3>2. n + 1 >= n + 1
      BY <1>1
    <3> HIDE DEF P
    <3> QED
      BY <2>1, <3>1, <3>2
  <2>3. f[(n + 1) + 1] = F(f[n + 1]) /\ f[n + 1] \in X
    BY <1>7, <2>1
  <2>4. \A s \in P : f[n + 1][s] = Of(f[n + 1], s)
    BY <2>2, <2>3
  <2>5. f[n + 1] = [s \in P |-> f[n + 1][s]]
    BY <2>3
  <2>6. f[n + 1] = [s \in P |-> Of(f[n + 1], s)]
    <3> HIDE DEF Of, P
    <3> QED
      BY <2>4, <2>5
  <2> QED
    BY <2>3, <2>6
<1>12. \A s \in P : f[n + 1][s] = Of(f[n + 1], s)
  <2> HIDE DEF P, Of
  <2> QED
    BY <1>11
<1>13. Folded(f[n + 1], A, base, seq, W)
  BY <1>11, <1>12 DEF With, Folded
<1> QED
  BY <1>13

(* The interfaces of a class, collected. *)
OwnOf(g, c) ==
  FoldLeft(LAMBDA seen, i : seen \o g[i] \o <<i>>, <<>>, program[c].implements)
CollectedOf(g, c) ==
  IF c \in Interfaces \/ program[c].base = None THEN OwnOf(g, c)
  ELSE OwnOf(g, c) \o g[program[c].base]

(* The fold, step by step. *)
Gathers(h, g, list) ==
  /\ h \in [0 .. Len(list) -> Seq(Interfaces)] /\ h[0] = <<>>
  /\ \A i \in 1 .. Len(list) : h[i] = h[i - 1] \o g[list[i]] \o <<list[i]>>

LEMMA OwnSteps ==
  ASSUME program \in Programs, NEW g \in [Classes -> Seq(Interfaces)], NEW c \in Classes
  PROVE  \E h : Gathers(h, g, program[c].implements) /\ OwnOf(g, c) = h[Len(program[c].implements)]
<1>a. PICK other \in Seq(Interfaces) : other = program[c].implements
  BY ProgramFacts
<1>b. PICK table \in Seq(Interfaces) : table = <<>>
  <2>1. <<>> \in Seq(Interfaces)
    OBVIOUS
  <2> QED
    BY <2>1
<1>c. \A i \in Interfaces : g[i] \in Seq(Interfaces)
  <2> DEFINE SI == Seq(Interfaces)
  <2> HIDE DEF SI
  <2>1. g \in [Classes -> SI] /\ Interfaces \subseteq Classes
    BY ProgramFacts DEF SI
  <2> QED
    BY <2>1 DEF SI
<1> DEFINE n == Len(other)
           P == SUBSET (DOMAIN other)
           SM == Seq(Interfaces)
           With(t, i) == t \o g[i] \o <<i>>
           Of(f, s) == IF s = {} THEN table ELSE With(f[s \ {Max(s)}], other[Max(s)])
           F(f) == [s \in P |-> Of(f, s)]
           W == [x \in SM \X Interfaces |-> With(x[1], x[2])]
<1>1. n \in Nat /\ DOMAIN other = 1 .. n /\ \A i \in 1 .. n : other[i] \in Interfaces
  OBVIOUS
<1>2. \A t \in SM, i \in Interfaces : With(t, i) \in SM
  <2> SUFFICES ASSUME NEW t \in SM, NEW i \in Interfaces PROVE With(t, i) \in SM
    OBVIOUS
  <2>1. g[i] \in Seq(Interfaces)
    BY <1>c
  <2> QED
    BY <2>1
<1>3. \A s \in P : s # {} => s \ {Max(s)} \in P /\ Max(s) \in 1 .. n
  BY <1>1, Greatest
<1>4. PICK w \in [P -> SM] : \A s \in P : w[s] = IF s = {} THEN table ELSE W[<<w[s \ {Max(s)}], other[Max(s)]>>]
  <2>1. table \in SM /\ other \in Seq(Interfaces)
    OBVIOUS
  <2> HIDE DEF SM, With
  <2>2. W \in [SM \X Interfaces -> SM]
    BY <1>2
  <2> HIDE DEF W
  <2>3. \E w : Folded(w, SM, table, other, W)
    BY <2>1, <2>2, FoldExists
  <2> QED
    BY <2>3 DEF Folded
<1> HIDE DEF n, SM, With
<1>5. \A s \in P : w[s] = Of(w, s)
  <2> SUFFICES ASSUME NEW s \in P, s # {} PROVE w[s] = With(w[s \ {Max(s)}], other[Max(s)])
    BY <1>4
  <2>1. w[s \ {Max(s)}] \in SM /\ other[Max(s)] \in Interfaces
    BY <1>1, <1>3, <1>4
  <2>2. W[<<w[s \ {Max(s)}], other[Max(s)]>>] = With(w[s \ {Max(s)}], other[Max(s)])
    BY <2>1
  <2> QED
    BY <1>4, <2>2
<1>6. w = F(w)
  <2> HIDE DEF P, Of
  <2> QED
    BY <1>4, <1>5
<1> DEFINE iter == CHOOSE f : f = F(f)
<1>12. iter = F(iter)
  <2> HIDE DEF F
  <2> QED
    BY <1>6
<1>13. OwnOf(g, c) = iter[1 .. n]
  <2>1. OwnOf(g, c) = iter[DOMAIN other]
    <3>1. OwnOf(g, c) = FoldLeft(LAMBDA seen, i : seen \o g[i] \o <<i>>, table, other)
      BY <1>a, <1>b DEF OwnOf
    <3> QED
      BY <3>1 DEF FoldLeft, MapThenFoldSet, With
  <2> HIDE DEF iter
  <2> QED
    BY <1>1, <2>1
<1>14. \A s \in P : iter[s] = Of(iter, s)
  <2> HIDE DEF iter, Of, P
  <2> QED
    BY <1>12
<1> HIDE DEF iter
<1> DEFINE h == [i \in 0 .. n |-> iter[1 .. i]]
<1>15. h[0] = table
  <2>1. 1 .. 0 = {} /\ {} \in P /\ 0 \in 0 .. n
    BY <1>1
  <2>2. h[0] = iter[{}]
    BY <2>1
  <2>3. Of(iter, {}) = table
    OBVIOUS
  <2> QED
    BY <1>14, <2>1, <2>2, <2>3
<1>16. ASSUME NEW i \in 1 .. n PROVE h[i] = With(h[i - 1], other[i])
  <2>0. n \in Nat /\ DOMAIN other = 1 .. n
    BY <1>1
  <2>a. i \in Nat \ {0} /\ i <= n /\ i \in 0 .. n /\ i - 1 \in 0 .. n
    BY <2>0
  <2>b. 1 .. i \in P
    BY <2>0, <2>a
  <2>c. 1 .. i # {} /\ (1 .. i) \ {i} = 1 .. i - 1
    BY <2>a, RangeLess
  <2>1. i \in Nat \ {0} /\ 1 .. i \in P /\ 1 .. i # {} /\ (1 .. i) \ {i} = 1 .. i - 1 /\ i \in 0 .. n /\ i - 1 \in 0 .. n
    BY <2>a, <2>b, <2>c
  <2>2. Max(1 .. i) = i
    BY <2>1, GreatestOfRange
  <2>3. Of(iter, 1 .. i) = With(iter[1 .. i - 1], other[i])
    BY <2>1, <2>2
  <2>4. h[i] = iter[1 .. i] /\ h[i - 1] = iter[1 .. i - 1]
    BY <2>1
  <2> QED
    BY <1>14, <2>1, <2>3, <2>4
<1>17. DOMAIN h = 0 .. n
  OBVIOUS
<1>18. h[n] = iter[1 .. n]
  BY <1>1
<1> DEFINE E == {i \in Nat : i \in 0 .. n => h[i] \in SM}
<1> HIDE DEF h
<1>19. 0 \in E
  BY <1>15 DEF SM
<1>20. ASSUME NEW i \in Nat, i \in E PROVE i + 1 \in E
  <2> SUFFICES ASSUME i + 1 \in 0 .. n PROVE h[i + 1] \in SM
    OBVIOUS
  <2>1. i + 1 \in 1 .. n /\ i \in 0 .. n /\ (i + 1) - 1 = i
    BY <1>1
  <2>2. h[i] \in SM /\ other[i + 1] \in Interfaces
    BY <1>1, <1>20, <2>1
  <2>3. h[i + 1] = With(h[i], other[i + 1])
    BY <1>16, <2>1
  <2> QED
    BY <1>2, <2>2, <2>3
<1>21. \A i \in Nat : i \in E
  <2> HIDE DEF E
  <2> QED
    BY <1>19, <1>20, Induction
<1>22. \A i \in 0 .. n : h[i] \in SM
  BY <1>1, <1>21
<1>23. h[n] = OwnOf(g, c)
  BY <1>13, <1>18
<1>24. h \in [0 .. n -> SM]
  <2>1. h = [i \in 0 .. n |-> h[i]]
    BY DEF h
  <2> QED
    BY <2>1, <1>22
<1>25. Gathers(h, g, other)
  <2>1. \A i \in 1 .. n : h[i] = h[i - 1] \o g[other[i]] \o <<other[i]>>
    BY <1>16 DEF With
  <2> QED
    BY <1>15, <1>24, <2>1, <1>b DEF Gathers, SM, n
<1> QED
  BY <1>23, <1>25, <1>a DEF n

LEMMA OwnType ==
  ASSUME program \in Programs, NEW g \in [Classes -> Seq(Interfaces)], NEW c \in Classes
  PROVE  OwnOf(g, c) \in Seq(Interfaces)
<1>1. PICK list \in Seq(Interfaces) : list = program[c].implements
  BY ProgramFacts
<1>2. PICK h : Gathers(h, g, list) /\ OwnOf(g, c) = h[Len(list)]
  BY <1>1, OwnSteps
<1>3. Len(list) \in 0 .. Len(list)
  OBVIOUS
<1> QED
  BY <1>2, <1>3 DEF Gathers

LEMMA CollectedType ==
  ASSUME program \in Programs, NEW g \in [Classes -> Seq(Interfaces)], NEW c \in Classes
  PROVE  CollectedOf(g, c) \in Seq(Interfaces)
<1>1. OwnOf(g, c) \in Seq(Interfaces)
  BY OwnType
<1>2. program[c].base # None => program[c].base \in Classes
  BY ProgramFacts DEF Beings
<1>3. program[c].base # None => g[program[c].base] \in Seq(Interfaces)
  BY <1>2
<1>4. ASSUME NEW a \in Seq(Interfaces), NEW b \in Seq(Interfaces) PROVE a \o b \in Seq(Interfaces)
  OBVIOUS
<1> QED
  BY <1>1, <1>3, <1>4 DEF CollectedOf

LEMMA CollectedFacts ==
  ASSUME program \in Programs
  PROVE  /\ \A n \in Nat : Collected[n] \in [Classes -> Seq(Interfaces)]
         /\ \A c \in Classes : Collected[0][c] = <<>>
         /\ \A n \in Nat : \A c \in Classes : Collected[n + 1][c] = CollectedOf(Collected[n], c)
<1> DEFINE X == [Classes -> Seq(Interfaces)]
           start == [c \in Classes |-> <<>>]
           step == [g \in X |-> [c \in Classes |-> CollectedOf(g, c)]]
           F(g) == [n \in Nat |-> [c \in Classes |->
                      IF n = 0 THEN <<>> ELSE CollectedOf(g[n - 1], c)]]
<1>1. start \in X
  <2>1. <<>> \in Seq(Interfaces)
    OBVIOUS
  <2> QED
    BY <2>1
<1>2. step \in [X -> X]
  BY CollectedType
<1>3. PICK f : f \in [Nat -> X] /\ f[0] = start /\ \A n \in Nat : f[n + 1] = step[f[n]]
  <2> HIDE DEF start, step, X
  <2>1. \E f : Repeats(f, X, start, step)
    BY <1>1, <1>2, Iterated
  <2> QED
    BY <2>1 DEF Repeats
<1>4. \A n \in Nat : f[n] \in X
  <2> HIDE DEF X
  <2> QED
    BY <1>3
<1>5. ASSUME NEW n \in Nat
      PROVE  f[n] = [c \in Classes |-> IF n = 0 THEN <<>> ELSE CollectedOf(f[n - 1], c)]
  <2>1. CASE n = 0
    BY <1>3, <2>1
  <2>2. CASE n # 0
    <3>1. n - 1 \in Nat /\ (n - 1) + 1 = n
      BY <2>2
    <3>2. f[n] = step[f[n - 1]] /\ f[n - 1] \in X
      BY <1>3, <1>4, <3>1
    <3>3. f[n] = [c \in Classes |-> CollectedOf(f[n - 1], c)]
      <4> HIDE DEF X
      <4> QED
        BY <3>2
    <3> QED
      BY <2>2, <3>3
  <2> QED
    BY <2>1, <2>2
<1>6. f = F(f)
  <2>1. \A n \in Nat : f[n] = F(f)[n]
    BY <1>5
  <2>2. f = [n \in Nat |-> f[n]]
    <3> HIDE DEF X
    <3> QED
      BY <1>3
  <2> HIDE DEF X
  <2> QED
    BY <2>1, <2>2
<1>7. Collected = F(Collected)
  <2>1. Collected = CHOOSE g : g = F(g)
    BY DEF Collected, CollectedOf, OwnOf
  <2> HIDE DEF F
  <2> QED
    BY <1>6, <2>1
<1>8. \A n \in Nat : Collected[n] = [c \in Classes |->
                        IF n = 0 THEN <<>> ELSE CollectedOf(Collected[n - 1], c)]
  BY <1>7
<1>9. \A c \in Classes : Collected[0][c] = <<>>
  BY <1>8
<1>10. \A n \in Nat : Collected[n + 1] = [c \in Classes |-> CollectedOf(Collected[n], c)]
  <2> SUFFICES ASSUME NEW n \in Nat PROVE Collected[n + 1] = [c \in Classes |-> CollectedOf(Collected[n], c)]
    OBVIOUS
  <2>1. n + 1 \in Nat /\ n + 1 # 0 /\ (n + 1) - 1 = n
    OBVIOUS
  <2> QED
    BY <1>8, <2>1
<1> DEFINE S == {n \in Nat : Collected[n] \in X}
<1>11. 0 \in S
  BY <1>1, <1>8
<1>12. ASSUME NEW n \in Nat, n \in S PROVE n + 1 \in S
  <2>1. Collected[n] \in X
    BY <1>12
  <2>2. Collected[n + 1] = step[Collected[n]]
    BY <1>10, <2>1
  <2>3. step[Collected[n]] \in X
    <3> HIDE DEF X, step
    <3> QED
      BY <1>2, <2>1
  <2>4. Collected[n + 1] \in X
    <3> HIDE DEF X, step
    <3> QED
      BY <2>2, <2>3
  <2> HIDE DEF X
  <2> QED
    BY <2>4
<1>13. \A n \in Nat : n \in S
  <2> HIDE DEF S
  <2> QED
    BY <1>11, <1>12, Induction
<1> QED
  BY <1>9, <1>10, <1>13

LEMMA AllInterfacesType ==
  ASSUME program \in Programs, NEW c \in Classes
  PROVE  AllInterfaces(c) \in Seq(Interfaces)
<1>1. Cardinality(Classes) \in Nat
  BY ProgramFacts, FS_CardinalityType
<1> QED
  BY <1>1, CollectedFacts DEF AllInterfaces

-----------------------------------------------------------------------------
(* Tables. *)

Lasting(f, table, other) ==
  /\ f \in [0 .. Len(other) -> Seq(Methods)] /\ f[0] = table
  /\ \A i \in 1 .. Len(other) :
       f[i] = IF Missing(f[i - 1], other[i]) THEN Append(f[i - 1], other[i]) ELSE f[i - 1]

(* FoldLeft goes through the other table from its start. *)
LEMMA MergedSteps ==
  ASSUME NEW table \in Seq(Methods), NEW other \in Seq(Methods)
  PROVE  \E f : Lasting(f, table, other) /\ Merged(table, other) = f[Len(other)]
<1> DEFINE n == Len(other)
           P == SUBSET (DOMAIN other)
           SM == Seq(Methods)
           With(t, m) == IF Missing(t, m) THEN Append(t, m) ELSE t
           Of(g, s) == IF s = {} THEN table ELSE With(g[s \ {Max(s)}], other[Max(s)])
           F(g) == [s \in P |-> Of(g, s)]
           W == [x \in SM \X Methods |-> With(x[1], x[2])]
<1>1. n \in Nat /\ DOMAIN other = 1 .. n /\ \A i \in 1 .. n : other[i] \in Methods
  OBVIOUS
<1>2. \A t \in SM, m \in Methods : With(t, m) \in SM
  OBVIOUS
<1>3. \A s \in P : s # {} => s \ {Max(s)} \in P /\ Max(s) \in 1 .. n
  BY <1>1, Greatest
<1>4. PICK w \in [P -> SM] : \A s \in P : w[s] = IF s = {} THEN table ELSE W[<<w[s \ {Max(s)}], other[Max(s)]>>]
  <2>1. table \in SM /\ other \in Seq(Methods)
    OBVIOUS
  <2> HIDE DEF SM, With
  <2>2. W \in [SM \X Methods -> SM]
    BY <1>2
  <2> HIDE DEF W
  <2>3. \E w : Folded(w, SM, table, other, W)
    BY <2>1, <2>2, FoldExists
  <2> QED
    BY <2>3 DEF Folded
<1> HIDE DEF n, SM, With
<1>5. \A s \in P : w[s] = Of(w, s)
  <2> SUFFICES ASSUME NEW s \in P, s # {} PROVE w[s] = With(w[s \ {Max(s)}], other[Max(s)])
    BY <1>4
  <2>1. w[s \ {Max(s)}] \in SM /\ other[Max(s)] \in Methods
    BY <1>1, <1>3, <1>4
  <2>2. W[<<w[s \ {Max(s)}], other[Max(s)]>>] = With(w[s \ {Max(s)}], other[Max(s)])
    BY <2>1
  <2> QED
    BY <1>4, <2>2
<1>6. w = F(w)
  <2> HIDE DEF P, Of
  <2> QED
    BY <1>4, <1>5
<1> DEFINE iter == CHOOSE g : g = F(g)
<1>12. iter = F(iter)
  <2> HIDE DEF F
  <2> QED
    BY <1>6
<1>13. Merged(table, other) = iter[1 .. n]
  <2>1. Merged(table, other) = iter[DOMAIN other]
    BY DEF Merged, FoldLeft, MapThenFoldSet, With
  <2> HIDE DEF iter
  <2> QED
    BY <1>1, <2>1
<1>14. \A s \in P : iter[s] = Of(iter, s)
  <2> HIDE DEF iter, Of, P
  <2> QED
    BY <1>12
<1> HIDE DEF iter
<1> DEFINE h == [i \in 0 .. n |-> iter[1 .. i]]
<1>15. h[0] = table
  <2>1. 1 .. 0 = {} /\ {} \in P /\ 0 \in 0 .. n
    BY <1>1
  <2>2. h[0] = iter[{}]
    BY <2>1
  <2>3. Of(iter, {}) = table
    OBVIOUS
  <2> QED
    BY <1>14, <2>1, <2>2, <2>3
<1>16. ASSUME NEW i \in 1 .. n PROVE h[i] = With(h[i - 1], other[i])
  <2>1. i \in Nat \ {0} /\ 1 .. i \in P /\ 1 .. i # {} /\ (1 .. i) \ {i} = 1 .. i - 1 /\ i \in 0 .. n /\ i - 1 \in 0 .. n
    <3>1. i \in Nat \ {0} /\ i \in 0 .. n /\ i - 1 \in 0 .. n
      BY <1>1
    <3>2. 1 .. i \in P
      BY <1>1
    <3>3. i \in 1 .. i /\ (1 .. i) \ {i} = 1 .. i - 1
      BY <1>1
    <3> QED
      BY <3>1, <3>2, <3>3
  <2>2. Max(1 .. i) = i
    BY <2>1, GreatestOfRange
  <2>3. Of(iter, 1 .. i) = With(iter[1 .. i - 1], other[i])
    BY <2>1, <2>2
  <2>4. h[i] = iter[1 .. i] /\ h[i - 1] = iter[1 .. i - 1]
    BY <2>1
  <2> QED
    BY <1>14, <2>1, <2>3, <2>4
<1>17. DOMAIN h = 0 .. n
  OBVIOUS
<1>18. h[n] = iter[1 .. n]
  BY <1>1
<1> DEFINE E == {i \in Nat : i \in 0 .. n => h[i] \in SM}
<1> HIDE DEF h
<1>19. 0 \in E
  BY <1>15 DEF SM
<1>20. ASSUME NEW i \in Nat, i \in E PROVE i + 1 \in E
  <2> SUFFICES ASSUME i + 1 \in 0 .. n PROVE h[i + 1] \in SM
    OBVIOUS
  <2>1. i + 1 \in 1 .. n /\ i \in 0 .. n /\ (i + 1) - 1 = i
    BY <1>1
  <2>2. h[i] \in SM /\ other[i + 1] \in Methods
    BY <1>1, <1>20, <2>1
  <2>3. h[i + 1] = With(h[i], other[i + 1])
    BY <1>16, <2>1
  <2> QED
    BY <1>2, <2>2, <2>3
<1>21. \A i \in Nat : i \in E
  <2> HIDE DEF E
  <2> QED
    BY <1>19, <1>20, Induction
<1>22. \A i \in 0 .. n : h[i] \in SM
  BY <1>1, <1>21
<1>23. h \in [0 .. n -> SM]
  BY <1>17, <1>22 DEF h
<1>24. \A i \in 1 .. n : h[i] = IF Missing(h[i - 1], other[i]) THEN Append(h[i - 1], other[i]) ELSE h[i - 1]
  BY <1>16 DEF With
<1>25. Lasting(h, table, other)
  BY <1>15, <1>23, <1>24 DEF Lasting, n, SM
<1> QED
  BY <1>13, <1>18, <1>25 DEF n

Unique(table) == \A i, j \in DOMAIN table : table[i].signature = table[j].signature => i = j

Extended(t, table, other, k) ==
  /\ Len(table) <= Len(t) /\ \A i \in 1 .. Len(table) : t[i] = table[i]
  /\ Unique(table) => Unique(t)
  /\ table = <<>> /\ Unique(other) => Len(t) = k /\ \A i \in 1 .. k : t[i] = other[i]
  /\ \A j \in 1 .. k : ~Missing(t, other[j])
  /\ \A i \in DOMAIN t : i <= Len(table) \/ \E j \in DOMAIN other : t[i] = other[j]

LEMMA ExtendedOne ==
  ASSUME NEW table \in Seq(Methods), NEW other \in Seq(Methods), NEW t \in Seq(Methods),
         NEW k \in Nat, NEW n, n = k + 1, n \in DOMAIN other, Extended(t, table, other, k), NEW m, m = other[n]
  PROVE  Extended(IF Missing(t, m) THEN Append(t, m) ELSE t, table, other, n)
<1>1. /\ DOMAIN t = 1 .. Len(t) /\ Len(t) \in Nat /\ DOMAIN other = 1 .. Len(other) /\ Len(other) \in Nat
      /\ DOMAIN table = 1 .. Len(table) /\ Len(table) \in Nat /\ m \in Methods
  OBVIOUS
<1>2. ASSUME table = <<>>, Unique(other) PROVE Missing(t, m)
  <2>1. Len(t) = k /\ \A i \in 1 .. k : t[i] = other[i]
    BY <1>2 DEF Extended
  <2> SUFFICES ASSUME NEW i \in DOMAIN t, t[i].signature = m.signature PROVE FALSE
    BY DEF Missing, Slots
  <2>2. i \in DOMAIN other /\ other[i].signature = other[n].signature /\ i # n
    BY <1>1, <2>1
  <2> QED
    BY <1>2, <2>2 DEF Unique
<1>3. CASE Missing(t, m)
  <2>1. PICK u : u = Append(t, m)
    OBVIOUS
  <2>2. /\ u \in Seq(Methods) /\ Len(u) = Len(t) + 1 /\ DOMAIN u = 1 .. Len(t) + 1
        /\ \A i \in 1 .. Len(t) : u[i] = t[i]
        /\ u[Len(t) + 1] = m
    BY <1>1, <2>1
  <2>3. \A i \in DOMAIN t : t[i].signature # m.signature
    BY <1>3 DEF Missing, Slots
  <2>4. Len(table) <= Len(u) /\ \A i \in 1 .. Len(table) : u[i] = table[i]
    <3>1. Len(table) <= Len(t) /\ \A i \in 1 .. Len(table) : t[i] = table[i]
      BY DEF Extended
    <3>2. \A i \in 1 .. Len(table) : i \in 1 .. Len(t)
      BY <1>1, <3>1
    <3> QED
      BY <1>1, <2>2, <3>1, <3>2
  <2>5. Unique(table) => Unique(u)
    <3> SUFFICES ASSUME Unique(table), NEW i \in DOMAIN u, NEW j \in DOMAIN u, u[i].signature = u[j].signature
                 PROVE  i = j
      BY DEF Unique
    <3>1. (i \in DOMAIN t /\ u[i] = t[i]) \/ (i = Len(t) + 1 /\ u[i] = m)
      BY <1>1, <2>2
    <3>2. (j \in DOMAIN t /\ u[j] = t[j]) \/ (j = Len(t) + 1 /\ u[j] = m)
      BY <1>1, <2>2
    <3>3. Unique(t)
      BY DEF Extended
    <3> QED
      BY <2>3, <3>1, <3>2, <3>3 DEF Unique
  <2>6. table = <<>> /\ Unique(other) => Len(u) = n /\ \A i \in 1 .. n : u[i] = other[i]
    <3> SUFFICES ASSUME table = <<>>, Unique(other) PROVE Len(u) = n /\ \A i \in 1 .. n : u[i] = other[i]
      OBVIOUS
    <3>1. Len(t) = k /\ \A i \in 1 .. k : t[i] = other[i]
      BY DEF Extended
    <3> QED
      BY <2>2, <3>1
  <2>7. \A j \in 1 .. n : ~Missing(u, other[j])
    <3> SUFFICES ASSUME NEW j \in 1 .. n PROVE ~Missing(u, other[j])
      OBVIOUS
    <3>1. CASE j = n
      <4>1. Len(t) + 1 \in DOMAIN u /\ u[Len(t) + 1] = other[j]
        BY <1>1, <2>2, <3>1
      <4>2. Len(t) + 1 \in Slots(u, other[j].signature)
        BY <4>1 DEF Slots
      <4> QED
        BY <4>2 DEF Missing
    <3>2. CASE j # n
      <4>1. j \in 1 .. k
        BY <3>2
      <4>2. ~Missing(t, other[j])
        BY <4>1 DEF Extended
      <4>3. PICK i \in DOMAIN t : t[i].signature = other[j].signature
        BY <4>2 DEF Missing, Slots
      <4>4. i \in DOMAIN u /\ u[i] = t[i]
        BY <1>1, <2>2
      <4> QED
        BY <4>3, <4>4 DEF Missing, Slots
    <3> QED
      BY <3>1, <3>2
  <2>8. \A i \in DOMAIN u : i <= Len(table) \/ \E j \in DOMAIN other : u[i] = other[j]
    <3> SUFFICES ASSUME NEW i \in DOMAIN u PROVE i <= Len(table) \/ \E j \in DOMAIN other : u[i] = other[j]
      OBVIOUS
    <3>1. (i \in DOMAIN t /\ u[i] = t[i]) \/ (i = Len(t) + 1 /\ u[i] = m)
      BY <1>1, <2>2
    <3> QED
      BY <3>1 DEF Extended
  <2>9. Extended(u, table, other, n)
    BY <2>4, <2>5, <2>6, <2>7, <2>8 DEF Extended
  <2> QED
    BY <1>3, <2>1, <2>9
<1>4. CASE ~Missing(t, m)
  <2>1. ~(table = <<>> /\ Unique(other))
    BY <1>2, <1>4
  <2>2. \A j \in 1 .. n : ~Missing(t, other[j])
    <3> SUFFICES ASSUME NEW j \in 1 .. n PROVE ~Missing(t, other[j])
      OBVIOUS
    <3>1. j = n \/ j \in 1 .. k
      OBVIOUS
    <3> QED
      BY <1>4, <3>1 DEF Extended
  <2>3. Extended(t, table, other, n)
    BY <2>1, <2>2 DEF Extended
  <2> QED
    BY <1>4, <2>3
<1> QED
  BY <1>3, <1>4

LEMMA MergedFacts ==
  ASSUME NEW table \in Seq(Methods), NEW other \in Seq(Methods)
  PROVE  Merged(table, other) \in Seq(Methods) /\ Extended(Merged(table, other), table, other, Len(other))
<1>1. PICK f : Lasting(f, table, other) /\ Merged(table, other) = f[Len(other)]
  BY MergedSteps
<1>2. PICK n \in Nat : n = Len(other) /\ DOMAIN other = 1 .. n
  OBVIOUS
<1>3. /\ \A i \in 0 .. n : f[i] \in Seq(Methods)
      /\ f[0] = table
      /\ \A i \in 1 .. n : f[i] = IF Missing(f[i - 1], other[i]) THEN Append(f[i - 1], other[i]) ELSE f[i - 1]
  BY <1>1, <1>2 DEF Lasting
<1> DEFINE S == {k \in Nat : k \in 0 .. n => Extended(f[k], table, other, k)}
<1>4. 0 \in S
  <2>1. DOMAIN table = 1 .. Len(table) /\ Len(table) \in Nat
    OBVIOUS
  <2>2. table = <<>> => Len(table) = 0
    OBVIOUS
  <2>3. Extended(table, table, other, 0)
    BY <2>1, <2>2 DEF Extended
  <2> QED
    BY <1>3, <2>3
<1>5. ASSUME NEW k \in Nat, k \in S PROVE k + 1 \in S
  <2> SUFFICES ASSUME k + 1 \in 0 .. n PROVE Extended(f[k + 1], table, other, k + 1)
    OBVIOUS
  <2>1. PICK l : l = k + 1
    OBVIOUS
  <2>2. k \in 0 .. n /\ l \in 1 .. n /\ l - 1 = k /\ l \in DOMAIN other
    BY <1>2, <2>1
  <2>3. f[k] \in Seq(Methods) /\ Extended(f[k], table, other, k)
    BY <1>3, <1>5, <2>2
  <2>4. PICK m : m = other[l]
    OBVIOUS
  <2>5. Extended(IF Missing(f[k], m) THEN Append(f[k], m) ELSE f[k], table, other, l)
    BY <2>1, <2>2, <2>3, <2>4, ExtendedOne
  <2>6. f[l] = IF Missing(f[k], m) THEN Append(f[k], m) ELSE f[k]
    BY <1>3, <2>2, <2>4
  <2> QED
    BY <2>1, <2>5, <2>6
<1>6. \A k \in Nat : k \in S
  <2> HIDE DEF S
  <2> QED
    BY <1>4, <1>5, Induction
<1>7. n \in 0 .. n /\ n \in S
  BY <1>6
<1> QED
  BY <1>1, <1>2, <1>3, <1>7

(* Places in a table. *)
LEMMA FirstSlotIn ==
  ASSUME NEW table \in Seq(Methods), NEW s, Slots(table, s) # {}
  PROVE  /\ FirstSlot(table, s) \in DOMAIN table
         /\ table[FirstSlot(table, s)].signature = s
<1>1. Slots(table, s) \in SUBSET Nat
  BY DEF Slots
<1>2. PICK x \in Slots(table, s) : \A y \in Slots(table, s) : x <= y
  BY <1>1, Least
<1>3. FirstSlot(table, s) \in Slots(table, s)
  BY <1>2 DEF FirstSlot
<1> QED
  BY <1>3 DEF Slots

LEMMA PlacedFacts ==
  ASSUME NEW table \in Seq(Methods), NEW m \in Methods, NEW slot \in Nat,
         slot = Len(table) + 1 \/ (slot \in DOMAIN table /\ table[slot].signature = m.signature)
  PROVE  /\ Placed(table, slot, m) \in Seq(Methods)
         /\ ExtendsTable(table, Placed(table, slot, m))
         /\ Unique(table) /\ (slot = Len(table) + 1 => Missing(table, m))
              => Unique(Placed(table, slot, m))
         /\ slot \in DOMAIN Placed(table, slot, m) /\ Placed(table, slot, m)[slot] = m
<1>1. DOMAIN table = 1 .. Len(table) /\ Len(table) \in Nat /\ \A i \in DOMAIN table : table[i] \in Methods
  OBVIOUS
<1>2. CASE slot = Len(table) + 1
  <2>1. PICK u : u = Append(table, m)
    OBVIOUS
  <2>2. /\ u \in Seq(Methods) /\ Len(u) = Len(table) + 1 /\ DOMAIN u = 1 .. Len(table) + 1
        /\ \A i \in 1 .. Len(table) : u[i] = table[i]
        /\ u[slot] = m
    BY <1>1, <1>2, <2>1
  <2>3. Unique(table) /\ Missing(table, m) => Unique(u)
    <3> SUFFICES ASSUME Unique(table), Missing(table, m),
                        NEW i \in DOMAIN u, NEW j \in DOMAIN u, u[i].signature = u[j].signature
                 PROVE  i = j
      BY DEF Unique
    <3>1. (i \in DOMAIN table /\ u[i] = table[i]) \/ (i = slot /\ u[i] = m)
      BY <1>1, <1>2, <2>2
    <3>2. (j \in DOMAIN table /\ u[j] = table[j]) \/ (j = slot /\ u[j] = m)
      BY <1>1, <1>2, <2>2
    <3>3. \A k \in DOMAIN table : table[k].signature # m.signature
      BY DEF Missing, Slots
    <3> QED
      BY <3>1, <3>2, <3>3 DEF Unique
  <2>4. Placed(table, slot, m) = u
    BY <1>2, <2>1 DEF Placed
  <2>5. ExtendsTable(table, u) /\ slot \in DOMAIN u
    BY <1>1, <1>2, <2>2 DEF ExtendsTable
  <2> QED
    BY <1>2, <2>2, <2>3, <2>4, <2>5
<1>3. CASE slot # Len(table) + 1
  <2>1. slot \in DOMAIN table /\ table[slot].signature = m.signature
    BY <1>3
  <2>2. PICK u : u = [table EXCEPT ![slot] = m]
    OBVIOUS
  <2>3. /\ u \in Seq(Methods) /\ Len(u) = Len(table) /\ DOMAIN u = DOMAIN table
        /\ \A i \in DOMAIN table : u[i].signature = table[i].signature
        /\ u[slot] = m
    BY <1>1, <2>1, <2>2
  <2>4. Placed(table, slot, m) = u
    BY <1>3, <2>2 DEF Placed
  <2>5. ExtendsTable(table, u)
    BY <1>1, <2>3 DEF ExtendsTable
  <2>6. Unique(table) => Unique(u)
    BY <2>3 DEF Unique
  <2> QED
    BY <1>3, <2>1, <2>3, <2>4, <2>5, <2>6
<1> QED
  BY <1>2, <1>3

LEMMA ExtendsAll ==
  ASSUME NEW a \in Seq(Methods), NEW b \in Seq(Methods), NEW c \in Seq(Methods),
         ExtendsTable(a, b), ExtendsTable(b, c)
  PROVE  ExtendsTable(a, c)
<1>1. Len(a) \in Nat /\ Len(b) \in Nat /\ Len(c) \in Nat
  OBVIOUS
<1> QED
  BY <1>1 DEF ExtendsTable

-----------------------------------------------------------------------------
(* What there is to do. *)

LEMMA SeqMore ==
  ASSUME NEW S, NEW T, S \subseteq T, NEW s \in Seq(S)
  PROVE  s \in Seq(T)
<1>1. PICK n \in Nat : s \in [1 .. n -> S]
  BY SeqDef
<1>2. s \in [1 .. n -> T]
  BY <1>1
<1> QED
  BY <1>2, SeqDef

LEMMA Joined ==
  ASSUME NEW T, NEW a \in Seq(T), NEW b \in Seq(T)
  PROVE  a \o b \in Seq(T)
OBVIOUS

LEMMA SeqBuilt ==
  ASSUME NEW T, NEW n \in Nat, NEW s, DOMAIN s = 1 .. n, s = [i \in DOMAIN s |-> s[i]],
         \A i \in 1 .. n : s[i] \in T
  PROVE  s \in Seq(T)
<1>1. s \in [1 .. n -> T]
  OBVIOUS
<1> QED
  BY <1>1, SeqDef

LEMMA MethodIn ==
  ASSUME NEW c \in Classes, NEW i \in DOMAIN program[c].methods
  PROVE  Method(c, i) \in Methods /\ Method(c, i).class = c
BY DEF Methods, Method

LEMMA OwnMethodsType ==
  ASSUME program \in Programs, NEW c \in Classes
  PROVE  OwnMethods(c) \in Seq(Declarations(c))
<1>1. PICK ms : ms = program[c].methods
  OBVIOUS
<1>2. PICK n \in Nat : DOMAIN ms = 1 .. n
  <2>1. ms \in Seq([signature : STRING, modifier : Modifiers])
    BY <1>1, ProgramFacts
  <2> QED
    BY <2>1
<1>3. PICK s : s = OwnMethods(c)
  OBVIOUS
<1>4. DOMAIN s = 1 .. n /\ s = [i \in DOMAIN s |-> s[i]] /\ \A i \in 1 .. n : s[i] = Declare(Method(c, i))
  BY <1>1, <1>2, <1>3 DEF OwnMethods
<1>5. \A i \in 1 .. n : s[i] \in Declarations(c)
  BY <1>1, <1>2, <1>4 DEF Declarations
<1>6. s \in Seq(Declarations(c))
  BY <1>4, <1>5, SeqBuilt
<1> QED
  BY <1>3, <1>6

LEMMA ImplementationsType ==
  ASSUME program \in Programs, vtables \in [Classes -> Seq(Methods)], NEW i \in Interfaces, NEW c
  PROVE  Implementations(i) \in Seq(Later(c))
<1>1. vtables[i] \in Seq(Methods)
  BY ProgramFacts
<1>2. PICK n \in Nat : DOMAIN vtables[i] = 1 .. n
  BY <1>1
<1>3. PICK s : s = [k \in DOMAIN vtables[i] |-> Fills(i, k)]
  OBVIOUS
<1>4. DOMAIN s = 1 .. n /\ s = [k \in DOMAIN s |-> s[k]] /\ \A k \in 1 .. n : s[k] = Fills(i, k)
  BY <1>2, <1>3
<1>5. \A k \in 1 .. n : s[k] \in Later(c)
  BY <1>4 DEF Later, Fills
<1>6. s \in Seq(Later(c))
  BY <1>4, <1>5, SeqBuilt
<1>7. Opens(i) \in Later(c)
  BY DEF Later, Opens
<1>8. <<Opens(i)>> \in Seq(Later(c))
  BY <1>7
<1>9. <<Opens(i)>> \o s \in Seq(Later(c))
  BY <1>6, <1>8, Joined
<1> QED
  BY <1>3, <1>9 DEF Implementations

LEMMA AllImplementations ==
  ASSUME program \in Programs, vtables \in [Classes -> Seq(Methods)], NEW c \in Classes, NEW seqs,
         seqs = [k \in DOMAIN AllInterfaces(c) |-> Implementations(AllInterfaces(c)[k])]
  PROVE  seqs \in Seq(Seq(Later(c))) /\ FlattenSeq(seqs) \in Seq(Later(c))
<1>1. PICK is : is = AllInterfaces(c)
  OBVIOUS
<1>2. is \in Seq(Interfaces)
  BY <1>1, AllInterfacesType
<1>3. PICK n \in Nat : DOMAIN is = 1 .. n /\ \A k \in 1 .. n : is[k] \in Interfaces
  BY <1>2
<1>4. DOMAIN seqs = 1 .. n /\ seqs = [k \in DOMAIN seqs |-> seqs[k]] /\ \A k \in 1 .. n : seqs[k] = Implementations(is[k])
  BY <1>1, <1>3
<1> DEFINE T == Seq(Later(c))
<1>5. \A k \in 1 .. n : seqs[k] \in T
  BY <1>3, <1>4, ImplementationsType
<1>6. seqs \in Seq(T)
  <2> HIDE DEF T
  <2> QED
    BY <1>4, <1>5, SeqBuilt
<1> QED
  BY <1>6, FlattenType

LEMMA TodoStart ==
  ASSUME program \in Programs, vtables \in [Classes -> Seq(Methods)], NEW c \in Classes
  PROVE  /\ TodoOK(c, Todo(c))
         /\ program[c].base # None => Todo(c) # <<>> /\ Head(Todo(c)) = Inherits(program[c].base)
<1>1. CASE c \in Interfaces
  <2>1. PICK is : is = program[c].implements
    OBVIOUS
  <2>2. is \in Seq(Interfaces) /\ program[c].base = IF is = <<>> THEN None ELSE Head(is)
    BY <1>1, <2>1, ProgramFacts
  <2>3. PICK n \in Nat : DOMAIN is = 1 .. n /\ n = Len(is) /\ \A k \in 1 .. n : is[k] \in Interfaces
    BY <2>2
  <2>4. PICK s : s = [i \in DOMAIN is |-> Inherits(is[i])]
    OBVIOUS
  <2>5. DOMAIN s = 1 .. n /\ s = [k \in DOMAIN s |-> s[k]] /\ \A k \in 1 .. n : s[k] = Inherits(is[k])
    BY <2>3, <2>4
  <2> DEFINE T == Extending \cup Declarations(c)
  <2>6. \A k \in 1 .. n : s[k] \in T
    BY <2>3, <2>5 DEF Extending, Inherits
  <2>7. s \in Seq(T)
    <3> HIDE DEF T
    <3> QED
      BY <2>5, <2>6, SeqBuilt
  <2>8. OwnMethods(c) \in Seq(T)
    <3>1. Declarations(c) \subseteq T
      OBVIOUS
    <3> HIDE DEF T
    <3> QED
      BY <3>1, OwnMethodsType, SeqMore
  <2>9. Todo(c) = s \o OwnMethods(c)
    BY <1>1, <2>1, <2>4 DEF Todo
  <2>10. Todo(c) \in Seq(T)
    <3> HIDE DEF T
    <3> QED
      BY <2>7, <2>8, <2>9, Joined
  <2>11. ASSUME program[c].base # None
         PROVE  Todo(c) # <<>> /\ Head(Todo(c)) = Inherits(program[c].base)
    <3>1. is # <<>> /\ program[c].base = is[1] /\ 1 \in 1 .. n
      BY <2>2, <2>3, <2>11
    <3>2. s # <<>> /\ s[1] = Inherits(program[c].base) /\ Len(s) >= 1
      <4>1. n >= 1
        BY <3>1
      <4>2. Len(s) = n
        <5> HIDE DEF T
        <5> QED
          BY <2>5, <2>7
      <4> QED
        BY <2>5, <3>1, <4>1, <4>2
    <3>3. PICK o : o = OwnMethods(c)
      OBVIOUS
    <3>4. s \o o # <<>> /\ Head(s \o o) = s[1]
      <4> HIDE DEF T
      <4> QED
        BY <2>7, <2>8, <3>2, <3>3
    <3> QED
      BY <2>9, <3>2, <3>3, <3>4
  <2> QED
    BY <1>1, <2>10, <2>11 DEF TodoOK
<1>2. CASE c \notin Interfaces
  <2>1. PICK seqs : seqs = [k \in DOMAIN AllInterfaces(c) |-> Implementations(AllInterfaces(c)[k])]
    OBVIOUS
  <2>2. FlattenSeq(seqs) \in Seq(Later(c))
    BY <2>1, AllImplementations
  <2>3. OwnMethods(c) \in Seq(Later(c))
    <3>1. Declarations(c) \subseteq Later(c)
      BY DEF Later
    <3> QED
      BY <3>1, OwnMethodsType, SeqMore
  <2>4. PICK o : o = OwnMethods(c)
    OBVIOUS
  <2>5. PICK z : z = FlattenSeq(seqs)
    OBVIOUS
  <2>6. CASE program[c].base = None
    <3>1. Todo(c) = <<>> \o o \o z
      BY <1>2, <2>1, <2>4, <2>5, <2>6 DEF Todo
    <3>2. <<>> \in Seq(Later(c))
      OBVIOUS
    <3>3. <<>> \o o \in Seq(Later(c))
      BY <2>3, <2>4, <3>2, Joined
    <3>4. Todo(c) \in Seq(Later(c))
      BY <2>2, <2>5, <3>1, <3>3, Joined
    <3> QED
      BY <1>2, <2>6, <3>4 DEF TodoOK
  <2>7. CASE program[c].base # None
    <3>1. PICK h : h = Inherits(program[c].base)
      OBVIOUS
    <3>2. Todo(c) = <<h>> \o o \o z
      BY <1>2, <2>1, <2>4, <2>5, <2>7, <3>1 DEF Todo
    <3> DEFINE T == Later(c) \cup {h}
    <3>3. o \in Seq(Later(c)) /\ z \in Seq(Later(c)) /\ o \o z \in Seq(Later(c))
      BY <2>2, <2>3, <2>4, <2>5, Joined
    <3>4. o \in Seq(T) /\ z \in Seq(T) /\ h \in T
      <4>1. Later(c) \subseteq T /\ h \in T
        OBVIOUS
      <4> HIDE DEF T
      <4> QED
        BY <3>3, <4>1, SeqMore
    <3>5. /\ <<h>> \o o \o z # <<>> /\ Head(<<h>> \o o \o z) = h
          /\ Tail(<<h>> \o o \o z) = o \o z
      <4> HIDE DEF T
      <4>1. PICK y : y = <<h>> \o o \o z
        OBVIOUS
      <4>2. /\ y \in Seq(T) /\ Len(y) = 1 + Len(o) + Len(z) /\ y[1] = h
            /\ \A i \in 1 .. Len(o) : y[1 + i] = o[i]
            /\ \A i \in 1 .. Len(z) : y[1 + Len(o) + i] = z[i]
        BY <3>4, <4>1
      <4>3. PICK x : x = o \o z
        OBVIOUS
      <4>4. /\ x \in Seq(T) /\ Len(x) = Len(o) + Len(z)
            /\ \A i \in 1 .. Len(o) : x[i] = o[i]
            /\ \A i \in 1 .. Len(z) : x[Len(o) + i] = z[i]
        BY <3>4, <4>3
      <4>5. Len(o) \in Nat /\ Len(z) \in Nat
        BY <3>4
      <4>6. \A i \in 1 .. Len(x) : i \in 1 .. Len(o) \/ (i - Len(o) \in 1 .. Len(z) /\ i = Len(o) + (i - Len(o)))
        BY <4>4, <4>5
      <4>7. \A i \in 1 .. Len(x) : y[1 + i] = x[i]
        <5> SUFFICES ASSUME NEW i \in 1 .. Len(x) PROVE y[1 + i] = x[i]
          OBVIOUS
        <5>1. CASE i \in 1 .. Len(o)
          BY <4>2, <4>4, <5>1
        <5>2. CASE i \notin 1 .. Len(o)
          <6>1. PICK j \in 1 .. Len(z) : i = Len(o) + j
            BY <4>6, <5>2
          <6>2. 1 + i = 1 + Len(o) + j
            BY <4>5, <6>1
          <6> QED
            BY <4>2, <4>4, <6>1, <6>2
        <5> QED
          BY <5>1, <5>2
      <4>8. Len(Tail(y)) = Len(x) /\ \A i \in 1 .. Len(x) : Tail(y)[i] = x[i]
        BY <4>2, <4>4, <4>5, <4>7
      <4>9. Tail(y) \in Seq(T) /\ y # <<>> /\ Head(y) = h
        BY <4>2, <4>5
      <4>10. Tail(y) = x
        BY <4>4, <4>8, <4>9, SeqEqual
      <4> QED
        BY <4>1, <4>3, <4>9, <4>10
    <3> QED
      BY <1>2, <2>7, <3>1, <3>2, <3>3, <3>5 DEF TodoOK
  <2> QED
    BY <2>6, <2>7
<1> QED
  BY <1>1, <1>2

LEMMA SeqSplit ==
  ASSUME NEW T, NEW s \in Seq(T), s # <<>>
  PROVE  Head(s) \in T /\ Tail(s) \in Seq(T)
OBVIOUS

LEMMA TodoNext ==
  ASSUME program \in Programs, NEW c \in Classes, NEW todo, TodoOK(c, todo), todo # <<>>,
         NEW h, h = Head(todo)
  PROVE  /\ TodoOK(c, Tail(todo))
         /\ h.op \in {"inherit", "declare", "interface", "implement"}
         /\ h.op = "inherit" => /\ h.from \in Classes /\ h.from \notin {None}
                                /\ c \in Interfaces => h.from \in Interfaces
                                /\ c \notin Interfaces => h = Inherits(program[c].base) /\ program[c].base = h.from
         /\ h.op = "declare" => h.method \in Methods /\ h.method.class = c
         /\ h.op \in {"interface", "implement"} => c \notin Interfaces /\ h.interface \in Interfaces
         /\ h.op = "implement" => h.index \in Nat
<1>1. ASSUME NEW d \in Declarations(c) PROVE d.op = "declare" /\ d.method \in Methods /\ d.method.class = c
  BY MethodIn DEF Declarations, Declare
<1>2. CASE c \in Interfaces
  <2> DEFINE T == Extending \cup Declarations(c)
  <2>1. todo \in Seq(T)
    BY <1>2 DEF TodoOK
  <2>2. h \in T /\ Tail(todo) \in Seq(T)
    <3> HIDE DEF T
    <3> QED
      BY <2>1, SeqSplit
  <2>3. TodoOK(c, Tail(todo))
    BY <1>2, <2>2 DEF TodoOK
  <2>4. CASE h \in Extending
    <3>1. h.op = "inherit" /\ h.from \in Interfaces
      BY <2>4 DEF Extending
    <3> QED
      BY <1>2, <2>3, <3>1, ProgramFacts
  <2>5. CASE h \in Declarations(c)
    BY <1>1, <1>2, <2>3, <2>5
  <2> QED
    BY <2>2, <2>4, <2>5
<1>3. CASE c \notin Interfaces /\ todo \in Seq(Later(c))
  <2>1. h \in Later(c) /\ Tail(todo) \in Seq(Later(c))
    BY <1>3, SeqSplit
  <2>2. TodoOK(c, Tail(todo))
    BY <1>3, <2>1 DEF TodoOK
  <2>3. CASE h \in Declarations(c)
    BY <1>1, <1>3, <2>2, <2>3
  <2>4. CASE h \in [op : {"interface"}, interface : Interfaces]
    <3>1. h.op = "interface" /\ h.interface \in Interfaces
      BY <2>4
    <3> QED
      BY <1>3, <2>2, <3>1
  <2>5. CASE h \in [op : {"implement"}, interface : Interfaces, index : Nat]
    <3>1. h.op = "implement" /\ h.interface \in Interfaces /\ h.index \in Nat
      BY <2>5
    <3> QED
      BY <1>3, <2>2, <3>1
  <2> QED
    BY <2>1, <2>3, <2>4, <2>5 DEF Later
<1>4. CASE c \notin Interfaces /\ todo \notin Seq(Later(c))
  <2>1. program[c].base # None /\ h = Inherits(program[c].base) /\ Tail(todo) \in Seq(Later(c))
    BY <1>4 DEF TodoOK
  <2>2. TodoOK(c, Tail(todo))
    BY <1>4, <2>1 DEF TodoOK
  <2>3. h.op = "inherit" /\ h.from = program[c].base
    BY <2>1 DEF Inherits
  <2>4. h.from \in Classes /\ h.from # None
    BY <2>1, <2>3, ProgramFacts DEF Beings
  <2> QED
    BY <1>4, <2>1, <2>2, <2>3, <2>4
<1> QED
  BY <1>2, <1>3, <1>4

(* Activations. *)
Items ==
  [op : {"inherit"}, from : Classes] \cup [op : {"declare"}, method : Methods]
  \cup [op : {"interface"}, interface : Interfaces]
  \cup [op : {"implement"}, interface : Interfaces, index : Nat]
Activations == [class : Classes, todo : Seq(Items), table : Seq(Methods)]

ActivationOK(a) ==
  /\ TodoOK(a.class, a.todo)
  /\ a.class \in Interfaces => Unique(a.table)

(* The table of the base comes first. *)
Based(a, done, vt) ==
  LET base == program[a.class].base
  IN  base # None => \/ a.todo # <<>> /\ Head(a.todo) = Inherits(base) /\ a.table = <<>>
                     \/ base \in done /\ ExtendsTable(vt[base], a.table)
Complies(c, done, vt) ==
  LET base == program[c].base
  IN  base # None => base \in done /\ ExtendsTable(vt[base], vt[c])

(* The stack, the tables that are ready, and whether a cycle was found. *)
TablesOK(cs, done, vt, circular) ==
  /\ cs \in Seq(Activations) /\ done \in SUBSET Classes /\ vt \in [Classes -> Seq(Methods)]
  /\ \A i \in DOMAIN cs : ActivationOK(cs[i]) /\ cs[i].class \notin done
  /\ \A i, j \in DOMAIN cs : cs[i].class = cs[j].class => i = j
  /\ \A c \in done : c \in Interfaces => Unique(vt[c])
  /\ ~circular => /\ \A i \in DOMAIN cs : Based(cs[i], done, vt)
                  /\ \A c \in done : Complies(c, done, vt)

LEMMA ItemParts ==
  ASSUME program \in Programs, NEW c \in Classes
  PROVE  /\ Declarations(c) \subseteq Items /\ Later(c) \subseteq Items /\ Extending \subseteq Items
         /\ program[c].base # None => Inherits(program[c].base) \in Items
<1>1. Declarations(c) \subseteq [op : {"declare"}, method : Methods]
  BY MethodIn DEF Declarations, Declare
<1>2. Interfaces \subseteq Classes
  BY DEF Interfaces
<1>3. program[c].base # None => program[c].base \in Classes
  BY ProgramFacts DEF Beings
<1> QED
  BY <1>1, <1>2, <1>3 DEF Later, Extending, Items, Inherits

LEMMA TodoType ==
  ASSUME program \in Programs, vtables \in [Classes -> Seq(Methods)], NEW c \in Classes
  PROVE  Todo(c) \in Seq(Items)
<1> DEFINE own == OwnMethods(c)
<1> DEFINE T == Items
<1>1. OwnMethods(c) \in Seq(Declarations(c))
  BY OwnMethodsType
<1>2. own \in Seq(T)
  BY <1>1, ItemParts, SeqMore
<1>3. CASE c \in Interfaces
  <2> DEFINE ext == [i \in DOMAIN program[c].implements |-> Inherits(program[c].implements[i])]
  <2>1. program[c].implements \in Seq(Interfaces)
    BY ProgramFacts
  <2>2. PICK n \in Nat : n = Len(program[c].implements)
    BY <2>1
  <2>3. DOMAIN ext = 1 .. n /\ ext = [i \in DOMAIN ext |-> ext[i]]
    BY <2>1, <2>2
  <2>4. \A i \in 1 .. n : ext[i] \in T
    BY <2>1, <2>2 DEF Items, Inherits, Interfaces
  <2>5. Todo(c) = ext \o own
    BY <1>3 DEF Todo
  <2> HIDE DEF ext, own, T
  <2>6. ext \in Seq(T)
    BY <2>3, <2>4, SeqBuilt
  <2>7. ext \o own \in Seq(T)
    BY <2>6, <1>2, Joined
  <2> QED
    BY <2>5, <2>7 DEF T
<1>4. CASE c \notin Interfaces
  <2> DEFINE base == IF program[c].base = None THEN <<>> ELSE <<Inherits(program[c].base)>>
  <2> DEFINE impl == [k \in DOMAIN AllInterfaces(c) |-> Implementations(AllInterfaces(c)[k])]
  <2>1. base \in Seq(T)
    BY ItemParts
  <2>2. FlattenSeq(impl) \in Seq(Later(c))
    BY AllImplementations
  <2>3. FlattenSeq(impl) \in Seq(T)
    BY <2>2, ItemParts, SeqMore
  <2>4. Todo(c) = (base \o own) \o FlattenSeq(impl)
    BY <1>4 DEF Todo
  <2> HIDE DEF base, own, T, impl
  <2>5. base \o own \in Seq(T)
    BY <2>1, <1>2, Joined
  <2>6. (base \o own) \o FlattenSeq(impl) \in Seq(T)
    BY <2>5, <2>3, Joined
  <2> QED
    BY <2>4, <2>6 DEF T
<1> QED
  BY <1>3, <1>4

LEMMA ActivationStarts ==
  ASSUME program \in Programs, NEW cs, NEW done, NEW circular,
         TablesOK(cs, done, vtables, circular), NEW c \in Classes, NEW a, a = Activation(c)
  PROVE  /\ a \in Activations /\ a.class = c /\ ActivationOK(a) /\ Based(a, done, vtables)
<1>1. vtables \in [Classes -> Seq(Methods)]
  BY DEF TablesOK
<1>2. Todo(c) \in Seq(Items)
  BY <1>1, TodoType
<1>3. /\ TodoOK(c, Todo(c))
      /\ program[c].base # None => Todo(c) # <<>> /\ Head(Todo(c)) = Inherits(program[c].base)
  BY <1>1, TodoStart
<1>4. a.class = c /\ a.todo = Todo(c) /\ a.table = <<>> /\ a = [class |-> c, todo |-> Todo(c), table |-> <<>>]
  BY DEF Activation
<1>5. a \in Activations
  BY <1>2, <1>4 DEF Activations
<1>6. ActivationOK(a)
  BY <1>3, <1>4 DEF ActivationOK, Unique
<1>7. Based(a, done, vtables)
  BY <1>3, <1>4 DEF Based
<1> QED
  BY <1>4, <1>5, <1>6, <1>7

(* The stack: a new activation on top, another in the place of the last, and
   the last one ended. *)
LEMMA Pushed ==
  ASSUME NEW cs, NEW done, NEW vt, NEW circular, TablesOK(cs, done, vt, circular),
         NEW a \in Activations, ActivationOK(a), Based(a, done, vt), a.class \notin done,
         \A i \in DOMAIN cs : cs[i].class # a.class
  PROVE  TablesOK(Append(cs, a), done, vt, circular)
<1> DEFINE A == Activations
<1> DEFINE d == Append(cs, a)
<1>1. cs \in Seq(A) /\ a \in A
  BY DEF TablesOK
<1> HIDE DEF A
<1>2. d \in Seq(A) /\ Len(d) = Len(cs) + 1 /\ Len(cs) \in Nat /\ DOMAIN cs = 1 .. Len(cs) /\ DOMAIN d = 1 .. Len(d)
  BY <1>1
<1>3. \A i \in DOMAIN d : (i \in DOMAIN cs /\ d[i] = cs[i]) \/ (i = Len(d) /\ d[i] = a)
  BY <1>1, <1>2
<1> HIDE DEF d
<1>4. \A i \in DOMAIN d : ActivationOK(d[i]) /\ d[i].class \notin done
  BY <1>3 DEF TablesOK
<1>5. \A i, j \in DOMAIN d : d[i].class = d[j].class => i = j
  BY <1>3 DEF TablesOK
<1>6. ~circular => \A i \in DOMAIN d : Based(d[i], done, vt)
  BY <1>3 DEF TablesOK
<1>7. d \in Seq(Activations)
  BY <1>2 DEF A
<1> QED
  BY <1>4, <1>5, <1>6, <1>7 DEF TablesOK, d

Replaces(cs, n, a, done, vt, also) ==
  /\ cs # <<>> /\ n = Len(cs)
  /\ a \in Activations /\ a.class = cs[n].class /\ ActivationOK(a)
  /\ also \/ Based(a, done, vt)

LEMMA Advanced ==
  ASSUME NEW cs, NEW done, NEW vt, NEW also, TablesOK(cs, done, vt, also),
         NEW n, NEW a, Replaces(cs, n, a, done, vt, also)
  PROVE  TablesOK([cs EXCEPT ![n] = a], done, vt, also)
<1> DEFINE A == Activations
<1> DEFINE d == [cs EXCEPT ![n] = a]
<1>1. cs \in Seq(A) /\ a \in A /\ cs # <<>> /\ n = Len(cs)
  BY DEF TablesOK, Replaces
<1> HIDE DEF A
<1>2. d \in Seq(A) /\ DOMAIN d = DOMAIN cs /\ n \in DOMAIN cs
  BY <1>1
<1>3. \A i \in DOMAIN d : d[i] = IF i = n THEN a ELSE cs[i]
  BY <1>1, <1>2
<1> HIDE DEF d
<1>4. \A i \in DOMAIN d : d[i].class = cs[i].class
  BY <1>2, <1>3 DEF Replaces
<1>5. \A i \in DOMAIN d : ActivationOK(d[i]) /\ d[i].class \notin done
  BY <1>2, <1>3, <1>4 DEF TablesOK, Replaces
<1>6. \A i, j \in DOMAIN d : d[i].class = d[j].class => i = j
  BY <1>2, <1>4 DEF TablesOK
<1>7. ~also => \A i \in DOMAIN d : Based(d[i], done, vt)
  BY <1>2, <1>3 DEF TablesOK, Replaces
<1>8. d \in Seq(Activations)
  BY <1>2 DEF A
<1> QED
  BY <1>5, <1>6, <1>7, <1>8 DEF TablesOK, d

LEMMA Ended ==
  ASSUME NEW cs, NEW done, NEW vt, NEW circular, TablesOK(cs, done, vt, circular), cs # <<>>,
         NEW a, a = cs[Len(cs)], a.todo = <<>>, NEW c, c = a.class, program \in Programs
  PROVE  TablesOK(Front(cs), done \cup {c}, [vt EXCEPT ![c] = a.table], circular)
<1> DEFINE A == Activations
<1> DEFINE d == Front(cs)
<1> DEFINE D == done \cup {c}
<1> DEFINE w == [vt EXCEPT ![c] = a.table]
<1>1. cs \in Seq(A)
  BY DEF TablesOK
<1> HIDE DEF A
<1>2. Len(cs) \in Nat \ {0} /\ DOMAIN cs = 1 .. Len(cs) /\ \A i \in DOMAIN cs : cs[i] \in A
  BY <1>1
<1>3. d = SubSeq(cs, 1, Len(cs) - 1)
  BY DEF Front
<1>4. d \in Seq(A) /\ Len(d) = Len(cs) - 1 /\ DOMAIN d = 1 .. Len(d)
  BY <1>1, <1>2, <1>3
<1>5. \A i \in DOMAIN d : i \in DOMAIN cs /\ d[i] = cs[i] /\ i # Len(cs)
  BY <1>1, <1>2, <1>3, <1>4
<1>6. a \in Activations /\ Len(cs) \in DOMAIN cs
  BY <1>2 DEF A
<1>7. c \in Classes /\ a.table \in Seq(Methods)
  BY <1>6 DEF Activations
<1>8. c \notin done /\ ActivationOK(a) /\ (circular \/ Based(a, done, vt))
  BY <1>6 DEF TablesOK
<1>9. w \in [Classes -> Seq(Methods)] /\ w[c] = a.table /\ \A x \in Classes \ {c} : w[x] = vt[x]
  BY <1>7 DEF TablesOK
<1>10. done \in SUBSET Classes /\ D \in SUBSET Classes /\ done \subseteq D /\ c \in D
  BY <1>7 DEF TablesOK
<1> HIDE DEF d, D, w
<1>11. \A i \in DOMAIN d : d[i].class # c
  BY <1>5, <1>6 DEF TablesOK
<1>12. \A i \in DOMAIN d : ActivationOK(d[i]) /\ d[i].class \notin D
  BY <1>5, <1>11 DEF TablesOK, D
<1>13. \A i, j \in DOMAIN d : d[i].class = d[j].class => i = j
  BY <1>5 DEF TablesOK
<1>14. \A x \in D : x \in Interfaces => Unique(w[x])
  BY <1>8, <1>9, <1>10 DEF TablesOK, D, ActivationOK
<1>15. \A x \in done : w[x] = vt[x]
  BY <1>8, <1>9, <1>10
<1>16. ~circular => \A i \in DOMAIN d : Based(d[i], D, w)
  <2> SUFFICES ASSUME ~circular, NEW i \in DOMAIN d PROVE Based(d[i], D, w)
    OBVIOUS
  <2>1. Based(d[i], done, vt)
    BY <1>5 DEF TablesOK
  <2> QED
    BY <2>1, <1>10, <1>15 DEF Based
<1>17. ~circular => \A x \in D : Complies(x, D, w)
  <2> SUFFICES ASSUME ~circular, NEW x \in D PROVE Complies(x, D, w)
    OBVIOUS
  <2>1. CASE x \in done
    <3>1. Complies(x, done, vt)
      BY <2>1 DEF TablesOK
    <3> QED
      BY <3>1, <2>1, <1>10, <1>15 DEF Complies
  <2>2. CASE x = c
    <3>1. Based(a, done, vt)
      BY <1>8
    <3> QED
      BY <3>1, <2>2, <1>9, <1>10, <1>15 DEF Complies, Based
  <2> QED
    BY <2>1, <2>2 DEF D
<1>18. d \in Seq(Activations)
  BY <1>4 DEF A
<1> QED
  BY <1>9, <1>10, <1>12, <1>13, <1>14, <1>16, <1>17, <1>18 DEF TablesOK, d, D, w

-----------------------------------------------------------------------------
(* Types, and the invariant. *)
Phases == {Passes[i] : i \in DOMAIN Passes} \cup {"refused", "thrown"}
TypesOK ==
  /\ program \in Programs
  /\ phase \in Phases
  /\ pending \in SUBSET Classes
  /\ vtable_index \in [Methods -> Nat]
  /\ is_virtual \in SUBSET Methods /\ is_abstract \in SUBSET Methods
  /\ destructor \in [Classes -> Beings] /\ super_destructor \in [Classes -> Beings]
TInv == TypesOK /\ TablesOK(calls, calculated, vtables, CircularityFound)

LEMMA TypesStay ==
  ASSUME TypesOK, program' = program, phase' \in Phases, pending' \in SUBSET Classes,
         vtable_index' \in [Methods -> Nat], is_virtual' \in SUBSET Methods,
         is_abstract' \in SUBSET Methods,
         destructor' \in [Classes -> Beings], super_destructor' \in [Classes -> Beings]
  PROVE  TypesOK'
<1>1. Classes' = Classes /\ Methods' = Methods /\ Beings' = Beings
  BY SameProgram
<1> QED
  BY <1>1 DEF TypesOK, Phases, Passes

LEMMA SameNotions ==
  ASSUME program' = program
  PROVE  /\ Items' = Items /\ Activations' = Activations
         /\ \A a : ActivationOK(a)' <=> ActivationOK(a)
<1>1. Classes' = Classes /\ Interfaces' = Interfaces /\ Methods' = Methods
  BY SameProgram
<1>2. Items' = Items
  BY <1>1 DEF Items
<1>3. Activations' = Activations
  BY <1>1, <1>2 DEF Activations
<1>4. Extending' = Extending
  BY <1>1 DEF Extending
<1>5. \A c : Declarations(c)' = Declarations(c)
  BY DEF Declarations, Declare, Method
<1>6. \A c : Later(c)' = Later(c)
  BY <1>1, <1>5 DEF Later
<1>7. \A c, t : TodoOK(c, t)' <=> TodoOK(c, t)
  BY <1>1, <1>4, <1>5, <1>6 DEF TodoOK, Inherits
<1>8. \A a : ActivationOK(a)' <=> ActivationOK(a)
  BY <1>1, <1>7 DEF ActivationOK, Unique
<1> QED
  BY <1>2, <1>3, <1>8

LEMMA Concluded ==
  ASSUME TypesOK', program' = program,
         TablesOK(calls', calculated', vtables', CircularityFound')
  PROVE  TInv'
<1>1. Classes' = Classes /\ Interfaces' = Interfaces /\ Methods' = Methods
  BY SameProgram
<1>2. Activations' = Activations /\ \A a : ActivationOK(a)' <=> ActivationOK(a)
  BY SameNotions
<1>3. TablesOK(calls, calculated, vtables, CircularityFound)'
  BY <1>1, <1>2 DEF TablesOK, Based, Complies, Unique, ExtendsTable, Inherits
<1> QED
  BY <1>3 DEF TInv

LEMMA StillCircular ==
  ASSUME errors \subseteq errors'
  PROVE  CircularityFound => CircularityFound'
BY DEF CircularityFound

LEMMA Weakened ==
  ASSUME NEW cs, NEW done, NEW vt, NEW circular, TablesOK(cs, done, vt, circular),
         NEW also, circular => also
  PROVE  TablesOK(cs, done, vt, also)
BY DEF TablesOK

(* Steps that leave the tables alone. *)
LEMMA TablesAlone ==
  ASSUME TInv, TypesOK', program' = program, calls' = calls, calculated' = calculated,
         vtables' = vtables, errors' = errors
  PROVE  TInv'
<1>1. CircularityFound' = CircularityFound
  BY DEF CircularityFound
<1>2. TablesOK(calls', calculated', vtables', CircularityFound')
  BY <1>1 DEF TInv
<1> QED
  BY <1>2, Concluded

(* What the activation on top does. *)
LEMMA TopFacts ==
  ASSUME TInv, calls # <<>>, NEW n, n = Len(calls), NEW t, t = Top
  PROVE  /\ n \in DOMAIN calls /\ t = calls[n] /\ t \in Activations /\ ActivationOK(t)
         /\ t.class \in Classes /\ t.table \in Seq(Methods) /\ t.todo \in Seq(Items)
         /\ t.class \notin calculated
         /\ CircularityFound \/ Based(t, calculated, vtables)
<1> DEFINE A == Activations
<1>1. calls \in Seq(A)
  BY DEF TInv, TablesOK
<1> HIDE DEF A
<1>2. n \in DOMAIN calls /\ calls[n] \in A
  BY <1>1
<1>3. t = calls[n]
  BY DEF Top, Last
<1>4. t \in Activations
  BY <1>2, <1>3 DEF A
<1>5. t.class \in Classes /\ t.table \in Seq(Methods) /\ t.todo \in Seq(Items)
  BY <1>4 DEF Activations
<1> QED
  BY <1>2, <1>3, <1>4, <1>5 DEF TInv, TablesOK

LEMMA NextItem ==
  ASSUME TInv, calls # <<>>, NEW t, t = Top, t.todo # <<>>, NEW table \in Seq(Methods),
         t.class \in Interfaces => Unique(table), NEW z,
         z = [class |-> t.class, todo |-> Tail(t.todo), table |-> table]
  PROVE  z \in Activations /\ z.class = t.class /\ ActivationOK(z)
<1> DEFINE T == Items
<1>1. t.class \in Classes /\ t.todo \in Seq(T) /\ ActivationOK(t)
  BY TopFacts
<1>2. TodoOK(t.class, t.todo)
  BY <1>1 DEF ActivationOK
<1>3. TodoOK(t.class, Tail(t.todo))
  BY <1>1, <1>2, TodoNext DEF TInv, TypesOK
<1> HIDE DEF T
<1>4. Tail(t.todo) \in Seq(T)
  BY <1>1, SeqSplit
<1>5. Tail(t.todo) \in Seq(Items)
  BY <1>4 DEF T
<1>6. z.class = t.class /\ z.todo = Tail(t.todo) /\ z.table = table
  OBVIOUS
<1>7. z \in Activations
  BY <1>1, <1>5 DEF Activations
<1>8. ActivationOK(z)
  BY <1>3, <1>6 DEF ActivationOK
<1> QED
  BY <1>6, <1>7, <1>8

LEMMA ItemFacts ==
  ASSUME TInv, NEW op, Doing(op), NEW t, t = Top, NEW h, h = Item
  PROVE  /\ h = Head(t.todo) /\ h.op = op /\ t.todo # <<>> /\ calls # <<>>
         /\ op = "inherit" =>
              /\ h.from \in Classes
              /\ t.class \in Interfaces => h.from \in Interfaces
              /\ t.class \notin Interfaces => h = Inherits(program[t.class].base)
                                              /\ program[t.class].base = h.from
         /\ op = "declare" => h.method \in Methods /\ h.method.class = t.class
         /\ op \in {"interface", "implement"} => t.class \notin Interfaces /\ h.interface \in Interfaces
<1>1. h = Head(t.todo) /\ h.op = op /\ t.todo # <<>> /\ calls # <<>>
  BY DEF Doing, Item
<1>2. t.class \in Classes /\ TodoOK(t.class, t.todo)
  BY <1>1, TopFacts DEF ActivationOK
<1> QED
  BY <1>1, <1>2, TodoNext DEF TInv, TypesOK

(* An item other than an inheritance: the table grows. *)
LEMMA Proceeds ==
  ASSUME TInv, calls # <<>>, NEW t, t = Top, t.todo # <<>>, Head(t.todo).op # "inherit",
         NEW table \in Seq(Methods), t.class \in Interfaces => Unique(table),
         ExtendsTable(t.table, table), NEW also, CircularityFound => also
  PROVE  TablesOK(Advance(table), calculated, vtables, also)
<1> DEFINE z == [class |-> t.class, todo |-> Tail(t.todo), table |-> table]
<1>1. PICK n : n = Len(calls)
  OBVIOUS
<1>2. /\ t = calls[n] /\ t.table \in Seq(Methods)
      /\ CircularityFound \/ Based(t, calculated, vtables)
  BY <1>1, TopFacts
<1>3. z \in Activations /\ z.class = t.class /\ ActivationOK(z)
  BY NextItem
<1>4. z.table = table
  OBVIOUS
<1>5. Advance(table) = [calls EXCEPT ![n] = z]
  BY <1>1 DEF Advance
<1> HIDE DEF z
<1>6. t.class \in Classes /\ vtables \in [Classes -> Seq(Methods)] /\ calculated \in SUBSET Classes
  BY TopFacts DEF TInv, TablesOK
<1>7. Based(t, calculated, vtables) => Based(z, calculated, vtables)
  <2> SUFFICES ASSUME Based(t, calculated, vtables), NEW base, base = program[t.class].base, base # None
               PROVE  base \in calculated /\ ExtendsTable(vtables[base], table)
    BY <1>3, <1>4 DEF Based
  <2>1. base \in calculated /\ ExtendsTable(vtables[base], t.table)
    BY DEF Based, Inherits
  <2>2. vtables[base] \in Seq(Methods)
    BY <2>1, <1>6
  <2> QED
    BY <2>1, <2>2, <1>2, ExtendsAll
<1>8. also \/ Based(z, calculated, vtables)
  BY <1>2, <1>7
<1>9. TablesOK(calls, calculated, vtables, also)
  BY Weakened DEF TInv
<1>10. Replaces(calls, n, z, calculated, vtables, also)
  BY <1>1, <1>2, <1>3, <1>8 DEF Replaces
<1>11. TablesOK([calls EXCEPT ![n] = z], calculated, vtables, also)
  BY <1>9, <1>10, Advanced
<1> QED
  BY <1>5, <1>11

LEMMA ExtendsItself ==
  ASSUME NEW table \in Seq(Methods)
  PROVE  ExtendsTable(table, table)
BY DEF ExtendsTable

-----------------------------------------------------------------------------
(* One lemma for each action. *)

LEMMA InitTables ==
  ASSUME Init
  PROVE  TInv
<1>1. program \in Programs
  BY DEF Init
<1>2. Beings = Classes \cup {None}
  BY DEF Beings
<1>3. TypesOK
  BY <1>1, <1>2 DEF Init, TypesOK, Phases, Passes
<1>4. calls = <<>> /\ calculated = {} /\ vtables \in [Classes -> Seq(Methods)]
  BY DEF Init
<1>5. TablesOK(calls, calculated, vtables, CircularityFound)
  BY <1>4 DEF TablesOK
<1> QED
  BY <1>3, <1>5 DEF TInv

LEMMA NearestType ==
  ASSUME program \in Programs, destructor \in [Classes -> Beings], NEW c \in Classes
  PROVE  Nearest(c) \in Beings
<1> DEFINE has(x) == x # c /\ destructor[x] # None
<1> DEFINE n == {k \in Heights \ {0} :
              /\ Above[k][c] \notin {None, c} /\ has(Above[k][c])
              /\ \A j \in 0..(k - 1) : Named(c, Above[j][c]) /\ (j > 0 => ~has(Above[j][c]))}
<1> DEFINE k0 == CHOOSE k \in n : \A l \in n : k <= l
<1>1. Nearest(c) = IF n = {} THEN None ELSE destructor[Above[k0][c]]
  BY DEF Nearest
<1>2. \A k \in n : k \in Nat /\ Above[k][c] # None
  BY DEF Heights
<1> HIDE DEF n
<1>3. CASE n # {}
  <2>1. n \in SUBSET Nat
    BY <1>2
  <2>2. \E k \in n : \A l \in n : k <= l
    BY <1>3, <2>1, Least
  <2>3. k0 \in n
    BY <2>2
  <2> HIDE DEF k0
  <2>4. k0 \in Nat /\ Above[k0][c] # None
    BY <2>3, <1>2
  <2>5. Above[k0][c] \in Beings
    BY <2>4, AboveType DEF Beings
  <2> QED
    BY <1>1, <1>3, <2>4, <2>5 DEF Beings
<1>4. CASE n = {}
  BY <1>1, <1>4 DEF Beings
<1> QED
  BY <1>3, <1>4

LEMMA RegisterMembersStep ==
  ASSUME TInv, NEW c \in Classes, RegisterMembers(c)
  PROVE  TInv'
<1>1. TypesOK
  BY DEF TInv
<1>2. Nearest(c) \in Beings
  BY <1>1, NearestType DEF TypesOK
<1>3. /\ program' = program /\ phase' = phase /\ pending' = pending \ {c} /\ calls' = calls
      /\ calculated' = calculated /\ vtables' = vtables /\ errors' = errors
      /\ vtable_index' = vtable_index /\ is_virtual' = is_virtual /\ is_abstract' = is_abstract
  BY DEF RegisterMembers, tables
<1>4. destructor' \in [Classes -> Beings] /\ super_destructor' \in [Classes -> Beings]
  BY <1>1, <1>2 DEF RegisterMembers, destructors, TypesOK
<1>5. TypesOK'
  BY <1>1, <1>3, <1>4, TypesStay DEF TypesOK
<1> QED
  BY <1>3, <1>5, TablesAlone

LEMMA AloneStep ==
  ASSUME TInv, program' = program, UNCHANGED <<tables, destructors, errors>>,
         phase' \in Phases, pending' \in SUBSET Classes
  PROVE  TInv'
<1>1. TypesOK
  BY DEF TInv
<1>2. /\ calls' = calls /\ calculated' = calculated /\ vtables' = vtables /\ errors' = errors
      /\ vtable_index' = vtable_index /\ is_virtual' = is_virtual /\ is_abstract' = is_abstract
      /\ destructor' = destructor /\ super_destructor' = super_destructor
  BY DEF tables, destructors
<1>3. TypesOK'
  BY <1>1, <1>2, TypesStay DEF TypesOK
<1> QED
  BY <1>2, <1>3, TablesAlone

LEMMA LayOutStep ==
  ASSUME TInv, NEW c \in Classes, LayOut(c)
  PROVE  TInv'
<1>1. program' = program /\ phase' = phase /\ pending' = pending \ {c}
      /\ UNCHANGED <<tables, destructors, errors>>
  BY DEF LayOut
<1>2. phase' \in Phases /\ pending' \in SUBSET Classes
  BY <1>1 DEF TInv, TypesOK
<1> QED
  BY <1>1, <1>2, AloneStep

LEMMA PhasesInclude ==
  /\ \A i \in 2 .. 5 : Passes[i] \in Phases
  /\ "refused" \in Phases /\ "thrown" \in Phases
BY DEF Phases, Passes

LEMMA NextPassStep ==
  ASSUME TInv, NextPass
  PROVE  TInv'
<1>1. program' = program /\ UNCHANGED <<tables, destructors, errors>>
  BY DEF NextPass
<1>2. PICK to \in {Passes[i] : i \in 2..5} :
        /\ phase' = IF to = "layouts" /\ errors # {} THEN "refused" ELSE to
        /\ pending' = IF phase' \in {"refused", "bound"} THEN {} ELSE Symbols(to)
  BY DEF NextPass
<1>3. phase' \in Phases
  BY <1>2, PhasesInclude
<1>4. pending' \in SUBSET Classes
  BY <1>2 DEF Symbols, Interfaces
<1> QED
  BY <1>1, <1>3, <1>4, AloneStep

LEMMA OverridesNothingStep ==
  ASSUME TInv, OverridesNothing
  PROVE  TInv'
<1>1. program' = program /\ phase' = "thrown" /\ pending' = pending
      /\ UNCHANGED <<tables, destructors, errors>>
  BY DEF OverridesNothing
<1>2. phase' \in Phases /\ pending' \in SUBSET Classes
  BY <1>1, PhasesInclude DEF TInv, TypesOK
<1> QED
  BY <1>1, <1>2, AloneStep

LEMMA StutterStep ==
  ASSUME TInv, UNCHANGED vars
  PROVE  TInv'
<1>1. program' = program /\ phase' = phase /\ pending' = pending
      /\ UNCHANGED <<tables, destructors, errors>>
  BY DEF vars
<1>2. phase' \in Phases /\ pending' \in SUBSET Classes
  BY <1>1 DEF TInv, TypesOK
<1> QED
  BY <1>1, <1>2, AloneStep

(* Steps of an activation, that leave most types alone. *)
LEMMA TableStep ==
  ASSUME TInv, program' = program, phase' = phase, pending' \in SUBSET pending,
         destructors' = destructors, errors \subseteq errors',
         vtable_index' \in [Methods -> Nat], is_virtual' \in SUBSET Methods,
         is_abstract' \in SUBSET Methods,
         TablesOK(calls', calculated', vtables', CircularityFound')
  PROVE  TInv'
<1>1. TypesOK
  BY DEF TInv
<1>2. /\ destructor' = destructor /\ super_destructor' = super_destructor
      /\ phase' \in Phases /\ pending' \in SUBSET Classes
  BY <1>1 DEF destructors, TypesOK
<1>3. TypesOK'
  BY <1>1, <1>2, TypesStay DEF TypesOK
<1> QED
  BY <1>3, Concluded

LEMMA BeginStep ==
  ASSUME TInv, NEW c \in Classes, Begin(c)
  PROVE  TInv'
<1>1. /\ program' = program /\ phase' = phase /\ pending' \in SUBSET pending
      /\ destructors' = destructors /\ errors' = errors /\ calls = <<>>
      /\ vtable_index' = vtable_index /\ is_virtual' = is_virtual /\ is_abstract' = is_abstract
      /\ calculated' = calculated /\ vtables' = vtables
      /\ calls' = IF c \in calculated THEN <<>> ELSE <<Activation(c)>>
  BY DEF Begin
<1>2. CircularityFound' = CircularityFound
  BY <1>1 DEF CircularityFound
<1>3. TablesOK(calls, calculated, vtables, CircularityFound) /\ program \in Programs
  BY DEF TInv, TypesOK
<1>4. CASE c \in calculated
  <2>1. calls' = calls
    BY <1>1, <1>4
  <2>2. TablesOK(calls', calculated', vtables', CircularityFound')
    BY <2>1, <1>1, <1>2, <1>3
  <2> QED
    BY <1>1, <2>2, TableStep DEF TInv, TypesOK
<1>5. CASE c \notin calculated
  <2>1. PICK a : a = Activation(c)
    OBVIOUS
  <2>2. /\ a \in Activations /\ a.class = c /\ ActivationOK(a)
        /\ Based(a, calculated, vtables)
    BY <2>1, <1>3, ActivationStarts
  <2>3. calls' = Append(calls, a)
    BY <1>1, <1>5, <2>1
  <2>4. \A i \in DOMAIN calls : calls[i].class # a.class
    BY <1>1
  <2>5. TablesOK(Append(calls, a), calculated, vtables, CircularityFound)
    BY <1>3, <1>5, <2>2, <2>4, Pushed
  <2>6. TablesOK(calls', calculated', vtables', CircularityFound')
    BY <2>3, <2>5, <1>1, <1>2
  <2> QED
    BY <1>1, <2>6, TableStep DEF TInv, TypesOK
<1> QED
  BY <1>4, <1>5

LEMMA RecurStep ==
  ASSUME TInv, Recur
  PROVE  TInv'
<1>1. /\ program' = program /\ phase' = phase /\ pending' \in SUBSET pending
      /\ destructors' = destructors /\ errors' = errors
      /\ vtable_index' = vtable_index /\ is_virtual' = is_virtual /\ is_abstract' = is_abstract
      /\ calculated' = calculated /\ vtables' = vtables
      /\ Doing("inherit") /\ Item.from \notin calculated /\ Item.from \notin InProgress
      /\ calls' = Append(calls, Activation(Item.from))
  BY DEF Recur
<1>2. CircularityFound' = CircularityFound
  BY <1>1 DEF CircularityFound
<1>3. TablesOK(calls, calculated, vtables, CircularityFound) /\ program \in Programs
  BY DEF TInv, TypesOK
<1>4. PICK c : c = Item.from
  OBVIOUS
<1>5. c \in Classes
  BY <1>1, <1>4, ItemFacts
<1>6. PICK a : a = Activation(c)
  OBVIOUS
<1>7. /\ a \in Activations /\ a.class = c /\ ActivationOK(a)
      /\ Based(a, calculated, vtables)
  BY <1>3, <1>5, <1>6, ActivationStarts
<1>8. \A i \in DOMAIN calls : calls[i].class # a.class
  BY <1>1, <1>4, <1>7 DEF InProgress
<1>9. a.class \notin calculated
  BY <1>1, <1>4, <1>7
<1>10. TablesOK(Append(calls, a), calculated, vtables, CircularityFound)
  BY <1>3, <1>7, <1>8, <1>9, Pushed
<1>11. TablesOK(calls', calculated', vtables', CircularityFound')
  BY <1>1, <1>2, <1>4, <1>6, <1>10
<1> QED
  BY <1>1, <1>11, TableStep DEF TInv, TypesOK

LEMMA InheritStep ==
  ASSUME TInv, Inherit
  PROVE  TInv'
<1>1. /\ program' = program /\ phase' = phase /\ pending' \in SUBSET pending
      /\ destructors' = destructors /\ errors \subseteq errors'
      /\ vtable_index' = vtable_index /\ is_virtual' = is_virtual /\ is_abstract' = is_abstract
      /\ calculated' = calculated /\ vtables' = vtables
      /\ Doing("inherit") /\ calls' = Advance(Inherited(Item.from))
      /\ errors' = IF Item.from \in calculated THEN errors
                   ELSE errors \cup {<<"circular", Item.from>>}
  BY DEF Inherit
<1>2. CircularityFound => CircularityFound'
  BY <1>1, StillCircular
<1>3. TablesOK(calls, calculated, vtables, CircularityFound) /\ program \in Programs
  BY DEF TInv, TypesOK
<1>4. PICK d : d = Item.from
  OBVIOUS
<1>5. PICK t : t = Top
  OBVIOUS
<1>6. PICK h : h = Item
  OBVIOUS
<1>7. /\ h = Head(t.todo) /\ h.op = "inherit" /\ t.todo # <<>> /\ calls # <<>> /\ d = h.from
      /\ d \in Classes
      /\ t.class \in Interfaces => d \in Interfaces
      /\ t.class \notin Interfaces => program[t.class].base = d
  BY <1>1, <1>4, <1>5, <1>6, ItemFacts
<1>8. PICK n : n = Len(calls)
  OBVIOUS
<1>9. /\ t = calls[n] /\ t.class \in Classes /\ t.table \in Seq(Methods) /\ ActivationOK(t)
      /\ CircularityFound \/ Based(t, calculated, vtables)
  BY <1>5, <1>7, <1>8, TopFacts
<1>10. PICK table : table = Inherited(d)
  OBVIOUS
<1>11. vtables[d] \in Seq(Methods)
  BY <1>3, <1>7 DEF TablesOK
<1>13. /\ table \in Seq(Methods)
       /\ t.class \in Interfaces => Unique(table) /\ Extended(table, t.table, vtables[d], Len(vtables[d]))
       /\ t.class \notin Interfaces => table = vtables[d]
  <2>1. CASE t.class \in Interfaces
    <3>1. table = Merged(t.table, vtables[d])
      BY <1>5, <1>10, <2>1 DEF Inherited
    <3>2. table \in Seq(Methods) /\ Extended(table, t.table, vtables[d], Len(vtables[d]))
      BY <3>1, <1>9, <1>11, MergedFacts
    <3>3. Unique(t.table)
      BY <1>9, <2>1 DEF ActivationOK
    <3>4. Unique(table)
      BY <3>2, <3>3 DEF Extended
    <3> QED
      BY <3>2, <3>4, <2>1
  <2>2. CASE t.class \notin Interfaces
    BY <1>5, <1>10, <1>11, <2>2 DEF Inherited
  <2> QED
    BY <2>1, <2>2
<1>14. PICK z : z = [class |-> t.class, todo |-> Tail(t.todo), table |-> table]
  OBVIOUS
<1>15. z \in Activations /\ z.class = t.class /\ ActivationOK(z)
  BY <1>5, <1>7, <1>13, <1>14, NextItem
<1>16. Advance(table) = [calls EXCEPT ![n] = z]
  BY <1>5, <1>8, <1>14 DEF Advance
<1>18. d \notin calculated => CircularityFound'
  <2> SUFFICES ASSUME d \notin calculated PROVE CircularityFound'
    OBVIOUS
  <2>1. <<"circular", d>> \in errors'
    BY <1>1, <1>4
  <2> QED
    BY <2>1 DEF CircularityFound
<1>19. ASSUME ~CircularityFound'
       PROVE  Based(z, calculated, vtables)
  <2>1. d \in calculated /\ Based(t, calculated, vtables)
    BY <1>2, <1>9, <1>18, <1>19
  <2>2. PICK base : base = program[t.class].base
    OBVIOUS
  <2>3. z.class = t.class /\ z.table = table
    BY <1>14
  <2> SUFFICES ASSUME base # None
               PROVE  base \in calculated /\ ExtendsTable(vtables[base], table)
    BY <2>2, <2>3 DEF Based
  <2>4. CASE t.class \notin Interfaces
    <3>1. base = d /\ table = vtables[d]
      BY <1>7, <1>13, <2>2, <2>4
    <3> QED
      BY <3>1, <2>1, <1>11, ExtendsItself
  <2>5. CASE t.class \in Interfaces /\ Head(t.todo) = Inherits(base) /\ t.table = <<>>
    <3>1. base = d
      BY <1>7, <2>5 DEF Inherits
    <3>2. Unique(vtables[d])
      BY <1>3, <1>7, <2>1, <2>5 DEF TablesOK
    <3>3. Extended(table, <<>>, vtables[d], Len(vtables[d]))
      BY <1>13, <2>5
    <3>4. Len(table) = Len(vtables[d]) /\ \A i \in 1 .. Len(vtables[d]) : table[i] = vtables[d][i]
      BY <3>2, <3>3 DEF Extended
    <3>5. ExtendsTable(vtables[d], table)
      BY <3>4, <1>11, <1>13 DEF ExtendsTable
    <3> QED
      BY <3>1, <3>5, <2>1
  <2>6. CASE t.class \in Interfaces /\ base \in calculated /\ ExtendsTable(vtables[base], t.table)
    <3>1. vtables[base] \in Seq(Methods)
      BY <2>6, <1>3 DEF TablesOK
    <3>2. Extended(table, t.table, vtables[d], Len(vtables[d]))
      BY <1>13, <2>6
    <3>3. ExtendsTable(t.table, table)
      BY <3>2, <1>9 DEF Extended, ExtendsTable
    <3>4. ExtendsTable(vtables[base], table)
      BY <3>1, <3>3, <1>9, <1>13, <2>6, ExtendsAll
    <3> QED
      BY <3>4, <2>6
  <2> QED
    BY <2>1, <2>2, <2>4, <2>5, <2>6 DEF Based
<1>20. CircularityFound' \/ Based(z, calculated, vtables)
  BY <1>19
<1>21. PICK also : also = CircularityFound'
  OBVIOUS
<1>22. TablesOK(calls, calculated, vtables, also)
  BY <1>2, <1>3, <1>21, Weakened
<1>23. Replaces(calls, n, z, calculated, vtables, also)
  BY <1>7, <1>8, <1>9, <1>15, <1>20, <1>21 DEF Replaces
<1>25. TablesOK([calls EXCEPT ![n] = z], calculated, vtables, also)
  BY <1>22, <1>23, Advanced
<1>24. TablesOK(calls', calculated', vtables', CircularityFound')
  BY <1>1, <1>4, <1>10, <1>16, <1>21, <1>25
<1> QED
  BY <1>1, <1>24, TableStep DEF TInv, TypesOK

(* The table of the activation goes on from the one it has. *)
Continues(t, table) ==
  /\ table \in Seq(Methods) /\ (t.class \in Interfaces => Unique(table))
  /\ ExtendsTable(t.table, table)

LEMMA GoesOn ==
  ASSUME TInv, NEW op \in {"declare", "interface", "implement"}, Doing(op), NEW t, t = Top,
         NEW table, Continues(t, table), calls' = Advance(table),
         program' = program, phase' = phase, pending' = pending, destructors' = destructors,
         calculated' = calculated, vtables' = vtables, errors \subseteq errors',
         vtable_index' \in [Methods -> Nat], is_virtual' \in SUBSET Methods,
         is_abstract' \in SUBSET Methods
  PROVE  TInv'
<1>1. t.todo # <<>> /\ calls # <<>> /\ Head(t.todo).op # "inherit"
  BY ItemFacts DEF Item
<1>2. CircularityFound => CircularityFound'
  BY StillCircular
<1>3. PICK also : also = CircularityFound'
  OBVIOUS
<1>4. TablesOK(Advance(table), calculated, vtables, also)
  BY <1>1, <1>2, <1>3, Proceeds DEF Continues
<1>5. TablesOK(calls', calculated', vtables', CircularityFound')
  BY <1>3, <1>4
<1> QED
  BY <1>5, TableStep

LEMMA Unchanging ==
  ASSUME TInv, calls # <<>>, NEW t, t = Top
  PROVE  Continues(t, t.table)
<1>1. t.table \in Seq(Methods) /\ ActivationOK(t)
  BY TopFacts
<1> QED
  BY <1>1, ExtendsItself DEF Continues, ActivationOK

(* A method put in the table. *)
LEMMA Places ==
  ASSUME TInv, calls # <<>>, NEW t, t = Top, NEW m \in Methods, NEW slot,
         \/ slot = Len(t.table) + 1 /\ (t.class \in Interfaces => Missing(t.table, m))
         \/ slot \in DOMAIN t.table /\ t.table[slot].signature = m.signature
  PROVE  /\ Continues(t, Placed(t.table, slot, m)) /\ slot \in Nat
         /\ [vtable_index EXCEPT ![m] = slot] \in [Methods -> Nat]
         /\ is_virtual \cup {m} \in SUBSET Methods
<1>1. t.table \in Seq(Methods) /\ ActivationOK(t)
  BY TopFacts
<1>2. slot \in Nat /\ (slot = Len(t.table) + 1 => slot \notin DOMAIN t.table)
  BY <1>1
<1>3. slot = Len(t.table) + 1 \/ (slot \in DOMAIN t.table /\ t.table[slot].signature = m.signature)
  OBVIOUS
<1>4. /\ Placed(t.table, slot, m) \in Seq(Methods)
      /\ ExtendsTable(t.table, Placed(t.table, slot, m))
      /\ Unique(t.table) /\ (slot = Len(t.table) + 1 => Missing(t.table, m))
           => Unique(Placed(t.table, slot, m))
  BY <1>1, <1>2, <1>3, PlacedFacts
<1>5. t.class \in Interfaces => Unique(Placed(t.table, slot, m))
  BY <1>1, <1>2, <1>4 DEF ActivationOK
<1>6. Continues(t, Placed(t.table, slot, m))
  BY <1>4, <1>5 DEF Continues
<1> QED
  BY <1>2, <1>6 DEF TInv, TypesOK

LEMMA DeclareMethodStep ==
  ASSUME TInv, DeclareMethod
  PROVE  TInv'
<1>1. PICK m : m = Item.method
  OBVIOUS
<1>2. PICK slot : slot = DeclaredSlot(m)
  OBVIOUS
<1>3. PICK t : t = Top
  OBVIOUS
<1>4. /\ Doing("declare")
      /\ ~(t.class \notin Interfaces /\ Modifier(m) = "override" /\ Missing(t.table, m))
      /\ IF slot = 0
           THEN calls' = Advance(t.table) /\ UNCHANGED <<vtable_index, is_virtual>>
           ELSE Place(slot, m)
      /\ is_abstract' = IF t.class \in Interfaces THEN is_abstract \cup {m} ELSE is_abstract
      /\ program' = program /\ phase' = phase /\ pending' = pending /\ calculated' = calculated
      /\ vtables' = vtables /\ destructors' = destructors /\ errors' = errors
  BY <1>1, <1>2, <1>3 DEF DeclareMethod
<1>5. m \in Methods /\ calls # <<>>
  BY <1>1, <1>3, <1>4, ItemFacts
<1>6. t.table \in Seq(Methods)
  BY <1>3, <1>5, TopFacts
<1>7. is_abstract' \in SUBSET Methods
  BY <1>4, <1>5 DEF TInv, TypesOK
<1>8. CASE slot = 0
  <2>1. Continues(t, t.table)
    BY <1>3, <1>5, Unchanging
  <2>2. vtable_index' \in [Methods -> Nat] /\ is_virtual' \in SUBSET Methods /\ calls' = Advance(t.table)
    BY <1>4, <1>8 DEF TInv, TypesOK
  <2> QED
    BY <2>1, <2>2, <1>3, <1>4, <1>7, GoesOn
<1>9. CASE slot # 0
  <2>1. \/ slot = Len(t.table) + 1 /\ (t.class \in Interfaces => Missing(t.table, m))
        \/ slot \in DOMAIN t.table /\ t.table[slot].signature = m.signature
    <3>1. CASE slot = FirstSlot(t.table, m.signature) /\ ~Missing(t.table, m)
      <4>1. Slots(t.table, m.signature) # {}
        BY <3>1 DEF Missing
      <4> QED
        BY <4>1, <3>1, <1>6, FirstSlotIn
    <3>2. CASE slot = Len(t.table) + 1 /\ (t.class \in Interfaces => Missing(t.table, m))
      BY <3>2
    <3> QED
      BY <3>1, <3>2, <1>2, <1>3, <1>9 DEF DeclaredSlot, Free
  <2>2. /\ Continues(t, Placed(t.table, slot, m))
        /\ [vtable_index EXCEPT ![m] = slot] \in [Methods -> Nat]
        /\ is_virtual \cup {m} \in SUBSET Methods
    BY <2>1, <1>3, <1>5, Places
  <2>3. /\ calls' = Advance(Placed(t.table, slot, m))
        /\ vtable_index' = [vtable_index EXCEPT ![m] = slot] /\ is_virtual' = is_virtual \cup {m}
    BY <1>3, <1>4, <1>9 DEF Place
  <2>4. vtable_index' \in [Methods -> Nat] /\ is_virtual' \in SUBSET Methods
    BY <2>2, <2>3
  <2> QED
    BY <2>2, <2>3, <2>4, <1>3, <1>4, <1>7, GoesOn
<1> QED
  BY <1>8, <1>9

LEMMA OpenInterfaceStep ==
  ASSUME TInv, OpenInterface
  PROVE  TInv'
<1>1. PICK t : t = Top
  OBVIOUS
<1>2. /\ Doing("interface") /\ calls' = Advance(t.table)
      /\ program' = program /\ phase' = phase /\ pending' = pending /\ calculated' = calculated
      /\ vtables' = vtables /\ destructors' = destructors /\ errors' = errors
      /\ vtable_index' = vtable_index /\ is_virtual' = is_virtual /\ is_abstract' = is_abstract
  BY <1>1 DEF OpenInterface
<1>3. Continues(t, t.table)
  BY <1>1, <1>2, Unchanging DEF Doing
<1>4. vtable_index' \in [Methods -> Nat] /\ is_virtual' \in SUBSET Methods /\ is_abstract' \in SUBSET Methods
  BY <1>2 DEF TInv, TypesOK
<1> QED
  BY <1>1, <1>2, <1>3, <1>4, GoesOn

LEMMA ImplementStep ==
  ASSUME TInv, Implement
  PROVE  TInv'
<1>1. PICK m : m = Implementation
  OBVIOUS
<1>2. PICK slot : slot = ImplementationSlot(m)
  OBVIOUS
<1>3. PICK t : t = Top
  OBVIOUS
<1>4. /\ Doing("implement") /\ Implementing(t.class) # None
      /\ IF slot \in DOMAIN t.table /\ t.table[slot] = m
           THEN calls' = Advance(t.table) /\ UNCHANGED <<vtable_index, is_virtual>>
           ELSE Place(slot, m)
      /\ program' = program /\ phase' = phase /\ pending' = pending /\ calculated' = calculated
      /\ vtables' = vtables /\ destructors' = destructors /\ errors' = errors
      /\ is_abstract' = is_abstract
  BY <1>1, <1>2, <1>3 DEF Implement
<1>5. calls # <<>> /\ t.class \notin Interfaces
  BY <1>3, <1>4, ItemFacts
<1>6. t.table \in Seq(Methods) /\ t.class \in Classes
  BY <1>3, <1>5, TopFacts
<1>7. m \in Methods
  <2> DEFINE implements(x) == /\ Declares(x, Wanted)
                              /\ [class |-> x, signature |-> Wanted] \notin is_abstract
  <2> DEFINE found == {n \in Heights : Above[n][t.class] # None /\ implements(Above[n][t.class])}
  <2> DEFINE k0 == CHOOSE n \in found : \A k \in found : n <= k
  <2>1. Implementing(t.class) = IF found = {} THEN None ELSE Above[k0][t.class]
    BY DEF Implementing, First
  <2>2. found \in SUBSET Nat
    BY DEF Heights
  <2>3. \A n \in found : Declares(Above[n][t.class], Wanted)
    OBVIOUS
  <2> HIDE DEF found
  <2>4. found # {}
    BY <2>1, <1>4
  <2>5. \E n \in found : \A k \in found : n <= k
    BY <2>2, <2>4, Least
  <2>6. k0 \in found
    BY <2>5
  <2> HIDE DEF k0
  <2>7. Declares(Implementing(t.class), Wanted)
    BY <2>1, <2>3, <2>4, <2>6
  <2> QED
    BY <2>7, <1>1, <1>3 DEF Declares, Implementation
<1>8. is_abstract' \in SUBSET Methods
  BY <1>4 DEF TInv, TypesOK
<1>9. CASE slot \in DOMAIN t.table /\ t.table[slot] = m
  <2>1. Continues(t, t.table)
    BY <1>3, <1>5, Unchanging
  <2>2. vtable_index' \in [Methods -> Nat] /\ is_virtual' \in SUBSET Methods /\ calls' = Advance(t.table)
    BY <1>4, <1>9 DEF TInv, TypesOK
  <2> QED
    BY <2>1, <2>2, <1>3, <1>4, <1>8, GoesOn
<1>10. CASE ~(slot \in DOMAIN t.table /\ t.table[slot] = m)
  <2>1. \/ slot = Len(t.table) + 1 /\ (t.class \in Interfaces => Missing(t.table, m))
        \/ slot \in DOMAIN t.table /\ t.table[slot].signature = m.signature
    <3> DEFINE same == {i \in DOMAIN t.table : t.table[i] = m}
    <3>1. slot = IF same # {} THEN CHOOSE i \in same : \A j \in same : i <= j
                 ELSE IF Missing(t.table, m) THEN Len(t.table) + 1 ELSE FirstSlot(t.table, m.signature)
      BY <1>2, <1>3 DEF ImplementationSlot, Free
    <3>2. same \in SUBSET Nat /\ \A i \in same : i \in DOMAIN t.table /\ t.table[i] = m
      BY <1>6
    <3> HIDE DEF same
    <3>3. same = {}
      <4> SUFFICES ASSUME same # {} PROVE FALSE
        OBVIOUS
      <4>1. \E i \in same : \A j \in same : i <= j
        BY <3>2, Least
      <4>2. slot \in same
        BY <3>1, <4>1
      <4> QED
        BY <4>2, <3>2, <1>10
    <3>4. CASE Missing(t.table, m)
      BY <3>1, <3>3, <3>4
    <3>5. CASE ~Missing(t.table, m)
      <4>1. Slots(t.table, m.signature) # {}
        BY <3>5 DEF Missing
      <4>2. slot = FirstSlot(t.table, m.signature)
        BY <3>1, <3>3, <3>5
      <4> QED
        BY <4>1, <4>2, <1>6, FirstSlotIn
    <3> QED
      BY <3>4, <3>5
  <2>2. /\ Continues(t, Placed(t.table, slot, m))
        /\ [vtable_index EXCEPT ![m] = slot] \in [Methods -> Nat]
        /\ is_virtual \cup {m} \in SUBSET Methods
    BY <2>1, <1>3, <1>5, <1>7, Places
  <2>3. /\ calls' = Advance(Placed(t.table, slot, m))
        /\ vtable_index' = [vtable_index EXCEPT ![m] = slot] /\ is_virtual' = is_virtual \cup {m}
    BY <1>3, <1>4, <1>10 DEF Place
  <2>4. vtable_index' \in [Methods -> Nat] /\ is_virtual' \in SUBSET Methods
    BY <2>2, <2>3
  <2> QED
    BY <2>2, <2>3, <2>4, <1>3, <1>4, <1>8, GoesOn
<1> QED
  BY <1>9, <1>10

LEMMA DoesNotImplementStep ==
  ASSUME TInv, DoesNotImplement
  PROVE  TInv'
<1>1. PICK t : t = Top
  OBVIOUS
<1>2. /\ Doing("implement") /\ calls' = Advance(t.table) /\ errors \subseteq errors'
      /\ program' = program /\ phase' = phase /\ pending' = pending /\ calculated' = calculated
      /\ vtables' = vtables /\ destructors' = destructors
      /\ vtable_index' = vtable_index /\ is_virtual' = is_virtual /\ is_abstract' = is_abstract
  BY <1>1 DEF DoesNotImplement
<1>3. Continues(t, t.table)
  BY <1>1, <1>2, Unchanging DEF Doing
<1>4. vtable_index' \in [Methods -> Nat] /\ is_virtual' \in SUBSET Methods /\ is_abstract' \in SUBSET Methods
  BY <1>2 DEF TInv, TypesOK
<1> QED
  BY <1>1, <1>2, <1>3, <1>4, GoesOn

LEMMA FinishStep ==
  ASSUME TInv, Finish
  PROVE  TInv'
<1>1. PICK t : t = Top
  OBVIOUS
<1>2. PICK c : c = t.class
  OBVIOUS
<1>3. /\ calls # <<>> /\ t.todo = <<>> /\ calls' = Front(calls) /\ errors \subseteq errors'
      /\ program' = program /\ phase' = phase /\ pending' = pending
      /\ calculated' = calculated \cup {c} /\ vtables' = [vtables EXCEPT ![c] = t.table]
      /\ destructors' = destructors
      /\ vtable_index' = vtable_index /\ is_virtual' = is_virtual /\ is_abstract' = is_abstract
  BY <1>1, <1>2 DEF Finish
<1>4. t = calls[Len(calls)]
  BY <1>1, <1>3, TopFacts
<1>5. TablesOK(calls, calculated, vtables, CircularityFound) /\ program \in Programs
  BY DEF TInv, TypesOK
<1>6. CircularityFound => CircularityFound'
  BY <1>3, StillCircular
<1>7. TablesOK(Front(calls), calculated \cup {c}, [vtables EXCEPT ![c] = t.table], CircularityFound)
  BY <1>2, <1>3, <1>4, <1>5, Ended
<1>8. TablesOK(calls', calculated', vtables', CircularityFound)
  BY <1>3, <1>7
<1>9. TablesOK(calls', calculated', vtables', CircularityFound')
  BY <1>6, <1>8, Weakened
<1>10. vtable_index' \in [Methods -> Nat] /\ is_virtual' \in SUBSET Methods /\ is_abstract' \in SUBSET Methods
  BY <1>3 DEF TInv, TypesOK
<1> QED
  BY <1>3, <1>9, <1>10, TableStep

LEMMA TablesInductive ==
  TInv /\ [Next]_vars => TInv'
<1> SUFFICES ASSUME TInv, [Next]_vars
             PROVE  TInv'
  OBVIOUS
<1>1. ASSUME NEW c \in Classes, RegisterMembers(c) PROVE TInv'
  BY <1>1, RegisterMembersStep
<1>2. ASSUME NEW c \in Classes, LayOut(c) PROVE TInv'
  BY <1>2, LayOutStep
<1>3. ASSUME NEW c \in Classes, Begin(c) PROVE TInv'
  BY <1>3, BeginStep
<1>4. CASE Recur
  BY <1>4, RecurStep
<1>5. CASE Inherit
  BY <1>5, InheritStep
<1>6. CASE DeclareMethod
  BY <1>6, DeclareMethodStep
<1>7. CASE OverridesNothing
  BY <1>7, OverridesNothingStep
<1>8. CASE OpenInterface
  BY <1>8, OpenInterfaceStep
<1>9. CASE Implement
  BY <1>9, ImplementStep
<1>10. CASE DoesNotImplement
  BY <1>10, DoesNotImplementStep
<1>11. CASE Finish
  BY <1>11, FinishStep
<1>12. CASE NextPass
  BY <1>12, NextPassStep
<1>13. CASE UNCHANGED vars
  BY <1>13, StutterStep
<1> QED
  BY <1>1, <1>2, <1>3, <1>4, <1>5, <1>6, <1>7, <1>8, <1>9, <1>10, <1>11, <1>12, <1>13
  DEF Next, Table

LEMMA TablesInvariant ==
  Spec => []TInv
<1>1. Init => TInv
  BY InitTables
<1> QED
  BY <1>1, TablesInductive, PTL DEF Spec

LEMMA InvariantTypes ==
  TInv => TypeOK
<1> SUFFICES ASSUME TInv
             PROVE  TypeOK
  OBVIOUS
<1>1. ASSUME NEW i \in DOMAIN calls
      PROVE  calls[i].class \in Classes /\ calls[i].table \in Seq(Methods)
  <2> DEFINE A == Activations
  <2>1. calls \in Seq(A)
    BY DEF TInv, TablesOK
  <2> HIDE DEF A
  <2>2. calls[i] \in A
    BY <2>1
  <2> QED
    BY <2>2 DEF A, Activations
<1>2. calculated \in SUBSET Classes /\ vtables \in [Classes -> Seq(Methods)]
  BY DEF TInv, TablesOK
<1> QED
  BY <1>1, <1>2 DEF TInv, TypesOK, TypeOK, Phases, Beings

LEMMA InvariantSlots ==
  TInv => SlotsKeepSignatures
BY DEF TInv, TablesOK, Complies, SlotsKeepSignatures

(* However many classes extend each other, in whatever order they are bound,
   every variable of the binder keeps its type. *)
THEOREM TypeCorrect ==
  Spec => []TypeOK
<1> QED
  BY TablesInvariant, InvariantTypes, PTL

(* The table of a class has at every position of the table of its base a
   method of the same signature, whatever the class overrides, adds or
   implements, unless classes were found to extend each other. *)
THEOREM SlotsAlwaysKeepSignatures ==
  Spec => []SlotsKeepSignatures
<1> QED
  BY TablesInvariant, InvariantSlots, PTL

-----------------------------------------------------------------------------
(* Layouts. *)
Sizes == {1, 2, 4, 8}
Lengths == [bytes : Sizes, reference : BOOLEAN, weak : BOOLEAN]

LEMMA AlignedFacts ==
  ASSUME NEW n \in Nat, NEW b \in Sizes
  PROVE  Aligned(n, b) \in Nat /\ Aligned(n, b) >= n /\ Aligned(n, b) % b = 0
<1>1. CASE b = 1
  <2>1. Aligned(n, b) = n
    BY <1>1 DEF Aligned
  <2> QED
    BY <1>1, <2>1
<1>2. CASE b = 2
  BY <1>2 DEF Aligned
<1>3. CASE b = 4
  BY <1>3 DEF Aligned
<1>4. CASE b = 8
  BY <1>4 DEF Aligned
<1> QED
  BY <1>1, <1>2, <1>3, <1>4 DEF Sizes

(* Where a field is: behind the one before. *)
After(start, fields, i, before) ==
  Aligned(IF i = 1 THEN start ELSE before + fields[i - 1].bytes, fields[i].bytes)
Offsets(at, start, fields) ==
  /\ at \in [1 .. Len(fields) -> Nat]
  /\ \A i \in 1 .. Len(fields) : at[i] = After(start, fields, i, at[i - 1])

LEMMA OffsetSteps ==
  ASSUME NEW start \in Nat, NEW fields \in Seq(Lengths)
  PROVE  Offsets(Offset(start, fields), start, fields)
<1> DEFINE n == Len(fields)
           X == Nat \X Nat
           More(p) == <<p[1] + 1, IF p[1] + 1 \in 1 .. n THEN After(start, fields, p[1] + 1, p[2]) ELSE 0>>
           step == [p \in X |-> More(p)]
           F(g) == [i \in 1 .. n |-> After(start, fields, i, g[i - 1])]
<1>1. n \in Nat /\ DOMAIN fields = 1 .. n /\ \A i \in 1 .. n : fields[i].bytes \in Sizes
  <2> DEFINE T == Lengths
  <2>1. fields \in Seq(T)
    OBVIOUS
  <2> HIDE DEF T
  <2>2. n \in Nat /\ DOMAIN fields = 1 .. n /\ \A i \in 1 .. n : fields[i] \in T
    BY <2>1
  <2> QED
    BY <2>2 DEF T, Lengths
<1> HIDE DEF n
<1>2. ASSUME NEW i \in 1 .. n, NEW before \in Nat
      PROVE  After(start, fields, i, before) \in Nat
  <2>1. CASE i = 1
    <3>1. After(start, fields, i, before) = Aligned(start, fields[i].bytes)
      BY <2>1 DEF After
    <3> QED
      BY <3>1, <1>1, AlignedFacts
  <2>2. CASE i # 1
    <3>1. i - 1 \in 1 .. n
      BY <1>1, <2>2
    <3>2. PICK z \in Nat : z = before + fields[i - 1].bytes
      BY <1>1, <3>1 DEF Sizes
    <3>3. After(start, fields, i, before) = Aligned(z, fields[i].bytes)
      BY <2>2, <3>2 DEF After
    <3> QED
      BY <3>3, <1>1, AlignedFacts
  <2> QED
    BY <2>1, <2>2
<1>3. step \in [X -> X]
  <2> SUFFICES ASSUME NEW p \in X PROVE More(p) \in X
    OBVIOUS
  <2>1. p[1] \in Nat /\ p[2] \in Nat
    OBVIOUS
  <2> QED
    BY <1>2, <2>1
<1>4. PICK f : f \in [Nat -> X] /\ f[0] = <<0, 0>> /\ \A k \in Nat : f[k + 1] = step[f[k]]
  <2>1. <<0, 0>> \in X
    OBVIOUS
  <2> HIDE DEF step, X
  <2>2. \E f : Repeats(f, X, <<0, 0>>, step)
    BY <1>3, <2>1, Iterated
  <2> QED
    BY <2>2 DEF Repeats
<1>5. \A k \in Nat : f[k] \in X /\ f[k + 1] = More(f[k])
  <2> HIDE DEF X, More
  <2> QED
    BY <1>4
<1> DEFINE S == {k \in Nat : f[k][1] = k}
<1>6. 0 \in S
  BY <1>4
<1>7. ASSUME NEW k \in Nat, k \in S PROVE k + 1 \in S
  <2>1. f[k][1] = k /\ f[k + 1] = More(f[k])
    BY <1>5, <1>7
  <2>2. More(f[k])[1] = f[k][1] + 1
    OBVIOUS
  <2>3. f[k + 1][1] = k + 1
    BY <2>1, <2>2
  <2> HIDE DEF More
  <2> QED
    BY <2>3
<1>8. \A k \in Nat : k \in S
  <2> HIDE DEF S
  <2> QED
    BY <1>6, <1>7, Induction
<1>9. \A k \in Nat : f[k][1] = k /\ f[k][2] \in Nat
  BY <1>5, <1>8
<1> DEFINE g == [i \in 1 .. n |-> f[i][2]]
<1>10. ASSUME NEW i \in 1 .. n
       PROVE  f[i][2] = After(start, fields, i, f[i - 1][2])
  <2>1. i - 1 \in Nat /\ (i - 1) + 1 = i
    BY <1>1
  <2>2. f[i] = More(f[i - 1])
    BY <1>5, <2>1
  <2>3. f[i - 1][1] + 1 = i
    BY <1>9, <2>1
  <2> QED
    BY <2>2, <2>3
<1>11. ASSUME NEW i \in 1 .. n
       PROVE  g[i] = After(start, fields, i, g[i - 1])
  <2>1. CASE i = 1
    BY <1>10, <2>1 DEF After
  <2>2. CASE i # 1
    <3>1. i - 1 \in 1 .. n
      BY <1>1, <2>2
    <3>2. g[i] = f[i][2] /\ g[i - 1] = f[i - 1][2]
      BY <3>1
    <3> QED
      BY <1>10, <3>2
  <2> QED
    BY <2>1, <2>2
<1>12. g \in [1 .. n -> Nat]
  <2>1. \A i \in 1 .. n : f[i][2] \in Nat
    BY <1>1, <1>9
  <2> QED
    BY <2>1
<1> HIDE DEF g
<1>13. g = F(g)
  <2>1. g = [i \in 1 .. n |-> g[i]]
    BY <1>12
  <2>2. \A i \in 1 .. n : g[i] = After(start, fields, i, g[i - 1])
    BY <1>11
  <2> QED
    BY <2>1, <2>2
<1> DEFINE at == CHOOSE h : h = F(h)
<1>14. Offset(start, fields) = at
  BY DEF Offset, After, n
<1>15. at = F(at)
  <2> HIDE DEF F
  <2> QED
    BY <1>13
<1> HIDE DEF at
<1>16. \A i \in 1 .. n : at[i] = After(start, fields, i, at[i - 1])
  BY <1>15
<1>17. DOMAIN at = 1 .. n
  BY <1>15
<1> DEFINE E == {i \in Nat : i \in 1 .. n => at[i] \in Nat}
<1>18. 0 \in E
  OBVIOUS
<1>19. ASSUME NEW i \in Nat, i \in E PROVE i + 1 \in E
  <2> SUFFICES ASSUME i + 1 \in 1 .. n PROVE at[i + 1] \in Nat
    OBVIOUS
  <2>1. (i + 1) - 1 = i
    OBVIOUS
  <2>2. at[i + 1] = After(start, fields, i + 1, at[i])
    BY <1>16, <2>1
  <2>3. CASE i = 0
    <3>1. at[i + 1] = After(start, fields, i + 1, 0)
      BY <2>2, <2>3 DEF After
    <3> QED
      BY <3>1, <1>2
  <2>4. CASE i # 0
    <3>1. at[i] \in Nat
      BY <1>1, <1>19, <2>4
    <3> QED
      BY <3>1, <2>2, <1>2
  <2> QED
    BY <2>3, <2>4
<1>20. \A i \in Nat : i \in E
  <2> HIDE DEF E
  <2> QED
    BY <1>18, <1>19, Induction
<1>21. \A i \in 1 .. n : at[i] \in Nat
  BY <1>1, <1>20
<1>22. at \in [1 .. n -> Nat]
  <2>1. at = [i \in 1 .. n |-> at[i]]
    BY <1>15, <1>17
  <2> QED
    BY <2>1, <1>21
<1>23. Offsets(at, start, fields)
  BY <1>16, <1>22 DEF Offsets, n
<1> QED
  BY <1>14, <1>23

(* Fields in a row, from a place on. *)
InARow(at, start, fields, end) ==
  /\ at \in [1 .. Len(fields) -> Nat] /\ end \in Nat /\ start <= end
  /\ \A i \in 1 .. Len(fields) :
       /\ at[i] % fields[i].bytes = 0 /\ start <= at[i] /\ at[i] + fields[i].bytes <= end
       /\ \A j \in 1 .. Len(fields) : j < i => at[j] + fields[j].bytes <= at[i]

LEMMA FieldsInARow ==
  ASSUME NEW start \in Nat, NEW fields \in Seq(Lengths)
  PROVE  InARow(Offset(start, fields), start, fields, End(start, fields))
<1> DEFINE n == Len(fields)
<1>1. PICK at : at = Offset(start, fields)
  OBVIOUS
<1>2. at \in [1 .. n -> Nat] /\ \A i \in 1 .. n : at[i] = After(start, fields, i, at[i - 1])
  BY <1>1, OffsetSteps DEF Offsets
<1>3. n \in Nat /\ DOMAIN fields = 1 .. n /\ \A i \in 1 .. n : fields[i].bytes \in Sizes
  <2> DEFINE T == Lengths
  <2>1. fields \in Seq(T)
    OBVIOUS
  <2> HIDE DEF T
  <2>2. n \in Nat /\ DOMAIN fields = 1 .. n /\ \A i \in 1 .. n : fields[i] \in T
    BY <2>1
  <2> QED
    BY <2>2 DEF T, Lengths
<1> HIDE DEF n
<1>a. \A i \in 1 .. n : at[i] \in Nat /\ fields[i].bytes \in Nat /\ fields[i].bytes > 0
  BY <1>2, <1>3 DEF Sizes
<1>4. ASSUME NEW i \in 1 .. n
      PROVE  /\ at[i] % fields[i].bytes = 0
             /\ i = 1 => start <= at[i]
             /\ i # 1 => at[i - 1] + fields[i - 1].bytes <= at[i]
  <2>1. at[i] = After(start, fields, i, at[i - 1])
    BY <1>2
  <2>2. CASE i = 1
    <3>1. at[i] = Aligned(start, fields[i].bytes)
      BY <2>1, <2>2 DEF After
    <3> QED
      BY <3>1, <1>3, <2>2, AlignedFacts
  <2>3. CASE i # 1
    <3>1. i - 1 \in 1 .. n
      BY <1>3, <2>3
    <3>2. PICK z \in Nat : z = at[i - 1] + fields[i - 1].bytes
      <4>1. at[i - 1] + fields[i - 1].bytes \in Nat
        BY <1>a, <3>1
      <4> QED
        BY <4>1
    <3>3. at[i] = Aligned(z, fields[i].bytes)
      BY <2>1, <2>3, <3>2 DEF After
    <3> QED
      BY <3>2, <3>3, <1>3, <2>3, AlignedFacts
  <2> QED
    BY <2>2, <2>3
<1> DEFINE S == {i \in Nat : i \in 1 .. n => /\ start <= at[i]
                                             /\ \A j \in 1 .. n : j < i => at[j] + fields[j].bytes <= at[i]}
<1>5. 0 \in S
  OBVIOUS
<1>6. ASSUME NEW i \in Nat, i \in S PROVE i + 1 \in S
  <2> SUFFICES ASSUME i + 1 \in 1 .. n
               PROVE  /\ start <= at[i + 1]
                      /\ \A j \in 1 .. n : j < i + 1 => at[j] + fields[j].bytes <= at[i + 1]
    OBVIOUS
  <2>1. CASE i = 0
    BY <1>3, <1>4, <2>1
  <2>2. CASE i # 0
    <3>1. i \in 1 .. n /\ i + 1 # 1 /\ (i + 1) - 1 = i
      BY <1>3, <2>2
    <3>2. at[i] + fields[i].bytes <= at[i + 1]
      BY <1>4, <3>1
    <3>3. start <= at[i] /\ \A j \in 1 .. n : j < i => at[j] + fields[j].bytes <= at[i]
      BY <1>6, <3>1
    <3>4. at[i] \in Nat /\ at[i + 1] \in Nat /\ fields[i].bytes \in Nat /\ fields[i].bytes > 0
      BY <1>a, <3>1
    <3>5. ASSUME NEW j \in 1 .. n, j < i + 1 PROVE at[j] + fields[j].bytes <= at[i + 1]
      <4>1. at[j] \in Nat /\ fields[j].bytes \in Nat /\ j \in Nat
        BY <1>a, <1>3
      <4>2. CASE j = i
        BY <4>2, <3>2
      <4>3. CASE j < i
        <5>1. at[j] + fields[j].bytes <= at[i]
          BY <4>3, <3>3
        <5>2. \A v, w, x, y, z \in Nat : v + w <= x /\ x + y <= z => v + w <= z
          OBVIOUS
        <5> HIDE DEF S
        <5> QED
          BY <4>1, <5>1, <5>2, <3>2, <3>4
      <4> QED
        BY <4>1, <4>2, <4>3, <3>5
    <3> QED
      BY <3>2, <3>3, <3>4, <3>5
  <2> QED
    BY <2>1, <2>2
<1>7. \A i \in Nat : i \in S
  <2> HIDE DEF S
  <2> QED
    BY <1>5, <1>6, Induction
<1>8. \A i \in 1 .. n : start <= at[i] /\ \A j \in 1 .. n : j < i => at[j] + fields[j].bytes <= at[i]
  BY <1>3, <1>7
<1>9. PICK end : end = End(start, fields)
  OBVIOUS
<1>10. end \in Nat /\ start <= end /\ \A i \in 1 .. n : at[i] + fields[i].bytes <= end
  <2>1. CASE n = 0
    <3>1. fields = <<>>
      BY <2>1 DEF n
    <3>2. end = start
      BY <3>1, <1>9 DEF End
    <3> QED
      BY <3>2, <2>1
  <2>2. CASE n # 0
    <3>1. n \in 1 .. n /\ fields # <<>>
      BY <1>3, <2>2 DEF n
    <3>2. end = at[n] + fields[n].bytes
      BY <3>1, <1>1, <1>9 DEF End, Last, n
    <3>3. at[n] \in Nat /\ fields[n].bytes \in Nat
      BY <3>1, <1>a
    <3>4. ASSUME NEW i \in 1 .. n PROVE at[i] + fields[i].bytes <= end
      <4>1. at[i] \in Nat /\ fields[i].bytes \in Nat
        BY <1>a
      <4>2. CASE i = n
        BY <4>1, <4>2, <3>2
      <4>3. CASE i < n
        <5>1. at[i] + fields[i].bytes <= at[n]
          BY <4>3, <3>1, <1>8
        <5> QED
          BY <4>1, <5>1, <3>2, <3>3
      <4> QED
        BY <1>3, <4>2, <4>3
    <3> QED
      BY <3>1, <3>2, <3>3, <3>4, <1>8
  <2> QED
    BY <2>1, <2>2
<1>11. \A i \in 1 .. n : at[i] % fields[i].bytes = 0
  BY <1>4
<1>12. InARow(at, start, fields, end)
  BY <1>2, <1>8, <1>10, <1>11 DEF InARow, n
<1> QED
  BY <1>1, <1>9, <1>12

-----------------------------------------------------------------------------
(* Classes that have a layout: none is above itself. *)

LEMMA AboveEnds ==
  ASSUME program \in Programs, NEW m \in Nat, NEW n \in Nat, m <= n, NEW c \in Beings, Above[m][c] = None
  PROVE  Above[n][c] = None
<1>1. PICK k \in Nat : k + m = n
  <2>1. n - m \in Nat /\ (n - m) + m = n
    OBVIOUS
  <2> QED
    BY <2>1
<1>2. Above[k + m][c] = Above[k][Above[m][c]]
  BY AboveSum
<1>3. Above[k][None] = None
  BY AboveFacts
<1> QED
  BY <1>1, <1>2, <1>3

LEMMA ClassCount ==
  ASSUME program \in Programs
  PROVE  IsFiniteSet(Classes) /\ Cardinality(Classes) \in Nat
BY ProgramFacts, FS_CardinalityType

LEMMA LineageType ==
  ASSUME program \in Programs, NEW c \in Classes
  PROVE  Lineage(c) \in SUBSET Classes /\ c \in Lineage(c)
<1>1. \A n \in Heights : Above[n][c] \in Classes \cup {None}
  BY AboveType DEF Heights, Beings
<1>2. 0 \in Heights /\ Above[0][c] = c /\ c # None
  BY ClassCount, AboveFacts, ProgramFacts DEF Heights, Beings
<1> QED
  BY <1>1, <1>2 DEF Lineage

LEMMA LineageOf ==
  ASSUME program \in Programs, NEW c \in Classes, NEW base, base = program[c].base,
         base # None => Above[Cardinality(Classes)][base] = None
  PROVE  Lineage(c) = {c} \cup (IF base = None THEN {} ELSE Lineage(base))
<1>1. PICK n \in Nat : n = Cardinality(Classes)
  BY ClassCount
<1>2. Heights = 0 .. n
  BY <1>1 DEF Heights
<1>3. /\ Above[0][c] = c /\ \A k \in Nat : Above[k + 1][c] = Above[k][base]
      /\ \A k \in Nat : Above[k][None] = None
  BY AboveFacts DEF Beings
<1>4. c \in Lineage(c)
  BY LineageType
<1>5. ASSUME NEW x \in Lineage(c), x # c PROVE base # None /\ x \in Lineage(base)
  <2>1. PICK k \in 0 .. n : x = Above[k][c] /\ x # None
    BY <1>2 DEF Lineage
  <2>2. k # 0
    BY <2>1, <1>3, <1>5
  <2>3. k - 1 \in 0 .. n /\ k - 1 \in Nat /\ (k - 1) + 1 = k
    BY <1>1, <2>2
  <2>4. x = Above[k - 1][base]
    BY <2>1, <2>3, <1>3
  <2>5. base # None
    BY <2>1, <2>3, <2>4, <1>3
  <2> QED
    BY <2>1, <2>3, <2>4, <2>5, <1>2 DEF Lineage
<1>6. ASSUME base # None, NEW x \in Lineage(base) PROVE x \in Lineage(c)
  <2>1. PICK k \in 0 .. n : x = Above[k][base] /\ x # None
    BY <1>2 DEF Lineage
  <2>2. k # n
    BY <2>1, <1>1, <1>6
  <2>3. k \in Nat /\ k + 1 \in 0 .. n
    BY <1>1, <2>1, <2>2
  <2>4. x = Above[k + 1][c]
    BY <2>1, <2>3, <1>3
  <2> QED
    BY <2>1, <2>3, <2>4, <1>2 DEF Lineage
<1> QED
  BY <1>4, <1>5, <1>6

SpotOf(l, f) == l[f[1]].memory_index[f[2]]
Sound(c, l) ==
  /\ l[c].references = {SpotOf(l, f) : f \in {g \in FieldsOf(c) : Field(g).reference /\ ~Field(g).weak}}
  /\ l[c].size \in Nat /\ l[c].size >= 4
  /\ \A f \in FieldsOf(c) :
       /\ SpotOf(l, f) \in Nat /\ SpotOf(l, f) % Field(f).bytes = 0 /\ SpotOf(l, f) >= 4
       /\ SpotOf(l, f) + Field(f).bytes <= l[c].size
       /\ \A g \in FieldsOf(c) \ {f} :
            SpotOf(l, f) + Field(f).bytes <= SpotOf(l, g) \/ SpotOf(l, g) + Field(g).bytes <= SpotOf(l, f)
Laid(c, l) ==
  /\ Above[Cardinality(DOMAIN l)][c] = None
  /\ Lineage(c) \subseteq DOMAIN l
  /\ Sound(c, l)
LInv ==
  /\ DOMAIN layout = IF phase \in {"layouts", "bound"} THEN Classes \ pending ELSE {}
  /\ phase \in {"layouts", "bound"} => calls = <<>>
  /\ \A c \in DOMAIN layout : Laid(c, layout)

LEMMA FieldFacts ==
  ASSUME program \in Programs, NEW c \in Classes, NEW f \in FieldsOf(c)
  PROVE  /\ f = <<f[1], f[2]>> /\ f[1] \in Lineage(c) /\ f[1] \in Classes
         /\ f[2] \in DOMAIN program[f[1]].fields /\ Field(f).bytes \in Sizes
<1>1. PICK x \in Lineage(c) : \E i \in DOMAIN program[x].fields : f = <<x, i>>
  BY DEF FieldsOf
<1>2. PICK i \in DOMAIN program[x].fields : f = <<x, i>>
  BY <1>1
<1>3. x \in Classes
  BY LineageType
<1> DEFINE T == Lengths
<1>4. program[x].fields \in Seq(T)
  BY <1>3, ProgramFacts DEF Lengths, Sizes
<1> HIDE DEF T
<1>5. program[x].fields[i] \in T
  BY <1>4
<1>6. program[x].fields[i].bytes \in Sizes
  BY <1>5 DEF T, Lengths
<1> QED
  BY <1>2, <1>3, <1>6 DEF Field

(* A layout that was there stays as it is. *)
LEMMA SoundStays ==
  ASSUME program \in Programs, NEW c \in Classes, NEW l, NEW m,
         Sound(c, l), Lineage(c) \subseteq DOMAIN l, \A x \in DOMAIN l : m[x] = l[x]
  PROVE  Sound(c, m)
<1>1. c \in DOMAIN l
  BY LineageType
<1>2. \A f \in FieldsOf(c) : SpotOf(m, f) = SpotOf(l, f)
  BY FieldFacts DEF SpotOf
<1>3. m[c] = l[c]
  BY <1>1
<1>4. {SpotOf(m, f) : f \in {g \in FieldsOf(c) : Field(g).reference /\ ~Field(g).weak}}
        = {SpotOf(l, f) : f \in {g \in FieldsOf(c) : Field(g).reference /\ ~Field(g).weak}}
  BY <1>2
<1>5. Sound(c, l)
  OBVIOUS
<1> QED
  BY <1>2, <1>3, <1>4, <1>5 DEF Sound

(* A new layout goes on from that of the base. *)
Extends(c, m, l) ==
  LET base == program[c].base
      fields == program[c].fields
      start == IF base = None THEN 4 ELSE l[base].size
      at == Offset(start, fields)
      counted == {i \in DOMAIN fields : fields[i].reference /\ ~fields[i].weak}
  IN  /\ DOMAIN m = DOMAIN l \cup {c} /\ \A x \in DOMAIN l : x # c => m[x] = l[x]
      /\ m[c].memory_index = at /\ m[c].size = Aligned(End(start, fields), 8)
      /\ m[c].references = {at[i] : i \in counted}
                           \cup (IF base = None THEN {} ELSE l[base].references)
BaseLaid(c, l) ==
  LET base == program[c].base
  IN  base # None => /\ base \in DOMAIN l /\ Lineage(base) \subseteq DOMAIN l /\ Sound(base, l)
                     /\ Above[Cardinality(Classes)][base] = None

LEMMA SoundNew ==
  ASSUME program \in Programs, NEW c \in Classes, NEW l, NEW m, c \notin DOMAIN l,
         Extends(c, m, l), BaseLaid(c, l)
  PROVE  Sound(c, m)
<1>1. PICK base : base = program[c].base
  OBVIOUS
<1>2. PICK fields : fields = program[c].fields
  OBVIOUS
<1>3. PICK start : start = IF base = None THEN 4 ELSE l[base].size
  OBVIOUS
<1>4. PICK at : at = Offset(start, fields)
  OBVIOUS
<1>5. PICK end : end = End(start, fields)
  OBVIOUS
<1>6. /\ base # None => /\ base \in DOMAIN l /\ base \in Classes /\ Lineage(base) \subseteq DOMAIN l
                        /\ Sound(base, l) /\ Above[Cardinality(Classes)][base] = None
  BY <1>1, ProgramFacts DEF BaseLaid, Beings
<1>7. start \in Nat /\ start >= 4
  BY <1>3, <1>6 DEF Sound
<1>8. fields \in Seq(Lengths)
  BY <1>2, ProgramFacts DEF Lengths, Sizes
<1>9. InARow(at, start, fields, end)
  BY <1>4, <1>5, <1>7, <1>8, FieldsInARow
<1>10. DOMAIN fields = 1 .. Len(fields) /\ Len(fields) \in Nat
  <2> DEFINE T == Lengths
  <2>1. fields \in Seq(T)
    BY <1>8
  <2> HIDE DEF T
  <2> QED
    BY <2>1
<1>11. /\ m[c].memory_index = at /\ m[c].size = Aligned(end, 8)
       /\ m[c].references = {at[i] : i \in {i \in DOMAIN fields : fields[i].reference /\ ~fields[i].weak}}
                            \cup (IF base = None THEN {} ELSE l[base].references)
       /\ \A x \in DOMAIN l : x # c => m[x] = l[x]
  BY <1>1, <1>2, <1>3, <1>4, <1>5 DEF Extends
<1>12. PICK size : size = m[c].size
  OBVIOUS
<1>13. end \in Nat /\ start <= end /\ size \in Nat /\ end <= size
  <2>1. end \in Nat /\ start <= end /\ 8 \in Sizes
    BY <1>9 DEF InARow, Sizes
  <2> QED
    BY <2>1, <1>11, <1>12, AlignedFacts
<1> DEFINE own == {<<c, i>> : i \in DOMAIN fields}
           inherited == IF base = None THEN {} ELSE FieldsOf(base)
<1>14. FieldsOf(c) = own \cup inherited
  <2>1. Lineage(c) = {c} \cup (IF base = None THEN {} ELSE Lineage(base))
    BY <1>1, <1>6, LineageOf
  <2>2. FieldsOf(c) = own \cup (UNION {{<<x, i>> : i \in DOMAIN program[x].fields} : x \in (IF base = None THEN {} ELSE Lineage(base))})
    BY <2>1, <1>2 DEF FieldsOf
  <2>3. CASE base = None
    BY <2>2, <2>3
  <2>4. CASE base # None
    BY <2>2, <2>4 DEF FieldsOf
  <2> QED
    BY <2>3, <2>4
<1>15. ASSUME NEW f \in own
       PROVE  /\ f[2] \in 1 .. Len(fields) /\ SpotOf(m, f) = at[f[2]] /\ Field(f) = fields[f[2]]
              /\ f = <<c, f[2]>>
  <2>1. PICK i \in DOMAIN fields : f = <<c, i>>
    OBVIOUS
  <2> QED
    BY <2>1, <1>2, <1>10, <1>11 DEF SpotOf, Field
<1>16. ASSUME NEW f \in inherited
       PROVE  base # None /\ f \in FieldsOf(base) /\ SpotOf(m, f) = SpotOf(l, f)
  <2>1. base # None /\ f \in FieldsOf(base)
    OBVIOUS
  <2>2. f[1] \in DOMAIN l /\ f[1] # c
    BY <2>1, <1>6, FieldFacts
  <2> QED
    BY <2>1, <2>2, <1>11 DEF SpotOf
<1>17. ASSUME NEW f \in own
       PROVE  /\ SpotOf(m, f) \in Nat /\ SpotOf(m, f) % Field(f).bytes = 0 /\ SpotOf(m, f) >= start
              /\ SpotOf(m, f) + Field(f).bytes <= end
  <2>1. /\ f[2] \in 1 .. Len(fields) /\ SpotOf(m, f) = at[f[2]] /\ Field(f) = fields[f[2]]
    BY <1>15
  <2>2. at[f[2]] \in Nat
    BY <2>1, <1>9 DEF InARow
  <2> QED
    BY <2>1, <2>2, <1>9 DEF InARow
<1>18. ASSUME NEW f \in inherited
       PROVE  /\ SpotOf(m, f) \in Nat /\ SpotOf(m, f) % Field(f).bytes = 0 /\ SpotOf(m, f) >= 4
              /\ SpotOf(m, f) + Field(f).bytes <= start
  <2>1. base # None /\ f \in FieldsOf(base) /\ SpotOf(m, f) = SpotOf(l, f)
    BY <1>16
  <2>2. Sound(base, l) /\ start = l[base].size
    BY <2>1, <1>3, <1>6
  <2> QED
    BY <2>1, <2>2 DEF Sound
<1>19. \A f \in FieldsOf(c) : Field(f).bytes \in Nat
  BY FieldFacts DEF Sizes
<1>20. ASSUME NEW f \in FieldsOf(c)
       PROVE  /\ SpotOf(m, f) \in Nat /\ SpotOf(m, f) % Field(f).bytes = 0 /\ SpotOf(m, f) >= 4
              /\ SpotOf(m, f) + Field(f).bytes <= size
  <2>1. CASE f \in own
    <3>1. /\ SpotOf(m, f) \in Nat /\ SpotOf(m, f) % Field(f).bytes = 0 /\ SpotOf(m, f) >= start
          /\ SpotOf(m, f) + Field(f).bytes <= end
      BY <2>1, <1>17
    <3> HIDE DEF own, inherited
    <3> QED
      BY <3>1, <1>7, <1>13, <1>19
  <2>2. CASE f \in inherited
    <3>1. /\ SpotOf(m, f) \in Nat /\ SpotOf(m, f) % Field(f).bytes = 0 /\ SpotOf(m, f) >= 4
          /\ SpotOf(m, f) + Field(f).bytes <= start
      BY <2>2, <1>18
    <3> HIDE DEF own, inherited
    <3> QED
      BY <3>1, <1>7, <1>13, <1>19
  <2> HIDE DEF own, inherited
  <2> QED
    BY <1>14, <2>1, <2>2
<1> DEFINE Apart(f, g) == \/ SpotOf(m, f) + Field(f).bytes <= SpotOf(m, g)
                          \/ SpotOf(m, g) + Field(g).bytes <= SpotOf(m, f)
<1>21. ASSUME NEW f \in inherited, NEW g \in own PROVE Apart(f, g)
  <2>1. SpotOf(m, f) + Field(f).bytes <= start /\ SpotOf(m, f) \in Nat
    BY <1>18
  <2>2. SpotOf(m, g) \in Nat /\ start <= SpotOf(m, g)
    BY <1>7, <1>17
  <2>3. Field(f).bytes \in Nat
    BY <1>14, <1>19
  <2> HIDE DEF own, inherited
  <2>4. SpotOf(m, f) + Field(f).bytes <= SpotOf(m, g)
    BY <2>1, <2>2, <2>3, <1>7
  <2> QED
    BY <2>4
<1>22. ASSUME NEW f \in own, NEW g \in own, f # g PROVE Apart(f, g)
  <2>1. /\ f[2] \in 1 .. Len(fields) /\ SpotOf(m, f) = at[f[2]] /\ Field(f) = fields[f[2]]
        /\ g[2] \in 1 .. Len(fields) /\ SpotOf(m, g) = at[g[2]] /\ Field(g) = fields[g[2]]
        /\ f[2] # g[2]
    BY <1>15, <1>22
  <2>2. f[2] < g[2] \/ g[2] < f[2]
    BY <2>1
  <2> HIDE DEF own, inherited
  <2> QED
    BY <2>1, <2>2, <1>9 DEF InARow
<1>23. ASSUME NEW f \in inherited, NEW g \in inherited, f # g PROVE Apart(f, g)
  <2>1. base # None /\ f \in FieldsOf(base) /\ SpotOf(m, f) = SpotOf(l, f)
    BY <1>16
  <2>2. g \in FieldsOf(base) /\ SpotOf(m, g) = SpotOf(l, g)
    BY <1>16
  <2>3. Sound(base, l) /\ g \in FieldsOf(base) \ {f}
    BY <2>1, <2>2, <1>6, <1>23
  <2> HIDE DEF own, inherited
  <2> QED
    BY <2>1, <2>2, <2>3 DEF Sound
<1>24. ASSUME NEW f \in FieldsOf(c), NEW g \in FieldsOf(c) \ {f} PROVE Apart(f, g)
  <2> HIDE DEF own, inherited
  <2>1. f \in own \cup inherited /\ g \in own \cup inherited /\ f # g
    BY <1>14
  <2>2. CASE f \in own /\ g \in inherited
    <3>1. Apart(g, f)
      BY <2>2, <1>21
    <3> QED
      BY <3>1
  <2> QED
    BY <2>1, <2>2, <1>21, <1>22, <1>23
<1> DEFINE Counts(f) == Field(f).reference /\ ~Field(f).weak
<1>25. m[c].references = {SpotOf(m, f) : f \in {g \in FieldsOf(c) : Counts(g)}}
  <2>1. {SpotOf(m, f) : f \in {g \in own : Counts(g)}}
          = {at[i] : i \in {i \in DOMAIN fields : fields[i].reference /\ ~fields[i].weak}}
    <3>1. \A i \in DOMAIN fields : /\ <<c, i>> \in own /\ SpotOf(m, <<c, i>>) = at[i]
                                   /\ (Counts(<<c, i>>) <=> fields[i].reference /\ ~fields[i].weak)
      BY <1>2, <1>11 DEF SpotOf, Field
    <3>2. \A f \in own : \E i \in DOMAIN fields : f = <<c, i>>
      OBVIOUS
    <3> DEFINE L == {SpotOf(m, f) : f \in {g \in own : Counts(g)}}
               R == {at[i] : i \in {i \in DOMAIN fields : fields[i].reference /\ ~fields[i].weak}}
    <3>3. ASSUME NEW x \in L PROVE x \in R
      <4>1. PICK f \in own : Counts(f) /\ x = SpotOf(m, f)
        OBVIOUS
      <4>2. PICK i \in DOMAIN fields : f = <<c, i>>
        BY <3>2
      <4>3. fields[i].reference /\ ~fields[i].weak /\ x = at[i]
        BY <3>1, <4>1, <4>2
      <4> QED
        BY <4>3
    <3>4. ASSUME NEW x \in R PROVE x \in L
      <4>1. PICK i \in DOMAIN fields : x = at[i] /\ fields[i].reference /\ ~fields[i].weak
        OBVIOUS
      <4>2. PICK f : f = <<c, i>>
        OBVIOUS
      <4>3. f \in own /\ Counts(f) /\ x = SpotOf(m, f)
        BY <3>1, <4>1, <4>2
      <4> HIDE DEF own, Counts
      <4> QED
        BY <4>3
    <3> HIDE DEF L, R
    <3>5. L = R
      BY <3>3, <3>4
    <3> QED
      BY <3>5 DEF L, R
  <2>2. {SpotOf(m, f) : f \in {g \in inherited : Counts(g)}} = IF base = None THEN {} ELSE l[base].references
    <3>1. CASE base = None
      BY <3>1
    <3>2. CASE base # None
      <4>1. l[base].references = {SpotOf(l, f) : f \in {g \in FieldsOf(base) : Counts(g)}}
        BY <3>2, <1>6 DEF Sound
      <4>2. inherited = FieldsOf(base) /\ \A f \in inherited : SpotOf(m, f) = SpotOf(l, f)
        BY <3>2, <1>16
      <4> HIDE DEF inherited, own, Counts
      <4> QED
        BY <3>2, <4>1, <4>2
    <3> QED
      BY <3>1, <3>2
  <2> HIDE DEF inherited, own, Counts
  <2>3. {SpotOf(m, f) : f \in {g \in FieldsOf(c) : Counts(g)}}
          = {SpotOf(m, f) : f \in {g \in own : Counts(g)}} \cup {SpotOf(m, f) : f \in {g \in inherited : Counts(g)}}
    BY <1>14
  <2> QED
    BY <2>1, <2>2, <2>3, <1>11
<1>26. m[c].size \in Nat /\ m[c].size >= 4
  BY <1>7, <1>12, <1>13
<1> HIDE DEF inherited, own
<1> QED
  BY <1>12, <1>20, <1>24, <1>25, <1>26 DEF Sound

LEMMA SameLaid ==
  ASSUME program' = program
  PROVE  \A c, l : Laid(c, l)' <=> Laid(c, l)
<1>1. Classes' = Classes /\ Above' = Above /\ Heights' = Heights
  BY SameProgram
<1>2. \A c : Lineage(c)' = Lineage(c)
  BY <1>1 DEF Lineage
<1>3. \A c : FieldsOf(c)' = FieldsOf(c)
  BY <1>2 DEF FieldsOf
<1>4. \A f : Field(f)' = Field(f)
  BY DEF Field
<1>5. \A c, l : Sound(c, l)' <=> Sound(c, l)
  BY <1>3, <1>4 DEF Sound, SpotOf
<1> QED
  BY <1>1, <1>2, <1>5 DEF Laid

LEMMA LayoutConcluded ==
  ASSUME program' = program,
         DOMAIN layout' = IF phase' \in {"layouts", "bound"} THEN Classes \ pending' ELSE {},
         phase' \in {"layouts", "bound"} => calls' = <<>>,
         \A c \in DOMAIN layout' : Laid(c, layout')
  PROVE  LInv'
<1>1. Classes' = Classes /\ \A c, l : Laid(c, l)' <=> Laid(c, l)
  BY SameProgram, SameLaid
<1> QED
  BY <1>1 DEF LInv

LEMMA LayoutAlone ==
  ASSUME LInv, program' = program, layout' = layout,
         DOMAIN layout = IF phase' \in {"layouts", "bound"} THEN Classes \ pending' ELSE {},
         phase' \in {"layouts", "bound"} => calls' = <<>>
  PROVE  LInv'
<1>1. \A c \in DOMAIN layout' : Laid(c, layout')
  BY DEF LInv
<1> QED
  BY <1>1, LayoutConcluded

LEMMA LayoutStarts ==
  ASSUME Init
  PROVE  LInv
BY DEF Init, LInv

LEMMA LayOutKeeps ==
  ASSUME TInv, LInv, NEW c \in Classes, LayOut(c)
  PROVE  LInv'
<1>1. PICK base : base = program[c].base
  OBVIOUS
<1>2. PICK l : l = layout
  OBVIOUS
<1>3. PICK m : m = layout'
  OBVIOUS
<1>4. PICK D : D = DOMAIN l
  OBVIOUS
<1>5. /\ phase = "layouts" /\ c \in pending /\ base \notin pending
      /\ pending' = pending \ {c} /\ program' = program /\ phase' = phase /\ calls' = calls
  BY <1>1 DEF LayOut, tables
<1>6. program \in Programs /\ pending \in SUBSET Classes /\ D = Classes \ pending /\ calls = <<>>
      /\ \A x \in D : Laid(x, l)
  BY <1>2, <1>4, <1>5 DEF TInv, TypesOK, LInv
<1>7. c \notin D /\ D \in SUBSET Classes /\ D \cup {c} \in SUBSET Classes
  BY <1>5, <1>6
<1>8. Extends(c, m, l)
  BY <1>2, <1>3, <1>4, <1>7 DEF LayOut, Extends
<1>9. PICK n \in Nat : n = Cardinality(Classes)
  BY <1>6, ClassCount
<1>10. PICK k \in Nat : k = Cardinality(D)
  BY <1>6, <1>7, ClassCount, FS_Subset, FS_CardinalityType
<1>11. /\ k <= n /\ Cardinality(D \cup {c}) = k + 1 /\ k + 1 <= n
  <2>1. IsFiniteSet(D)
    BY <1>6, <1>7, ClassCount, FS_Subset
  <2>2. Cardinality(D \cup {c}) = k + 1
    BY <2>1, <1>7, <1>10, FS_AddElement
  <2>3. Cardinality(D) <= Cardinality(Classes) /\ Cardinality(D \cup {c}) <= Cardinality(Classes)
    BY <1>6, <1>7, ClassCount, FS_Subset
  <2> QED
    BY <2>2, <2>3, <1>9, <1>10
<1>12. base = None \/ (base \in D /\ base \in Classes)
  BY <1>1, <1>5, <1>6, ProgramFacts DEF Beings
<1>13. Above[k][base] = None
  <2>1. CASE base = None
    BY <2>1, <1>6, <1>10, AboveFacts
  <2>2. CASE base \in D
    BY <2>2, <1>4, <1>6, <1>10 DEF Laid
  <2> QED
    BY <1>12, <2>1, <2>2
<1>14. Above[n][base] = None
  <2>1. base \in Beings
    BY <1>12 DEF Beings
  <2> QED
    BY <2>1, <1>6, <1>9, <1>10, <1>11, <1>13, AboveEnds
<1>15. BaseLaid(c, l)
  BY <1>1, <1>4, <1>6, <1>9, <1>12, <1>14 DEF BaseLaid, Laid
<1>16. DOMAIN m = D \cup {c} /\ \A x \in D : m[x] = l[x]
  BY <1>4, <1>7, <1>8 DEF Extends
<1>17. ASSUME NEW x \in D PROVE Laid(x, m)
  <2>1. Laid(x, l) /\ x \in Classes
    BY <1>6, <1>7
  <2>2. Above[k][x] = None
    BY <2>1, <1>4, <1>10 DEF Laid
  <2>3. k + 1 \in Nat /\ k <= k + 1 /\ x \in Beings
    BY <2>1 DEF Beings
  <2>4. PICK h \in Nat : h = k + 1
    BY <2>3
  <2>5. Above[h][x] = None
    BY <2>2, <2>3, <2>4, <1>6, AboveEnds
  <2>6. Lineage(x) \subseteq D /\ Sound(x, l)
    BY <2>1, <1>4 DEF Laid
  <2>7. Sound(x, m)
    BY <2>1, <2>6, <1>4, <1>6, <1>16, SoundStays
  <2>8. Cardinality(DOMAIN m) = h
    BY <2>4, <1>11, <1>16
  <2> QED
    BY <2>5, <2>6, <2>7, <2>8, <1>16 DEF Laid
<1>18. Laid(c, m)
  <2>1. Sound(c, m)
    BY <1>4, <1>6, <1>7, <1>8, <1>15, SoundNew
  <2>2. Above[k + 1][c] = None
    BY <1>1, <1>6, <1>13, AboveFacts
  <2>3. Lineage(c) = {c} \cup (IF base = None THEN {} ELSE Lineage(base))
    BY <1>1, <1>6, <1>9, <1>14, LineageOf
  <2>4. base # None => Lineage(base) \subseteq D
    BY <1>4, <1>6, <1>12 DEF Laid
  <2>5. Lineage(c) \subseteq D \cup {c}
    BY <2>3, <2>4
  <2>6. Cardinality(DOMAIN m) = k + 1
    BY <1>11, <1>16
  <2> QED
    BY <2>1, <2>2, <2>5, <2>6, <1>16 DEF Laid
<1>19. \A x \in DOMAIN layout' : Laid(x, layout')
  BY <1>3, <1>16, <1>17, <1>18
<1>20. DOMAIN layout' = Classes \ pending'
  BY <1>3, <1>5, <1>6, <1>16
<1>21. phase' = "layouts" /\ calls' = <<>>
  BY <1>5, <1>6
<1> QED
  BY <1>5, <1>19, <1>20, <1>21, LayoutConcluded

LEMMA NextPassKeeps ==
  ASSUME TInv, LInv, NextPass
  PROVE  LInv'
<1>1. PICK to \in {Passes[i] : i \in 2..5} :
        /\ Comes(phase, to)
        /\ phase' = IF to = "layouts" /\ errors # {} THEN "refused" ELSE to
        /\ pending' = IF phase' \in {"refused", "bound"} THEN {} ELSE Symbols(to)
  BY DEF NextPass
<1>2. program' = program /\ layout' = layout /\ calls' = calls /\ pending = {} /\ calls = <<>>
  BY DEF NextPass, tables
<1>3. \/ (phase = "members" /\ to = "interfaces") \/ (phase = "interfaces" /\ to = "classes")
      \/ (phase = "classes" /\ to = "layouts") \/ (phase = "layouts" /\ to = "bound")
  BY <1>1 DEF Comes, Passes
<1>4. DOMAIN layout = IF phase' \in {"layouts", "bound"} THEN Classes \ pending' ELSE {}
  <2>1. CASE phase = "layouts" /\ to = "bound"
    <3>1. DOMAIN layout = Classes
      BY <2>1, <1>2 DEF LInv
    <3>2. phase' = "bound" /\ pending' = {}
      BY <2>1, <1>1
    <3> QED
      BY <3>1, <3>2
  <2>2. CASE phase = "classes" /\ to = "layouts"
    <3>1. DOMAIN layout = {}
      BY <2>2 DEF LInv
    <3>2. phase' = "refused" \/ (phase' = "layouts" /\ pending' = Classes)
      BY <2>2, <1>1 DEF Symbols
    <3> QED
      BY <3>1, <3>2
  <2>3. CASE phase \in {"members", "interfaces"} /\ to \in {"interfaces", "classes"}
    <3>1. DOMAIN layout = {}
      BY <2>3 DEF LInv
    <3>2. phase' \in {"interfaces", "classes"}
      BY <2>3, <1>1
    <3> QED
      BY <3>1, <3>2
  <2> QED
    BY <1>3, <2>1, <2>2, <2>3
<1> QED
  BY <1>2, <1>4, LayoutAlone

LEMMA TableFrame ==
  ASSUME LInv, Table
  PROVE  /\ program' = program /\ layout' = layout /\ phase \notin {"layouts", "bound"}
         /\ phase' \in {phase, "thrown"} /\ destructors' = destructors
         /\ phase # "members" \/ calls # <<>>
<1>1. calls # <<>> => phase \notin {"layouts", "bound"}
  BY DEF LInv
<1>2. CASE \E c \in Classes : Begin(c)
  BY <1>2 DEF Begin
<1>3. CASE Recur
  BY <1>1, <1>3 DEF Recur, Doing
<1>4. CASE Inherit
  BY <1>1, <1>4 DEF Inherit, Doing
<1>5. CASE DeclareMethod
  BY <1>1, <1>5 DEF DeclareMethod, Doing
<1>6. CASE OverridesNothing
  BY <1>1, <1>6 DEF OverridesNothing, Doing
<1>7. CASE OpenInterface
  BY <1>1, <1>7 DEF OpenInterface, Doing
<1>8. CASE Implement
  BY <1>1, <1>8 DEF Implement, Doing
<1>9. CASE DoesNotImplement
  BY <1>1, <1>9 DEF DoesNotImplement, Doing
<1>10. CASE Finish
  BY <1>1, <1>10 DEF Finish
<1> QED
  BY <1>2, <1>3, <1>4, <1>5, <1>6, <1>7, <1>8, <1>9, <1>10 DEF Table

LEMMA TableKeeps ==
  ASSUME LInv, Table
  PROVE  LInv'
<1>1. /\ program' = program /\ layout' = layout /\ phase \notin {"layouts", "bound"}
      /\ phase' \in {phase, "thrown"}
  BY TableFrame
<1>2. phase' \notin {"layouts", "bound"} /\ DOMAIN layout = {}
  BY <1>1 DEF LInv
<1> QED
  BY <1>1, <1>2, LayoutAlone

LEMMA LayoutInductive ==
  TInv /\ LInv /\ [Next]_vars => LInv'
<1> SUFFICES ASSUME TInv, LInv, [Next]_vars
             PROVE  LInv'
  OBVIOUS
<1>1. ASSUME NEW c \in Classes, RegisterMembers(c) PROVE LInv'
  <2>1. program' = program /\ layout' = layout /\ phase = "members" /\ phase' = phase
    BY <1>1 DEF RegisterMembers
  <2>2. DOMAIN layout = {}
    BY <2>1 DEF LInv
  <2> QED
    BY <2>1, <2>2, LayoutAlone
<1>2. ASSUME NEW c \in Classes, LayOut(c) PROVE LInv'
  BY <1>2, LayOutKeeps
<1>3. CASE Table
  BY <1>3, TableKeeps
<1>4. CASE NextPass
  BY <1>4, NextPassKeeps
<1>5. CASE UNCHANGED vars
  <2>1. program' = program /\ layout' = layout /\ phase' = phase /\ pending' = pending /\ calls' = calls
    BY <1>5 DEF vars, tables
  <2> QED
    BY <2>1, LayoutAlone DEF LInv
<1> QED
  BY <1>1, <1>2, <1>3, <1>4, <1>5 DEF Next

LEMMA LayoutInvariant ==
  Spec => [](TInv /\ LInv)
<1>1. Init => TInv /\ LInv
  BY InitTables, LayoutStarts
<1>2. (TInv /\ LInv) /\ [Next]_vars => (TInv /\ LInv)'
  BY TablesInductive, LayoutInductive
<1> QED
  BY <1>1, <1>2, PTL DEF Spec

LEMMA InvariantLayout ==
  LInv => LayoutSound
<1> SUFFICES ASSUME LInv, NEW c \in DOMAIN layout
             PROVE  /\ layout[c].references = {At(f) : f \in {g \in FieldsOf(c) : Field(g).reference /\ ~Field(g).weak}}
                    /\ \A f \in FieldsOf(c) :
                         /\ At(f) % Field(f).bytes = 0 /\ At(f) >= 4
                         /\ At(f) + Field(f).bytes <= layout[c].size
                         /\ \A g \in FieldsOf(c) \ {f} :
                              At(f) + Field(f).bytes <= At(g) \/ At(g) + Field(g).bytes <= At(f)
  BY DEF LayoutSound
<1>1. \A f : SpotOf(layout, f) = At(f)
  BY DEF SpotOf, At
<1>2. Sound(c, layout)
  BY DEF LInv, Laid
<1> QED
  BY <1>1, <1>2 DEF Sound

(* Fields never overlap, whatever is inherited and in whatever order the
   classes are laid out; and the interpreter looks for references where they
   are. *)
THEOREM LayoutsAreSound ==
  Spec => []LayoutSound
<1> QED
  BY LayoutInvariant, InvariantLayout, PTL

-----------------------------------------------------------------------------
(* Lines of classes, and the destructors along them. *)

Owns(c) == program[c].destructor
Straight(c) == c \in Classes /\ Above[Cardinality(Classes)][c] = None

(* y is the nearest class strictly above c that declares a destructor. *)
IsNearest(c, y) ==
  \/ y = None /\ \A k \in Nat \ {0} : Above[k][c] # None => ~Owns(Above[k][c])
  \/ /\ y \in Classes /\ Owns(y)
     /\ \E k \in Nat \ {0} : y = Above[k][c] /\ \A j \in 1 .. k - 1 : ~Owns(Above[j][c])

LEMMA StraightUp ==
  ASSUME program \in Programs, NEW c, Straight(c), NEW k \in Nat, Above[k][c] # None
  PROVE  /\ Straight(Above[k][c]) /\ \A m \in Nat : Above[m][Above[k][c]] = Above[m + k][c]
         /\ \A j \in 0 .. k : Above[j][c] \in Classes
<1>1. c \in Beings /\ c \in Classes
  BY DEF Straight, Beings
<1>2. PICK n \in Nat : n = Cardinality(Classes)
  BY ClassCount
<1>3. PICK y : y = Above[k][c]
  OBVIOUS
<1>4. \A m \in Nat : Above[m][y] = Above[m + k][c]
  BY <1>1, <1>3, AboveSum
<1>5. Above[n][c] = None
  BY <1>2 DEF Straight
<1>6. Above[n + k][c] = None
  <2>1. PICK h \in Nat : h = n + k
    OBVIOUS
  <2>2. n <= h
    BY <2>1
  <2> QED
    BY <1>1, <1>5, <2>1, <2>2, AboveEnds
<1>7. ASSUME NEW j \in 0 .. k PROVE Above[j][c] \in Classes
  <2>1. j \in Nat /\ j <= k
    OBVIOUS
  <2>2. Above[j][c] # None
    BY <2>1, <1>1, AboveEnds
  <2>3. Above[j][c] \in Beings
    BY <2>1, <1>1, AboveType
  <2> QED
    BY <2>2, <2>3 DEF Beings
<1>8. y \in Classes
  <2>1. k \in 0 .. k
    OBVIOUS
  <2> QED
    BY <2>1, <1>3, <1>7
<1>9. Straight(y)
  BY <1>2, <1>4, <1>6, <1>8 DEF Straight
<1> QED
  BY <1>3, <1>4, <1>7, <1>9

(* No class of a line that ends is above itself. *)
LEMMA NotAboveItself ==
  ASSUME program \in Programs, NEW c, Straight(c), NEW k \in Nat \ {0}
  PROVE  Above[k][c] # c
<1> SUFFICES ASSUME Above[k][c] = c PROVE FALSE
  OBVIOUS
<1>1. c \in Beings /\ c \in Classes /\ c # None
  BY ProgramFacts DEF Straight, Beings
<1>2. PICK n \in Nat : n = Cardinality(Classes)
  BY ClassCount
<1> DEFINE E == {i \in Nat : Above[i][c] = None}
<1>3. n \in E
  BY <1>2 DEF Straight
<1>4. PICK i \in E : \A l \in E : i <= l
  <2>1. E \in SUBSET Nat /\ E # {}
    BY <1>3
  <2> HIDE DEF E
  <2> QED
    BY <2>1, Least
<1>5. i \in Nat /\ Above[i][c] = None
  BY <1>4
<1>6. k <= i
  <2> SUFFICES ASSUME i <= k PROVE k = i
    BY <1>5
  <2>1. k \in Nat
    OBVIOUS
  <2>2. Above[k][c] = None
    BY <2>1, <1>1, <1>5, AboveEnds
  <2> QED
    BY <1>1, <2>2
<1>7. PICK l \in Nat : l + k = i
  <2>1. i - k \in Nat /\ (i - k) + k = i
    BY <1>5, <1>6
  <2> QED
    BY <2>1
<1>8. Above[l + k][c] = Above[l][Above[k][c]]
  BY <1>1, AboveSum
<1>9. l \in E
  BY <1>5, <1>7, <1>8
<1>10. i <= l
  BY <1>4, <1>9
<1> QED
  BY <1>5, <1>7, <1>10

LEMMA LineageInNat ==
  ASSUME program \in Programs, NEW c, Straight(c)
  PROVE  \A x : x \in Lineage(c) <=> x # None /\ \E k \in Nat : x = Above[k][c]
<1>1. c \in Beings
  BY DEF Straight, Beings
<1>2. PICK n \in Nat : n = Cardinality(Classes)
  BY ClassCount
<1>3. Heights = 0 .. n
  BY <1>2 DEF Heights
<1>4. ASSUME NEW k \in Nat, Above[k][c] # None PROVE k \in 0 .. n
  <2> SUFFICES ASSUME n <= k PROVE k = n
    OBVIOUS
  <2>1. Above[n][c] = None
    BY <1>2 DEF Straight
  <2>2. Above[k][c] = None
    BY <1>1, <2>1, AboveEnds
  <2> QED
    BY <1>4, <2>2
<1> QED
  BY <1>3, <1>4 DEF Lineage

LEMMA LineageOfNone ==
  ASSUME program \in Programs
  PROVE  Lineage(None) = {}
<1>1. \A n \in Heights : Above[n][None] = None
  BY AboveFacts DEF Heights
<1> QED
  BY <1>1 DEF Lineage

(* Who declares a destructor at or above a class: itself, and those of the
   line of the nearest. *)
LEMMA OwnersAbove ==
  ASSUME program \in Programs, NEW c, Straight(c), NEW y, IsNearest(c, y)
  PROVE  /\ y = None \/ (Straight(y) /\ Owns(y))
         /\ \A x \in Lineage(c) : Owns(x) => x = c \/ x \in Lineage(y)
         /\ \A x \in Lineage(y) : x \in Lineage(c) /\ x # c
         /\ \A n \in Nat : Above[n + 1][c] = None => Above[n][y] = None
<1>1. c \in Beings /\ c \in Classes
  BY DEF Straight, Beings
<1>2. \A x : x \in Lineage(c) <=> x # None /\ \E k \in Nat : x = Above[k][c]
  BY LineageInNat
<1>3. Above[0][c] = c
  BY <1>1, AboveFacts
<1>4. CASE y = None /\ \A k \in Nat \ {0} : Above[k][c] # None => ~Owns(Above[k][c])
  <2>1. ASSUME NEW x \in Lineage(c), Owns(x) PROVE x = c
    <3>1. PICK k \in Nat : x = Above[k][c] /\ x # None
      BY <1>2
    <3>2. k = 0
      BY <1>4, <2>1, <3>1
    <3> QED
      BY <1>3, <3>1, <3>2
  <2>2. \A n \in Nat : Above[n][None] = None
    BY AboveFacts
  <2> QED
    BY <1>4, <2>1, <2>2, LineageOfNone
<1>5. CASE y # None /\ IsNearest(c, y)
  <2>1. y \in Classes /\ Owns(y)
    BY <1>5 DEF IsNearest
  <2>2. PICK k \in Nat \ {0} : y = Above[k][c] /\ \A j \in 1 .. k - 1 : ~Owns(Above[j][c])
    BY <1>5 DEF IsNearest
  <2>3. k \in Nat /\ Above[k][c] # None
    BY <1>5, <2>2
  <2>4. Straight(Above[k][c]) /\ \A m \in Nat : Above[m][Above[k][c]] = Above[m + k][c]
    BY <2>3, StraightUp
  <2>5. Straight(y) /\ \A m \in Nat : Above[m][y] = Above[m + k][c]
    BY <2>2, <2>4
  <2>6. \A x : x \in Lineage(y) <=> x # None /\ \E m \in Nat : x = Above[m][y]
    BY <2>5, LineageInNat
  <2>7. ASSUME NEW x \in Lineage(c), Owns(x), x # c PROVE x \in Lineage(y)
    <3>1. PICK i \in Nat : x = Above[i][c] /\ x # None
      BY <1>2
    <3>2. i # 0
      BY <1>3, <2>7, <3>1
    <3>3. i \notin 1 .. k - 1
      BY <2>2, <2>7, <3>1
    <3>4. i - k \in Nat /\ (i - k) + k = i
      BY <2>3, <3>2, <3>3
    <3>5. x = Above[i - k][y]
      BY <2>5, <3>1, <3>4
    <3> QED
      BY <2>6, <3>1, <3>4, <3>5
  <2>8. ASSUME NEW x \in Lineage(y) PROVE x \in Lineage(c) /\ x # c
    <3>1. PICK m \in Nat : x = Above[m][y] /\ x # None
      BY <2>6
    <3>2. PICK h \in Nat \ {0} : h = m + k
      BY <2>2
    <3>3. x = Above[h][c]
      BY <2>5, <3>1, <3>2
    <3>4. x # c
      BY <3>3, NotAboveItself
    <3> QED
      BY <1>2, <3>1, <3>3, <3>4
  <2>9. ASSUME NEW n \in Nat, Above[n + 1][c] = None PROVE Above[n][y] = None
    <3>1. PICK h \in Nat : h = n + 1
      OBVIOUS
    <3>2. PICK i \in Nat : i = n + k
      BY <2>3
    <3>3. h <= i
      BY <2>2, <3>1, <3>2
    <3>4. Above[i][c] = None
      BY <1>1, <2>9, <3>1, <3>3, AboveEnds
    <3> QED
      BY <2>5, <3>2, <3>4
  <2> QED
    BY <2>1, <2>5, <2>7, <2>8, <2>9
<1>6. y = None => ~(y \in Classes)
  BY ProgramFacts
<1> QED
  BY <1>4, <1>5, <1>6 DEF IsNearest

(* The destructors of an object. *)

LEMMA ChainFacts ==
  ASSUME program \in Programs, super_destructor \in [Classes -> Beings]
  PROVE  /\ \A c \in Beings : Chain[0][c] = <<>>
         /\ \A n \in Nat : Chain[n][None] = <<>>
         /\ \A n \in Nat : \A c \in Classes :
              Chain[n + 1][c] = <<c>> \o Chain[n][super_destructor[c]]
         /\ \A n \in Nat : \A c \in Beings : Chain[n][c] \in Seq(Classes)
<1> DEFINE Q == Seq(Classes)
           X == [Beings -> Q]
           start == [c \in Beings |-> <<>>]
           step == [g \in X |-> [c \in Beings |->
                      IF c = None THEN <<>> ELSE <<c>> \o g[super_destructor[c]]]]
           F(g) == [n \in Nat |-> [c \in Beings |->
                      IF n = 0 \/ c = None THEN <<>> ELSE <<c>> \o g[n - 1][super_destructor[c]]]]
<1>1. \A c \in Beings : c # None => c \in Classes /\ super_destructor[c] \in Beings
  BY DEF Beings
<1>2. <<>> \in Q /\ \A c \in Classes : \A s \in Q : <<c>> \o s \in Q
  OBVIOUS
<1>3. start \in X /\ step \in [X -> X]
  <2> HIDE DEF Q
  <2>1. ASSUME NEW g \in X, NEW c \in Beings, c # None PROVE <<c>> \o g[super_destructor[c]] \in Q
    <3>1. c \in Classes /\ g[super_destructor[c]] \in Q
      BY <1>1, <2>1
    <3> QED
      BY <1>2, <3>1
  <2> QED
    BY <1>2, <2>1
<1> HIDE DEF Q
<1>4. PICK f : f \in [Nat -> X] /\ f[0] = start /\ \A n \in Nat : f[n + 1] = step[f[n]]
  <2> HIDE DEF start, step, X
  <2>1. \E f : Repeats(f, X, start, step)
    BY <1>3, Iterated
  <2> QED
    BY <2>1 DEF Repeats
<1>5. \A n \in Nat : f[n] \in X
  BY <1>4
<1>6. ASSUME NEW n \in Nat
      PROVE  f[n] = [c \in Beings |-> IF n = 0 \/ c = None THEN <<>>
                                      ELSE <<c>> \o f[n - 1][super_destructor[c]]]
  <2>1. CASE n = 0
    BY <1>4, <2>1
  <2>2. CASE n # 0
    <3>1. n - 1 \in Nat /\ (n - 1) + 1 = n
      BY <2>2
    <3>2. f[n] = step[f[n - 1]] /\ f[n - 1] \in X
      BY <1>4, <1>5, <3>1
    <3> QED
      BY <2>2, <3>2
  <2> QED
    BY <2>1, <2>2
<1>7. f = F(f)
  <2>1. \A n \in Nat : f[n] = F(f)[n]
    BY <1>6
  <2>2. f = [n \in Nat |-> f[n]]
    BY <1>4
  <2> HIDE DEF X
  <2> QED
    BY <2>1, <2>2
<1>8. Chain = F(Chain)
  <2>1. Chain = CHOOSE g : g = F(g)
    BY DEF Chain, Beings
  <2> HIDE DEF F
  <2> QED
    BY <1>7, <2>1
<1>9. \A n \in Nat : Chain[n] = [c \in Beings |->
        IF n = 0 \/ c = None THEN <<>> ELSE <<c>> \o Chain[n - 1][super_destructor[c]]]
  BY <1>8
<1>10. Chain[0] = start /\ \A n \in Nat : Chain[n + 1] = [c \in Beings |->
          IF c = None THEN <<>> ELSE <<c>> \o Chain[n][super_destructor[c]]]
  <2>1. ASSUME NEW n \in Nat PROVE n + 1 \in Nat /\ n + 1 # 0 /\ (n + 1) - 1 = n
    OBVIOUS
  <2> QED
    BY <1>9, <2>1
<1> DEFINE S == {n \in Nat : Chain[n] \in X}
<1>11. 0 \in S
  BY <1>3, <1>10
<1>12. ASSUME NEW n \in Nat, n \in S PROVE n + 1 \in S
  <2>1. Chain[n] \in X
    BY <1>12
  <2>2. Chain[n + 1] = step[Chain[n]]
    BY <1>10, <2>1
  <2> HIDE DEF step, X
  <2>3. step[Chain[n]] \in X
    BY <1>3, <2>1
  <2> QED
    BY <2>2, <2>3
<1>13. \A n \in Nat : n \in S
  <2> HIDE DEF S
  <2> QED
    BY <1>11, <1>12, Induction
<1>14. None \in Beings /\ \A c \in Classes : c \in Beings /\ c # None
  BY ProgramFacts DEF Beings
<1>15. \A n \in Nat : Chain[n][None] = <<>>
  <2> SUFFICES ASSUME NEW n \in Nat PROVE Chain[n][None] = <<>>
    OBVIOUS
  <2>1. Chain[n] = [c \in Beings |->
          IF n = 0 \/ c = None THEN <<>> ELSE <<c>> \o Chain[n - 1][super_destructor[c]]]
    BY <1>9
  <2> QED
    BY <1>14, <2>1
<1>16. \A n \in Nat : \A c \in Classes : Chain[n + 1][c] = <<c>> \o Chain[n][super_destructor[c]]
  <2> SUFFICES ASSUME NEW n \in Nat, NEW c \in Classes
               PROVE  Chain[n + 1][c] = <<c>> \o Chain[n][super_destructor[c]]
    OBVIOUS
  <2>1. Chain[n + 1] = [x \in Beings |->
          IF x = None THEN <<>> ELSE <<x>> \o Chain[n][super_destructor[x]]]
    BY <1>10
  <2> QED
    BY <1>14, <2>1
<1>17. \A n \in Nat : \A c \in Beings : Chain[n][c] \in Seq(Classes)
  BY <1>13 DEF Q
<1>18. \A c \in Beings : Chain[0][c] = <<>>
  BY <1>10
<1> QED
  BY <1>15, <1>16, <1>17, <1>18

(* The sequence is that of the destructors at or above a class. *)
Runs(s, y) ==
  /\ {s[i] : i \in DOMAIN s} = {x \in Lineage(y) : Owns(x)}
  /\ Upwards(s)

LEMMA RunsNone ==
  ASSUME program \in Programs
  PROVE  Runs(<<>>, None)
<1>1. DOMAIN <<>> = {}
  OBVIOUS
<1>2. Lineage(None) = {}
  BY LineageOfNone
<1> QED
  BY <1>1, <1>2 DEF Runs, Upwards

LEMMA RunsOneMore ==
  ASSUME program \in Programs, NEW c, Straight(c), Owns(c), NEW z, IsNearest(c, z),
         NEW t \in Seq(Classes), Runs(t, z), NEW s, s = <<c>> \o t
  PROVE  Runs(s, c)
<1>1. c \in Classes /\ c \in Lineage(c)
  BY LineageType DEF Straight
<1>2. /\ \A x \in Lineage(c) : Owns(x) => x = c \/ x \in Lineage(z)
      /\ \A x \in Lineage(z) : x \in Lineage(c) /\ x # c
  BY OwnersAbove
<1>3. PICK n \in Nat : n = Len(t)
  OBVIOUS
<1>4. DOMAIN t = 1 .. n
  BY <1>3
<1>5. /\ DOMAIN s = 1 .. n + 1 /\ s[1] = c
      /\ \A i \in 1 .. n : s[i + 1] = t[i]
  <2>1. <<c>> \in Seq(Classes) /\ Len(<<c>>) = 1 /\ <<c>>[1] = c
    BY <1>1
  <2> QED
    BY <1>3, <2>1
<1>6. \A i \in 1 .. n + 1 : i = 1 \/ (i - 1 \in 1 .. n /\ (i - 1) + 1 = i)
  OBVIOUS
<1>7. \A i \in DOMAIN s : i = 1 \/ (i - 1 \in DOMAIN t /\ s[i] = t[i - 1])
  BY <1>4, <1>5, <1>6
<1>8. \A i \in DOMAIN t : i + 1 \in DOMAIN s /\ s[i + 1] = t[i]
  BY <1>4, <1>5
<1>9. {t[i] : i \in DOMAIN t} = {x \in Lineage(z) : Owns(x)}
  BY DEF Runs
<1>10. \A i \in DOMAIN t : t[i] \in Lineage(z) /\ Owns(t[i])
  BY <1>9
<1>11. {s[i] : i \in DOMAIN s} = {x \in Lineage(c) : Owns(x)}
  <2>1. ASSUME NEW i \in DOMAIN s PROVE s[i] \in Lineage(c) /\ Owns(s[i])
    BY <1>1, <1>2, <1>5, <1>7, <1>10
  <2>2. ASSUME NEW x \in Lineage(c), Owns(x) PROVE \E i \in DOMAIN s : s[i] = x
    <3>1. CASE x = c
      <4>1. 1 \in DOMAIN s
        BY <1>5
      <4> QED
        BY <1>5, <3>1, <4>1
    <3>2. CASE x # c
      <4>1. x \in Lineage(z)
        BY <1>2, <2>2, <3>2
      <4>2. PICK i \in DOMAIN t : t[i] = x
        BY <1>9, <2>2, <4>1
      <4> QED
        BY <1>8, <4>2
    <3> QED
      BY <3>1, <3>2
  <2> QED
    BY <2>1, <2>2
<1>12. ASSUME NEW i \in DOMAIN s, NEW j \in DOMAIN s, i < j
       PROVE  s[j] \in Lineage(s[i]) \ {s[i]}
  <2>1. i \in Nat /\ j \in Nat /\ i >= 1 /\ j # 1
    BY <1>5, <1>12
  <2>2. j - 1 \in DOMAIN t /\ s[j] = t[j - 1]
    BY <1>7, <2>1
  <2>3. CASE i = 1
    BY <1>2, <1>5, <1>10, <2>2, <2>3
  <2>4. CASE i # 1
    <3>1. i - 1 \in DOMAIN t /\ s[i] = t[i - 1]
      BY <1>7, <2>4
    <3>2. i - 1 < j - 1
      BY <1>12, <2>1
    <3>3. Upwards(t)
      BY DEF Runs
    <3> QED
      BY <2>2, <3>1, <3>2, <3>3 DEF Upwards
  <2> QED
    BY <2>3, <2>4
<1> QED
  BY <1>11, <1>12 DEF Runs, Upwards

(* Where the pass of RegisterMembers has been: an inherited destructor, or the
   one to go on with, is the nearest above. *)
Waits(c) == phase = "members" /\ c \in pending
Settled(c, d, s, waits) ==
  IF Owns(c) THEN d = c /\ (IF waits THEN s = None ELSE IsNearest(c, s))
             ELSE s = None /\ (IF waits THEN d = None ELSE IsNearest(c, d))
DInv ==
  /\ phase = "members" => calls = <<>>
  /\ phase = "bound" => pending = {}
  /\ ~OutOfSight => \A c : Straight(c) => Settled(c, destructor[c], super_destructor[c], Waits(c))

LEMMA ChainRuns ==
  ASSUME program \in Programs, super_destructor \in [Classes -> Beings],
         \A c : Straight(c) /\ Owns(c) => IsNearest(c, super_destructor[c]),
         NEW n \in Nat
  PROVE  \A y : y = None \/ (Straight(y) /\ Owns(y) /\ Above[n][y] = None) => Runs(Chain[n][y], y)
<1> DEFINE S == {m \in Nat :
       \A y : y = None \/ (Straight(y) /\ Owns(y) /\ Above[m][y] = None) => Runs(Chain[m][y], y)}
<1>1. /\ \A m \in Nat : Chain[m][None] = <<>>
      /\ \A m \in Nat : \A c \in Classes : Chain[m + 1][c] = <<c>> \o Chain[m][super_destructor[c]]
      /\ \A m \in Nat : \A c \in Beings : Chain[m][c] \in Seq(Classes)
  BY ChainFacts
<1>2. \A m \in Nat : Runs(Chain[m][None], None)
  BY <1>1, RunsNone
<1>3. 0 \in S
  <2>1. ASSUME NEW y, Straight(y) PROVE Above[0][y] # None
    BY <2>1, AboveFacts, ProgramFacts DEF Straight, Beings
  <2> QED
    BY <1>2, <2>1
<1>4. ASSUME NEW m \in Nat, m \in S PROVE m + 1 \in S
  <2> SUFFICES ASSUME NEW y, Straight(y), Owns(y), Above[m + 1][y] = None
               PROVE  Runs(Chain[m + 1][y], y)
    BY <1>2
  <2>1. y \in Classes
    BY DEF Straight
  <2>2. PICK z : z = super_destructor[y]
    OBVIOUS
  <2>3. IsNearest(y, z) /\ z \in Beings
    BY <2>1, <2>2
  <2>4. (z = None \/ (Straight(z) /\ Owns(z))) /\ Above[m][z] = None
    BY <2>3, OwnersAbove
  <2>5. PICK t \in Seq(Classes) : t = Chain[m][z]
    BY <1>1, <2>3
  <2>6. Runs(t, z)
    BY <1>4, <2>4, <2>5
  <2>7. Runs(<<y>> \o t, y)
    BY <2>3, <2>6, RunsOneMore
  <2> QED
    BY <1>1, <2>1, <2>2, <2>5, <2>7
<1>5. \A m \in Nat : m \in S
  <2> HIDE DEF S
  <2> QED
    BY <1>3, <1>4, Induction
<1> QED
  BY <1>5

(* What the binder finds when it registers a class. *)
LEMMA NearestFound ==
  ASSUME TInv, DInv, ~OutOfSight, NEW c, Straight(c), program[c].base # None
  PROVE  IsNearest(c, Nearest(c))
<1> DEFINE has(x) == x # c /\ destructor[x] # None
<1> DEFINE n == {k \in Heights \ {0} :
              /\ Above[k][c] \notin {None, c} /\ has(Above[k][c])
              /\ \A j \in 0..(k - 1) : Named(c, Above[j][c]) /\ (j > 0 => ~has(Above[j][c]))}
<1> DEFINE k0 == CHOOSE k \in n : \A l \in n : k <= l
<1>1. Nearest(c) = IF n = {} THEN None ELSE destructor[Above[k0][c]]
  BY DEF Nearest
<1>2. program \in Programs /\ destructor \in [Classes -> Beings] /\ c \in Classes /\ c \in Beings
  BY DEF TInv, TypesOK, Straight, Beings
<1>3. PICK N \in Nat : N = Cardinality(Classes)
  BY <1>2, ClassCount
<1>4. Heights = 0 .. N /\ Above[N][c] = None
  BY <1>3 DEF Heights, Straight
<1> DEFINE Bears(k) == Above[k][c] # None /\ destructor[Above[k][c]] # None
<1>5. ASSUME NEW k \in Nat \ {0} PROVE Above[k][c] # c
  BY <1>2, NotAboveItself
<1>6. ASSUME NEW k \in Nat, Above[k][c] # None, NEW j \in 0 .. k - 1
      PROVE  Named(c, Above[j][c])
  <2>1. PICK x : x = Above[j][c]
    OBVIOUS
  <2>2. /\ \A i \in 0 .. k : Above[i][c] \in Classes
    BY <1>2, <1>6, StraightUp
  <2>3. j \in Nat /\ j \in 0 .. k /\ j + 1 \in 0 .. k
    OBVIOUS
  <2>4. x \in Classes /\ Above[j + 1][c] \in Classes
    BY <2>1, <2>2, <2>3
  <2>5. PICK h \in Nat : h = 1 + j
    BY <2>3
  <2>6. Above[h][c] = Above[1][x]
    BY <1>2, <2>1, <2>3, <2>5, AboveSum
  <2>7. Above[1][x] = program[x].base
    <3>1. Above[0 + 1][x] = Above[0][program[x].base]
      BY <1>2, <2>4, AboveFacts
    <3>2. program[x].base \in Beings /\ 0 + 1 = 1
      BY <1>2, <2>4, ProgramFacts
    <3> QED
      BY <1>2, <3>1, <3>2, AboveFacts
  <2>8. program[x].base # None
    <3>1. h = j + 1
      BY <2>3, <2>5
    <3> QED
      BY <1>2, <2>4, <2>6, <2>7, <3>1, ProgramFacts
  <2>9. x \in Lineage(c)
    BY <1>2, <2>1, <2>3, <2>4, LineageInNat, ProgramFacts
  <2> QED
    BY <1>2, <2>1, <2>8, <2>9 DEF OutOfSight
<1>7. ASSUME NEW k \in Nat \ {0}
      PROVE  k \in n <=> Bears(k) /\ \A j \in 1 .. k - 1 : ~Bears(j)
  <2>1. k \in n => Bears(k)
    OBVIOUS
  <2>2. ASSUME Bears(k) PROVE k \in Heights \ {0}
    <3>1. k \in Nat /\ (N <= k => Above[k][c] = None)
      BY <1>2, <1>4, AboveEnds
    <3> QED
      BY <1>4, <2>2, <3>1
  <2>3. ASSUME Bears(k), NEW j \in 1 .. k - 1
        PROVE  /\ j \in 0 .. k - 1 /\ j > 0 /\ Above[j][c] # None
               /\ has(Above[j][c]) <=> Bears(j)
    <3>1. j \in 0 .. k - 1 /\ j > 0 /\ j \in 0 .. k /\ j \in Nat \ {0} /\ k \in Nat
      OBVIOUS
    <3>2. Above[j][c] \in Classes
      BY <1>2, <2>3, <3>1, StraightUp
    <3>3. Above[j][c] # None
      BY <1>2, <3>2, ProgramFacts
    <3> QED
      BY <1>5, <3>1, <3>3
  <2>4. ASSUME k \in n, NEW j \in 1 .. k - 1 PROVE ~Bears(j)
    <3>1. Bears(k)
      BY <2>1, <2>4
    <3>2. j \in 0 .. k - 1 /\ j > 0 /\ (has(Above[j][c]) <=> Bears(j))
      BY <2>3, <3>1
    <3> QED
      BY <2>4, <3>2
  <2>5. ASSUME Bears(k), \A j \in 1 .. k - 1 : ~Bears(j) PROVE k \in n
    <3>1. k \in Heights \ {0}
      BY <2>2, <2>5
    <3>2. Above[k][c] \notin {None, c} /\ has(Above[k][c])
      BY <1>5, <2>5
    <3>3. ASSUME NEW j \in 0 .. k - 1
          PROVE  Named(c, Above[j][c]) /\ (j > 0 => ~has(Above[j][c]))
      <4>1. Named(c, Above[j][c])
        BY <1>6, <2>5
      <4>2. ASSUME j > 0 PROVE ~has(Above[j][c])
        <5>1. j \in 1 .. k - 1
          BY <4>2
        <5> QED
          BY <2>3, <2>5, <5>1
      <4> QED
        BY <4>1, <4>2
    <3> QED
      BY <3>1, <3>2, <3>3
  <2> QED
    BY <2>1, <2>4, <2>5
<1>8. \A k \in n : k \in Nat \ {0}
  BY <1>4
<1> HIDE DEF n
<1>9. ASSUME NEW k \in Nat \ {0}, Above[k][c] # None PROVE
        /\ Straight(Above[k][c])
        /\ \A m \in Nat : Above[m][Above[k][c]] = Above[m + k][c]
        /\ Owns(Above[k][c]) => Bears(k) /\ destructor[Above[k][c]] = Above[k][c]
        /\ ~Owns(Above[k][c]) /\ Bears(k) => IsNearest(Above[k][c], destructor[Above[k][c]])
  <2>1. PICK x : x = Above[k][c]
    OBVIOUS
  <2>2. Straight(x) /\ \A m \in Nat : Above[m][x] = Above[m + k][c]
    BY <1>2, <1>9, <2>1, StraightUp
  <2>3. Settled(x, destructor[x], super_destructor[x], Waits(x))
    BY <2>2 DEF DInv
  <2>4. Owns(x) => destructor[x] = x
    BY <2>3 DEF Settled
  <2>5. ~Owns(x) /\ destructor[x] # None => IsNearest(x, destructor[x])
    BY <2>3 DEF Settled
  <2> QED
    BY <1>9, <2>1, <2>2, <2>4, <2>5
<1>10. CASE n = {}
  <2>1. ASSUME NEW k \in Nat \ {0}, Above[k][c] # None, Owns(Above[k][c]) PROVE FALSE
    <3> DEFINE B == {i \in Nat \ {0} : Bears(i)}
    <3>1. k \in B
      BY <1>9, <2>1
    <3>2. PICK i \in B : \A l \in B : i <= l
      <4>1. B \in SUBSET Nat /\ B # {}
        BY <3>1
      <4> HIDE DEF B
      <4> QED
        BY <4>1, Least
    <3>3. i \in Nat \ {0} /\ Bears(i)
      BY <3>2
    <3>4. ASSUME NEW j \in 1 .. i - 1 PROVE ~Bears(j)
      <4>1. j \in Nat \ {0} /\ ~(i <= j)
        BY <3>3
      <4> QED
        BY <3>2, <4>1
    <3>5. i \in n
      BY <1>7, <3>3, <3>4
    <3> QED
      BY <1>10, <3>5
  <2> QED
    BY <1>1, <1>10, <2>1 DEF IsNearest
<1>11. CASE n # {}
  <2>1. k0 \in n
    <3>1. n \in SUBSET Nat
      BY <1>8
    <3>2. \E k \in n : \A l \in n : k <= l
      BY <1>11, <3>1, Least
    <3> QED
      BY <3>2
  <2>2. PICK k \in Nat \ {0} : k = k0
    BY <1>8, <2>1
  <2> HIDE DEF k0
  <2>3. Bears(k) /\ \A j \in 1 .. k - 1 : ~Bears(j)
    BY <1>7, <2>1, <2>2
  <2>4. PICK x : x = Above[k][c]
    OBVIOUS
  <2>5. PICK y : y = destructor[x]
    OBVIOUS
  <2>6. Nearest(c) = y /\ y # None /\ x # None
    BY <1>1, <1>11, <2>2, <2>3, <2>4, <2>5
  <2>7. /\ Straight(x) /\ \A m \in Nat : Above[m][x] = Above[m + k][c]
        /\ Owns(x) => y = x
        /\ ~Owns(x) => IsNearest(x, y)
    BY <1>9, <2>3, <2>4, <2>5
  <2>8. \A j \in 1 .. k - 1 : ~Owns(Above[j][c])
    <3> SUFFICES ASSUME NEW j \in 1 .. k - 1, Owns(Above[j][c]) PROVE FALSE
      OBVIOUS
    <3>1. j \in Nat \ {0} /\ j \in 0 .. k /\ k \in Nat
      OBVIOUS
    <3>2. Above[j][c] \in Classes
      BY <1>2, <2>3, <3>1, StraightUp
    <3>3. Above[j][c] # None
      BY <1>2, <3>2, ProgramFacts
    <3>4. Bears(j)
      BY <1>9, <3>1, <3>3
    <3> QED
      BY <2>3, <3>4
  <2>9. CASE Owns(x)
    <3>1. y \in Classes /\ y = x
      BY <2>7, <2>9 DEF Straight
    <3> QED
      BY <2>4, <2>6, <2>8, <2>9, <3>1 DEF IsNearest
  <2>10. CASE ~Owns(x)
    <3>1. y \in Classes /\ Owns(y)
      BY <2>6, <2>7, <2>10 DEF IsNearest
    <3>2. PICK m \in Nat \ {0} : y = Above[m][x] /\ \A j \in 1 .. m - 1 : ~Owns(Above[j][x])
      BY <2>6, <2>7, <2>10 DEF IsNearest
    <3>3. PICK h \in Nat \ {0} : h = m + k
      OBVIOUS
    <3>4. y = Above[h][c]
      BY <2>7, <3>2, <3>3
    <3>5. ASSUME NEW j \in 1 .. h - 1 PROVE ~Owns(Above[j][c])
      <4>1. j \in 1 .. k - 1 \/ j = k \/ (j - k \in 1 .. m - 1 /\ (j - k) + k = j)
        BY <3>3
      <4>2. CASE j \in 1 .. k - 1
        BY <2>8, <4>2
      <4>3. CASE j = k
        BY <2>4, <2>10, <4>3
      <4>4. CASE j - k \in 1 .. m - 1 /\ (j - k) + k = j
        <5>1. PICK i \in Nat : i = j - k /\ i \in 1 .. m - 1 /\ i + k = j
          BY <4>4
        <5>2. Above[i][x] = Above[j][c]
          BY <2>7, <5>1
        <5> QED
          BY <3>2, <5>1, <5>2
      <4> QED
        BY <4>1, <4>2, <4>3, <4>4
    <3> QED
      BY <2>6, <3>1, <3>4, <3>5 DEF IsNearest
  <2> QED
    BY <2>9, <2>10
<1> QED
  BY <1>10, <1>11

LEMMA SameSettled ==
  ASSUME program' = program
  PROVE  /\ OutOfSight' <=> OutOfSight
         /\ \A c : Straight(c)' <=> Straight(c)
         /\ \A c, d, s, w : Settled(c, d, s, w)' <=> Settled(c, d, s, w)
<1>1. Classes' = Classes /\ Above' = Above /\ Heights' = Heights
  BY SameProgram
<1>2. \A c : Lineage(c)' = Lineage(c)
  BY <1>1 DEF Lineage
<1>3. \A c, x : Named(c, x)' <=> Named(c, x)
  BY DEF Named
<1>4. \A c : Owns(c)' <=> Owns(c)
  BY DEF Owns
<1>5. \A c, y : IsNearest(c, y)' <=> IsNearest(c, y)
  BY <1>1, <1>4 DEF IsNearest
<1>6. OutOfSight' <=> OutOfSight
  BY <1>1, <1>2, <1>3 DEF OutOfSight
<1>7. \A c : Straight(c)' <=> Straight(c)
  BY <1>1 DEF Straight
<1>8. \A c, d, s, w : Settled(c, d, s, w)' <=> Settled(c, d, s, w)
  BY <1>4, <1>5 DEF Settled
<1> QED
  BY <1>6, <1>7, <1>8

LEMMA DestructorsConcluded ==
  ASSUME program' = program,
         phase' = "members" => calls' = <<>>,
         phase' = "bound" => pending' = {},
         ~OutOfSight => \A c : Straight(c) => Settled(c, destructor'[c], super_destructor'[c], Waits(c)')
  PROVE  DInv'
<1>1. OutOfSight' <=> OutOfSight
  BY SameSettled
<1>2. \A c : Straight(c)' <=> Straight(c)
  BY SameSettled
<1>3. ASSUME NEW c
      PROVE  Settled(c, destructor[c], super_destructor[c], Waits(c))'
               <=> Settled(c, destructor'[c], super_destructor'[c], Waits(c)')
  <2>1. Classes' = Classes /\ Above' = Above
    BY SameProgram
  <2>2. \A y : y \in Classes => (Owns(y)' <=> Owns(y))
    BY DEF Owns
  <2> QED
    BY <2>1, <2>2 DEF Settled, IsNearest, Owns, Waits
<1> QED
  BY <1>1, <1>2, <1>3 DEF DInv

LEMMA DestructorsAlone ==
  ASSUME DInv, program' = program, destructors' = destructors,
         phase' = "members" => calls' = <<>>,
         phase' = "bound" => pending' = {},
         \A c : Waits(c)' <=> Waits(c)
  PROVE  DInv'
<1>1. destructor' = destructor /\ super_destructor' = super_destructor
  BY DEF destructors
<1>2. ~OutOfSight => \A c : Straight(c) => Settled(c, destructor[c], super_destructor[c], Waits(c))
  BY DEF DInv
<1>3. \A c, d, s : Settled(c, d, s, Waits(c)') <=> Settled(c, d, s, Waits(c))
  BY DEF Settled
<1>4. ~OutOfSight => \A c : Straight(c) => Settled(c, destructor'[c], super_destructor'[c], Waits(c)')
  BY <1>1, <1>2, <1>3
<1> QED
  BY <1>4, DestructorsConcluded

LEMMA DestructorsStart ==
  ASSUME Init
  PROVE  DInv
<1>1. ASSUME NEW c, Straight(c)
      PROVE  Settled(c, destructor[c], super_destructor[c], Waits(c))
  <2>1. c \in Classes
    BY <1>1 DEF Straight
  <2>2. /\ destructor[c] = IF program[c].destructor THEN c ELSE None
        /\ super_destructor[c] = None
    BY <2>1 DEF Init
  <2>3. Waits(c)
    BY <2>1 DEF Init, Waits
  <2> QED
    BY <2>2, <2>3 DEF Settled, Owns
<1>2. phase = "members" /\ calls = <<>>
  BY DEF Init
<1> QED
  BY <1>1, <1>2 DEF DInv

LEMMA RegisterMembersKeeps ==
  ASSUME TInv, DInv, NEW c \in Classes, RegisterMembers(c)
  PROVE  DInv'
<1>1. PICK y : y = Nearest(c)
  OBVIOUS
<1>2. PICK base : base = program[c].base
  OBVIOUS
<1>3. /\ program' = program /\ phase = "members" /\ phase' = phase /\ calls' = calls
      /\ c \in pending /\ pending' = pending \ {c}
      /\ IF base = None \/ y = None THEN destructor' = destructor /\ super_destructor' = super_destructor
         ELSE IF destructor[c] = None
           THEN destructor' = [destructor EXCEPT ![c] = y] /\ super_destructor' = super_destructor
           ELSE super_destructor' = [super_destructor EXCEPT ![c] = y] /\ destructor' = destructor
  BY <1>1, <1>2 DEF RegisterMembers, destructors, tables
<1>4. /\ program \in Programs
      /\ destructor \in [Classes -> Beings] /\ super_destructor \in [Classes -> Beings]
  BY DEF TInv, TypesOK
<1>5. ASSUME ~OutOfSight, Straight(c)
      PROVE  Settled(c, destructor'[c], super_destructor'[c], FALSE)
  <2>1. Settled(c, destructor[c], super_destructor[c], TRUE)
    <3>1. Waits(c)
      BY <1>3 DEF Waits
    <3>2. Settled(c, destructor[c], super_destructor[c], Waits(c))
      BY <1>5 DEF DInv
    <3> QED
      BY <3>1, <3>2 DEF Settled
  <2>2. base # None => IsNearest(c, y)
    BY <1>1, <1>2, <1>5, NearestFound
  <2>3. base = None \/ y = None => IsNearest(c, None)
    <3>1. CASE base = None
      <4>1. ASSUME NEW k \in Nat \ {0} PROVE Above[k][c] = None
        <5>1. PICK h \in Nat : k = h + 1
          <6>1. k - 1 \in Nat /\ k = (k - 1) + 1
            OBVIOUS
          <6> QED
            BY <6>1
        <5>2. Above[h + 1][c] = Above[h][program[c].base]
          BY <1>4, AboveFacts
        <5>3. Above[h][None] = None
          BY <1>4, AboveFacts
        <5> QED
          BY <1>2, <3>1, <5>1, <5>2, <5>3
      <4> QED
        BY <4>1 DEF IsNearest
    <3>2. CASE base # None
      BY <2>2, <3>2
    <3> QED
      BY <3>1, <3>2
  <2>4. c # None
    BY <1>4, ProgramFacts
  <2>5. CASE Owns(c)
    <3>1. destructor[c] = c /\ super_destructor[c] = None
      BY <2>1, <2>5 DEF Settled
    <3>2. destructor'[c] = c /\ IsNearest(c, super_destructor'[c])
      BY <1>3, <1>4, <2>2, <2>3, <2>4, <3>1
    <3> QED
      BY <2>5, <3>2 DEF Settled
  <2>6. CASE ~Owns(c)
    <3>1. destructor[c] = None /\ super_destructor[c] = None
      BY <2>1, <2>6 DEF Settled
    <3>2. super_destructor'[c] = None /\ IsNearest(c, destructor'[c])
      BY <1>3, <1>4, <2>2, <2>3, <3>1
    <3> QED
      BY <2>6, <3>2 DEF Settled
  <2> QED
    BY <2>5, <2>6
<1>6. ASSUME ~OutOfSight, NEW x, Straight(x)
      PROVE  Settled(x, destructor'[x], super_destructor'[x], Waits(x)')
  <2>1. CASE x = c
    <3>1. ~Waits(c)'
      BY <1>3 DEF Waits
    <3>2. Settled(c, destructor'[c], super_destructor'[c], FALSE)
      BY <1>5, <1>6, <2>1
    <3> QED
      BY <2>1, <3>1, <3>2 DEF Settled
  <2>2. CASE x # c
    <3>1. destructor'[x] = destructor[x] /\ super_destructor'[x] = super_destructor[x]
      <4>1. x \in Classes
        BY <1>6 DEF Straight
      <4> QED
        BY <1>3, <1>4, <2>2, <4>1
    <3>2. Waits(x)' <=> Waits(x)
      BY <1>3, <2>2 DEF Waits
    <3>3. Settled(x, destructor[x], super_destructor[x], Waits(x))
      BY <1>6 DEF DInv
    <3> QED
      BY <3>1, <3>2, <3>3 DEF Settled
  <2> QED
    BY <2>1, <2>2
<1>7. phase' = "members" => calls' = <<>>
  BY <1>3 DEF DInv
<1>8. phase' # "bound"
  BY <1>3
<1> QED
  BY <1>3, <1>6, <1>7, <1>8, DestructorsConcluded

LEMMA DestructorsInductive ==
  TInv /\ LInv /\ DInv /\ [Next]_vars => DInv'
<1> SUFFICES ASSUME TInv, LInv, DInv, [Next]_vars
             PROVE  DInv'
  OBVIOUS
<1>1. ASSUME NEW c \in Classes, RegisterMembers(c) PROVE DInv'
  BY <1>1, RegisterMembersKeeps
<1>2. ASSUME NEW c \in Classes, LayOut(c) PROVE DInv'
  <2>1. program' = program /\ destructors' = destructors /\ phase = "layouts" /\ phase' = phase
    BY <1>2 DEF LayOut
  <2>2. \A x : Waits(x)' <=> Waits(x)
    BY <2>1 DEF Waits
  <2> QED
    BY <2>1, <2>2, DestructorsAlone
<1>3. CASE Table
  <2>1. /\ program' = program /\ destructors' = destructors /\ phase \notin {"layouts", "bound"}
        /\ phase' \in {phase, "thrown"} /\ (phase # "members" \/ calls # <<>>)
    BY <1>3, TableFrame
  <2>2. phase # "members" /\ phase' # "members" /\ phase' # "bound"
    BY <2>1 DEF DInv
  <2>3. \A x : Waits(x)' <=> Waits(x)
    BY <2>2 DEF Waits
  <2> QED
    BY <2>1, <2>2, <2>3, DestructorsAlone
<1>4. CASE NextPass
  <2>1. program' = program /\ destructors' = destructors /\ pending = {}
    BY <1>4 DEF NextPass
  <2>2. phase' # "members" /\ (phase' = "bound" => pending' = {})
    BY <1>4 DEF NextPass, Comes, Passes
  <2>3. \A x : Waits(x)' <=> Waits(x)
    BY <2>1, <2>2 DEF Waits
  <2> QED
    BY <2>1, <2>2, <2>3, DestructorsAlone
<1>5. CASE UNCHANGED vars
  <2>1. /\ program' = program /\ destructors' = destructors /\ phase' = phase
        /\ pending' = pending /\ calls' = calls
    BY <1>5 DEF vars, tables, destructors
  <2>2. \A x : Waits(x)' <=> Waits(x)
    BY <2>1 DEF Waits
  <2>3. (phase' = "members" => calls' = <<>>) /\ (phase' = "bound" => pending' = {})
    BY <2>1 DEF DInv
  <2> QED
    BY <2>1, <2>2, <2>3, DestructorsAlone
<1> QED
  BY <1>1, <1>2, <1>3, <1>4, <1>5 DEF Next

LEMMA DestructorsInvariant ==
  Spec => [](TInv /\ LInv /\ DInv)
<1>1. Init => TInv /\ LInv /\ DInv
  BY InitTables, LayoutStarts, DestructorsStart
<1>2. (TInv /\ LInv /\ DInv) /\ [Next]_vars => (TInv /\ LInv /\ DInv)'
  BY TablesInductive, LayoutInductive, DestructorsInductive
<1> QED
  BY <1>1, <1>2, PTL DEF Spec

LEMMA InvariantDestructors ==
  TInv /\ LInv /\ DInv => DestructorsInSightRun
<1> SUFFICES ASSUME TInv, LInv, DInv, ~OutOfSight, phase = "bound", NEW c \in Concrete
             PROVE  /\ {Destroy(c)[i] : i \in DOMAIN Destroy(c)} = {x \in Lineage(c) : program[x].destructor}
                    /\ Upwards(Destroy(c))
  BY DEF DestructorsInSightRun, DestructorsRun
<1>1. /\ program \in Programs
      /\ destructor \in [Classes -> Beings] /\ super_destructor \in [Classes -> Beings]
  BY DEF TInv, TypesOK
<1>2. PICK n \in Nat : n = Cardinality(Classes)
  BY <1>1, ClassCount
<1>3. c \in Classes
  BY DEF Concrete
<1>4. Straight(c)
  <2>1. DOMAIN layout = Classes
    BY DEF LInv, DInv
  <2>2. Laid(c, layout)
    BY <1>3, <2>1 DEF LInv
  <2> QED
    BY <1>3, <2>1, <2>2 DEF Laid, Straight
<1>5. \A x : Straight(x) =>
        IF Owns(x) THEN destructor[x] = x /\ IsNearest(x, super_destructor[x])
        ELSE super_destructor[x] = None /\ IsNearest(x, destructor[x])
  <2> SUFFICES ASSUME NEW x, Straight(x)
               PROVE  IF Owns(x) THEN destructor[x] = x /\ IsNearest(x, super_destructor[x])
                      ELSE super_destructor[x] = None /\ IsNearest(x, destructor[x])
    OBVIOUS
  <2>1. Settled(x, destructor[x], super_destructor[x], Waits(x))
    BY DEF DInv
  <2>2. ~Waits(x)
    BY DEF Waits
  <2> QED
    BY <2>1, <2>2 DEF Settled
<1>6. \A x : Straight(x) /\ Owns(x) => IsNearest(x, super_destructor[x])
  BY <1>5
<1>7. \A y : y = None \/ (Straight(y) /\ Owns(y) /\ Above[n][y] = None) => Runs(Chain[n][y], y)
  BY <1>1, <1>2, <1>6, ChainRuns
<1>8. PICK y : y = destructor[c]
  OBVIOUS
<1>9. /\ y = None \/ (Straight(y) /\ Owns(y))
      /\ {x \in Lineage(c) : Owns(x)} = {x \in Lineage(y) : Owns(x)}
  <2>1. CASE Owns(c)
    BY <1>4, <1>5, <1>8, <2>1
  <2>2. CASE ~Owns(c)
    <3>1. IsNearest(c, y)
      BY <1>4, <1>5, <1>8, <2>2
    <3>2. /\ y = None \/ (Straight(y) /\ Owns(y))
          /\ \A x \in Lineage(c) : Owns(x) => x = c \/ x \in Lineage(y)
          /\ \A x \in Lineage(y) : x \in Lineage(c) /\ x # c
      BY <1>1, <1>4, <3>1, OwnersAbove
    <3> QED
      BY <2>2, <3>2
  <2> QED
    BY <2>1, <2>2
<1>10. Straight(y) => Above[n][y] = None
  BY <1>2 DEF Straight
<1>11. PICK s : s = Chain[n][y]
  OBVIOUS
<1>12. Runs(s, y)
  BY <1>7, <1>9, <1>10, <1>11
<1>13. Destroy(c) = s
  BY <1>2, <1>8, <1>11 DEF Destroy
<1>14. {s[i] : i \in DOMAIN s} = {x \in Lineage(c) : Owns(x)} /\ Upwards(s)
  BY <1>9, <1>12 DEF Runs
<1> QED
  BY <1>13, <1>14 DEF Owns

(* However deep classes extend each other and in whatever order they are
   registered, the destructors of an object are those of its class and of all
   above it that declare one, none twice, from its class upwards, if every base
   is found by the name it is written with. *)
THEOREM DestructorsAlwaysRun ==
  Spec => []DestructorsInSightRun
<1> QED
  BY DestructorsInvariant, InvariantDestructors, PTL

-----------------------------------------------------------------------------
(* Dispatch.  The interfaces of a class, and when going on adds none. *)
Listed(s) == {s[k] : k \in DOMAIN s}
Gathered(c) == Listed(AllInterfaces(c))
Saturated == \A c \in Classes : Collected[Cardinality(Classes) + 1][c] = AllInterfaces(c)

(* The first class of a line that is in a set. *)
FirstIn(c, S) ==
  LET found == {n \in Heights : Above[n][c] # None /\ Above[n][c] \in S}
  IN  IF found = {} THEN None
      ELSE Above[CHOOSE n \in found : \A k \in found : n <= k][c]
IsFirst(c, S, y) ==
  \/ y = None /\ \A x \in Lineage(c) : x \notin S
  \/ /\ y # None /\ y \in S /\ y \in Lineage(c)
     /\ \E k \in Nat : y = Above[k][c] /\ \A j \in Nat : j < k => Above[j][c] \notin S
Declarers(s) == {x \in Classes : Declares(x, s)}
Own(c, s) == [class |-> c, signature |-> s]

(* Programs whose dispatch is told. *)
Tame == /\ ~Hides /\ ~InheritsImplementation /\ Saturated
        /\ \A c \in Classes : Straight(c)
AbstractsAreDeclared ==
  \A m \in Methods : m.class \notin Interfaces => (m \in is_abstract <=> Modifier(m) = "abstract")

(* Lists of what there is to do: declarations come first, none twice, and an
   interface that is opened is filled later. *)
InOrder(s) ==
  \A a, b \in DOMAIN s :
    s[b].op = "declare" => /\ a < b => s[a].op \notin {"interface", "implement"}
                           /\ s[a] = s[b] => a = b
Followed(s, vt) ==
  \A a \in DOMAIN s : s[a].op = "interface" =>
    \A n \in DOMAIN vt[s[a].interface] :
      \E b \in DOMAIN s : a < b /\ s[b] = Fills(s[a].interface, n)
Filling(i, vt) == {Fills(i, n) : n \in DOMAIN vt[i]}
Opening(c, vt) == UNION {{Opens(i)} \cup Filling(i, vt) : i \in Gathered(c)}

(* What the passes have come to. *)
InStack(cs) == {cs[k].class : k \in DOMAIN cs}
Passing(ph, pend, cs, done) ==
  /\ ph = "members" => cs = <<>> /\ done = {}
  /\ ph = "interfaces" => /\ Interfaces \subseteq pend \cup done \cup InStack(cs)
                          /\ done \cup InStack(cs) \cup pend \subseteq Interfaces
  /\ ph = "classes" => /\ Classes \subseteq pend \cup done \cup InStack(cs)
                       /\ Interfaces \subseteq done
                       /\ (InStack(cs) \cup pend) \cap Interfaces = {}
  /\ ph \in {"layouts", "bound", "refused"} => cs = <<>>
  /\ ph \in {"layouts", "bound"} => done = Classes
PInv ==
  /\ Passing(phase, pending, calls, calculated)
  /\ phase \in {"layouts", "bound"} => errors = {}
  /\ AbstractsAreDeclared

(* Interfaces are collected from those that are ready. *)
Settles(c, k) == \A n \in Nat : n >= k => Collected[n][c] = Collected[k][c]
TakesAll(a, done) ==
  LET list == program[a.class].implements
  IN  a.class \in Interfaces =>
        \A i \in DOMAIN list : list[i] \in done \/ Inherits(list[i]) \in Listed(a.todo)
AllSettle(done) == \A c \in done : Settles(c, Cardinality(done))
SInv == errors = {} => AllSettle(calculated) /\ \A k \in DOMAIN calls : TakesAll(calls[k], calculated)

LEMMA ListedJoined ==
  ASSUME NEW T, NEW a \in Seq(T), NEW b \in Seq(T)
  PROVE  a \o b \in Seq(T) /\ Listed(a \o b) = Listed(a) \cup Listed(b)
<1>1. Len(a) \in Nat /\ Len(b) \in Nat /\ DOMAIN a = 1 .. Len(a) /\ DOMAIN b = 1 .. Len(b)
  OBVIOUS
<1>2. /\ DOMAIN (a \o b) = 1 .. Len(a) + Len(b)
      /\ \A k \in 1 .. Len(a) : (a \o b)[k] = a[k]
      /\ \A k \in 1 .. Len(b) : (a \o b)[Len(a) + k] = b[k]
  OBVIOUS
<1>3. ASSUME NEW x, x \in Listed(a \o b) PROVE x \in Listed(a) \cup Listed(b)
  <2>1. PICK k \in DOMAIN (a \o b) : (a \o b)[k] = x
    BY <1>3 DEF Listed
  <2>2. k \in 1 .. Len(a) \/ (k - Len(a) \in 1 .. Len(b) /\ k = Len(a) + (k - Len(a)))
    BY <1>1, <1>2
  <2> QED
    BY <1>1, <1>2, <2>1, <2>2 DEF Listed
<1>4. ASSUME NEW x, x \in Listed(a) PROVE x \in Listed(a \o b)
  <2>1. PICK k \in 1 .. Len(a) : a[k] = x
    BY <1>1, <1>4 DEF Listed
  <2>2. k \in DOMAIN (a \o b)
    BY <1>1, <1>2
  <2> QED
    BY <1>2, <2>1, <2>2 DEF Listed
<1>5. ASSUME NEW x, x \in Listed(b) PROVE x \in Listed(a \o b)
  <2>1. PICK k \in 1 .. Len(b) : b[k] = x
    BY <1>1, <1>5 DEF Listed
  <2>2. Len(a) + k \in DOMAIN (a \o b) /\ (a \o b)[Len(a) + k] = x
    BY <1>1, <1>2, <2>1
  <2> QED
    BY <2>2 DEF Listed
<1>6. a \o b \in Seq(T)
  OBVIOUS
<1> QED
  BY <1>3, <1>4, <1>5, <1>6

LEMMA ListedOne ==
  ASSUME NEW x
  PROVE  Listed(<<x>>) = {x} /\ Listed(<<>>) = {}
BY DEF Listed

LEMMA OwnElements ==
  ASSUME program \in Programs, NEW g \in [Classes -> Seq(Interfaces)], NEW c \in Classes
  PROVE  \A x : x \in Listed(OwnOf(g, c)) <=>
           \E i \in DOMAIN program[c].implements :
             x = program[c].implements[i] \/ x \in Listed(g[program[c].implements[i]])
<1>1. PICK list \in Seq(Interfaces) : list = program[c].implements
  BY ProgramFacts
<1>2. PICK h : Gathers(h, g, list) /\ OwnOf(g, c) = h[Len(list)]
  BY <1>1, OwnSteps
<1>3. Len(list) \in Nat /\ DOMAIN list = 1 .. Len(list) /\ \A i \in 1 .. Len(list) : list[i] \in Interfaces
  OBVIOUS
<1>4. /\ h[0] = <<>> /\ \A i \in 0 .. Len(list) : h[i] \in Seq(Interfaces)
      /\ \A i \in 1 .. Len(list) : h[i] = h[i - 1] \o g[list[i]] \o <<list[i]>>
  BY <1>2 DEF Gathers
<1>c. \A i \in Interfaces : g[i] \in Seq(Interfaces)
  <2> DEFINE SI == Seq(Interfaces)
  <2> HIDE DEF SI
  <2>1. g \in [Classes -> SI] /\ Interfaces \subseteq Classes
    BY ProgramFacts DEF SI
  <2> QED
    BY <2>1 DEF SI
<1>5. ASSUME NEW k \in 1 .. Len(list), k - 1 \in 0 .. Len(list)
      PROVE  Listed(h[k]) = Listed(h[k - 1]) \cup Listed(g[list[k]]) \cup {list[k]}
  <2>1. PICK u \in Seq(Interfaces) : u = h[k - 1]
    BY <1>4, <1>5
  <2>2. PICK v \in Seq(Interfaces) : v = g[list[k]]
    BY <1>c, <1>3
  <2>3. PICK w \in Interfaces : w = list[k]
    BY <1>3
  <2>4. PICK y \in Seq(Interfaces) : y = u \o v /\ Listed(y) = Listed(u) \cup Listed(v)
    BY ListedJoined
  <2>5. PICK z \in Seq(Interfaces) : z = <<w>>
    <3>1. <<w>> \in Seq(Interfaces)
      OBVIOUS
    <3> QED
      BY <3>1
  <2>6. Listed(y \o z) = Listed(y) \cup Listed(z)
    BY ListedJoined
  <2>7. h[k] = y \o z
    BY <1>4, <2>1, <2>2, <2>3, <2>4, <2>5
  <2>8. Listed(z) = {w}
    BY <2>5, ListedOne
  <2> QED
    BY <2>1, <2>2, <2>3, <2>4, <2>6, <2>7, <2>8
<1> DEFINE From(k, x) == \E i \in 1 .. k : x = list[i] \/ x \in Listed(g[list[i]])
           S == {k \in Nat : k \in 0 .. Len(list) => \A x : x \in Listed(h[k]) <=> From(k, x)}
<1>6. 0 \in S
  <2>1. Listed(h[0]) = {}
    BY <1>4, ListedOne
  <2>2. \A x : ~From(0, x)
    OBVIOUS
  <2> QED
    BY <2>1, <2>2
<1>7. ASSUME NEW k \in Nat, k \in S PROVE k + 1 \in S
  <2> SUFFICES ASSUME k + 1 \in 0 .. Len(list), NEW x PROVE x \in Listed(h[k + 1]) <=> From(k + 1, x)
    BY <1>3
  <2>1. k + 1 \in 1 .. Len(list) /\ (k + 1) - 1 = k /\ k \in 0 .. Len(list)
    BY <1>3
  <2>2. Listed(h[k + 1]) = Listed(h[k]) \cup Listed(g[list[k + 1]]) \cup {list[k + 1]}
    BY <1>5, <2>1
  <2>3. x \in Listed(h[k]) <=> From(k, x)
    BY <1>7, <2>1
  <2>4. \A i : i \in 1 .. k + 1 <=> i \in 1 .. k \/ i = k + 1
    OBVIOUS
  <2>5. From(k + 1, x) <=> From(k, x) \/ x = list[k + 1] \/ x \in Listed(g[list[k + 1]])
    <3> HIDE DEF S
    <3> QED
      BY <2>4
  <2> QED
    BY <2>2, <2>3, <2>5
<1>8. Len(list) \in S
  <2>1. \A k \in Nat : k \in S
    <3> HIDE DEF S
    <3> QED
      BY <1>6, <1>7, Induction
  <2> QED
    BY <1>3, <2>1
<1>9. \A x : x \in Listed(h[Len(list)]) <=> From(Len(list), x)
  BY <1>3, <1>8
<1> QED
  BY <1>1, <1>2, <1>3, <1>9

(* What a class gets from those it names. *)
LEMMA CollectedElements ==
  ASSUME program \in Programs, NEW g \in [Classes -> Seq(Interfaces)], NEW c \in Classes
  PROVE  \A x : x \in Listed(CollectedOf(g, c)) <=>
           \/ \E i \in DOMAIN program[c].implements :
                x = program[c].implements[i] \/ x \in Listed(g[program[c].implements[i]])
           \/ c \notin Interfaces /\ program[c].base # None /\ x \in Listed(g[program[c].base])
<1>1. PICK own \in Seq(Interfaces) : own = OwnOf(g, c)
  BY OwnType
<1>2. CASE c \in Interfaces \/ program[c].base = None
  <2>1. CollectedOf(g, c) = own
    BY <1>1, <1>2 DEF CollectedOf
  <2> QED
    BY <1>1, <1>2, <2>1, OwnElements
<1>3. CASE c \notin Interfaces /\ program[c].base # None
  <2>1. program[c].base \in Classes
    BY <1>3, ProgramFacts DEF Beings
  <2>2. PICK b \in Seq(Interfaces) : b = g[program[c].base]
    BY <2>1
  <2>3. CollectedOf(g, c) = own \o b
    BY <1>1, <1>3, <2>2 DEF CollectedOf
  <2>4. Listed(own \o b) = Listed(own) \cup Listed(b)
    BY ListedJoined
  <2> QED
    BY <1>1, <1>3, <2>2, <2>3, <2>4, OwnElements
<1> QED
  BY <1>2, <1>3

LEMMA CollectedAll ==
  ASSUME program \in Programs
  PROVE  /\ \A n \in Nat : Collected[n] \in [Classes -> Seq(Interfaces)]
         /\ \A n \in Nat : \A c \in Classes : Collected[n][c] \in Seq(Interfaces)
<1>1. \A n \in Nat : Collected[n] \in [Classes -> Seq(Interfaces)]
  BY CollectedFacts
<1> DEFINE SI == Seq(Interfaces)
<1> HIDE DEF SI
<1>2. \A n \in Nat : Collected[n] \in [Classes -> SI]
  BY <1>1 DEF SI
<1>3. \A n \in Nat : \A c \in Classes : Collected[n][c] \in SI
  BY <1>2
<1> QED
  BY <1>1, <1>3 DEF SI

LEMMA GatheredType ==
  ASSUME program \in Programs, NEW c \in Classes
  PROVE  Gathered(c) \subseteq Interfaces
<1>1. PICK s \in Seq(Interfaces) : s = AllInterfaces(c)
  BY AllInterfacesType
<1>2. Listed(s) \subseteq Interfaces
  BY DEF Listed
<1> QED
  BY <1>1, <1>2 DEF Gathered

LEMMA GatheredOf ==
  ASSUME program \in Programs, Saturated, NEW c \in Classes
  PROVE  \A x : x \in Gathered(c) <=>
           \/ \E i \in DOMAIN program[c].implements :
                x = program[c].implements[i] \/ x \in Gathered(program[c].implements[i])
           \/ c \notin Interfaces /\ program[c].base # None /\ x \in Gathered(program[c].base)
<1>1. PICK n \in Nat : n = Cardinality(Classes)
  BY ClassCount
<1>2. PICK g \in [Classes -> Seq(Interfaces)] : g = Collected[n]
  BY CollectedAll
<1>3. Collected[n + 1][c] = CollectedOf(g, c)
  BY <1>1, <1>2, CollectedFacts
<1>4. CollectedOf(g, c) = AllInterfaces(c)
  BY <1>1, <1>3 DEF Saturated
<1>5. \A x : Listed(g[x]) = Gathered(x)
  BY <1>1, <1>2 DEF Gathered, AllInterfaces
<1>6. Gathered(c) = Listed(CollectedOf(g, c))
  BY <1>4 DEF Gathered
<1> QED
  BY <1>5, <1>6, CollectedElements

(* What is above an interface of a class is one of the class. *)
LEMMA GatheredWithin ==
  ASSUME program \in Programs, Saturated, NEW c \in Classes, NEW i \in Gathered(c)
  PROVE  Gathered(i) \subseteq Gathered(c)
<1>1. PICK N \in Nat : N = Cardinality(Classes)
  BY ClassCount
<1> DEFINE S == {n \in Nat : \A x \in Classes : \A y \in Listed(Collected[n][x]) : Gathered(y) \subseteq Gathered(x)}
<1>2. 0 \in S
  <2>1. \A x \in Classes : Listed(Collected[0][x]) = {}
    BY CollectedFacts, ListedOne
  <2> QED
    BY <2>1
<1>3. ASSUME NEW n \in Nat, n \in S PROVE n + 1 \in S
  <2> SUFFICES ASSUME NEW x \in Classes, NEW y \in Listed(Collected[n + 1][x]), NEW z \in Gathered(y)
               PROVE  z \in Gathered(x)
    OBVIOUS
  <2>1. PICK g \in [Classes -> Seq(Interfaces)] : g = Collected[n]
    BY CollectedAll
  <2>2. Collected[n + 1][x] = CollectedOf(g, x)
    BY <2>1, CollectedFacts
  <2>a. PICK list \in Seq(Interfaces) : list = program[x].implements
    BY ProgramFacts
  <2>b. \A k \in DOMAIN list : list[k] \in Classes
    <3>1. \A k \in DOMAIN list : list[k] \in Interfaces
      OBVIOUS
    <3> QED
      BY <3>1 DEF Interfaces
  <2>3. \/ \E k \in DOMAIN list : y = list[k] \/ y \in Listed(g[list[k]])
        \/ x \notin Interfaces /\ program[x].base # None /\ y \in Listed(g[program[x].base])
    BY <2>2, <2>a, CollectedElements
  <2>4. ASSUME NEW k \in DOMAIN list, y = list[k] PROVE z \in Gathered(x)
    BY <2>4, <2>a, GatheredOf
  <2>5. ASSUME NEW k \in DOMAIN list, y \in Listed(g[list[k]]) PROVE z \in Gathered(x)
    <3>1. Gathered(y) \subseteq Gathered(list[k])
      BY <1>3, <2>1, <2>5, <2>b
    <3> QED
      BY <3>1, <2>a, GatheredOf
  <2>6. ASSUME x \notin Interfaces, program[x].base # None, y \in Listed(g[program[x].base]) PROVE z \in Gathered(x)
    <3>1. program[x].base \in Classes
      BY <2>6, ProgramFacts DEF Beings
    <3>2. Gathered(y) \subseteq Gathered(program[x].base)
      BY <1>3, <2>1, <2>6, <3>1
    <3> QED
      BY <3>2, <2>6, GatheredOf
  <2> QED
    BY <2>3, <2>4, <2>5, <2>6
<1>4. N \in S
  <2>1. \A n \in Nat : n \in S
    <3> HIDE DEF S
    <3> QED
      BY <1>2, <1>3, Induction
  <2> QED
    BY <2>1
<1> QED
  BY <1>1, <1>4 DEF Gathered, AllInterfaces

LEMMA GatheredAbove ==
  ASSUME program \in Programs, Saturated, NEW c, Straight(c), c \notin Interfaces
  PROVE  \A x \in Lineage(c) : x \in Classes /\ x \notin Interfaces /\ Gathered(x) \subseteq Gathered(c)
<1>1. c \in Classes /\ c \in Beings
  BY DEF Straight, Beings
<1> DEFINE S == {k \in Nat : Above[k][c] # None =>
                   /\ Above[k][c] \in Classes /\ Above[k][c] \notin Interfaces
                   /\ Gathered(Above[k][c]) \subseteq Gathered(c)}
<1>2. 0 \in S
  BY <1>1, AboveFacts
<1>3. ASSUME NEW k \in Nat, k \in S PROVE k + 1 \in S
  <2> SUFFICES ASSUME Above[k + 1][c] # None
               PROVE  /\ Above[k + 1][c] \in Classes /\ Above[k + 1][c] \notin Interfaces
                      /\ Gathered(Above[k + 1][c]) \subseteq Gathered(c)
    OBVIOUS
  <2>1. PICK y : y = Above[k][c]
    OBVIOUS
  <2>2. Above[1 + k][c] = Above[1][y] /\ 1 + k = k + 1
    BY <1>1, <2>1, AboveSum
  <2>3. y # None
    BY <2>2, AboveFacts
  <2>4. y \in Classes /\ y \notin Interfaces /\ Gathered(y) \subseteq Gathered(c)
    BY <1>3, <2>1, <2>3
  <2>5. PICK b : b = program[y].base
    OBVIOUS
  <2>6. Above[0 + 1][y] = Above[0][b] /\ 0 + 1 = 1 /\ b \in Beings
    BY <2>4, <2>5, AboveFacts, ProgramFacts
  <2>7. Above[k + 1][c] = b
    BY <2>2, <2>6, AboveFacts
  <2>8. b # None /\ b \in Classes /\ b \notin Interfaces
    BY <2>4, <2>5, <2>6, <2>7, ProgramFacts DEF Beings
  <2>9. Gathered(b) \subseteq Gathered(y)
    BY <2>4, <2>5, <2>8, GatheredOf
  <2> QED
    BY <2>4, <2>7, <2>8, <2>9
<1>4. \A k \in Nat : k \in S
  <2> HIDE DEF S
  <2> QED
    BY <1>2, <1>3, Induction
<1> QED
  BY <1>4, LineageInNat

LEMMA LineageGathered ==
  ASSUME program \in Programs, Saturated, NEW c, Straight(c), c \in Interfaces
  PROVE  Lineage(c) \subseteq {c} \cup Gathered(c)
<1>1. c \in Classes /\ c \in Beings
  BY DEF Straight, Beings
<1> DEFINE S == {k \in Nat : Above[k][c] # None => Above[k][c] \in {c} \cup Gathered(c)}
<1>2. 0 \in S
  BY <1>1, AboveFacts
<1>3. ASSUME NEW k \in Nat, k \in S PROVE k + 1 \in S
  <2> SUFFICES ASSUME Above[k + 1][c] # None PROVE Above[k + 1][c] \in Gathered(c)
    OBVIOUS
  <2>1. PICK y : y = Above[k][c]
    OBVIOUS
  <2>2. Above[1 + k][c] = Above[1][y] /\ 1 + k = k + 1
    BY <1>1, <2>1, AboveSum
  <2>3. y # None
    BY <2>2, AboveFacts
  <2>4. y \in {c} \cup Gathered(c)
    BY <1>3, <2>1, <2>3
  <2>5. y \in Interfaces /\ y \in Classes
    BY <2>4, <1>1, GatheredType, ProgramFacts
  <2>6. PICK b : b = program[y].base
    OBVIOUS
  <2>7. Above[0 + 1][y] = Above[0][b] /\ 0 + 1 = 1 /\ b \in Beings
    BY <2>5, <2>6, AboveFacts, ProgramFacts
  <2>8. Above[k + 1][c] = b
    BY <2>2, <2>7, AboveFacts
  <2>9. PICK list \in Seq(Interfaces) : list = program[y].implements
    BY <2>5, ProgramFacts
  <2>10. b = IF list = <<>> THEN None ELSE Head(list)
    BY <2>5, <2>6, <2>9, ProgramFacts
  <2>11. 1 \in DOMAIN list /\ b = list[1]
    BY <2>8, <2>10
  <2>12. b \in Gathered(y)
    BY <2>5, <2>9, <2>11, GatheredOf
  <2>13. Gathered(y) \subseteq Gathered(c)
    BY <1>1, <2>4, GatheredWithin
  <2> QED
    BY <2>8, <2>12, <2>13
<1>4. \A k \in Nat : k \in S
  <2> HIDE DEF S
  <2> QED
    BY <1>2, <1>3, Induction
<1> QED
  BY <1>4, LineageInNat

LEMMA FirstIsFirst ==
  ASSUME program \in Programs, NEW c, Straight(c), NEW S
  PROVE  IsFirst(c, S, FirstIn(c, S))
<1>1. c \in Classes /\ c \in Beings
  BY DEF Straight, Beings
<1>2. PICK n \in Nat : n = Cardinality(Classes)
  BY ClassCount
<1>3. Heights = 0 .. n
  BY <1>2 DEF Heights
<1>4. ASSUME NEW k \in Nat, Above[k][c] # None PROVE k \in Heights
  <2>1. Above[n][c] = None
    BY <1>2 DEF Straight
  <2>2. ~(n <= k)
    BY <2>1, <1>1, <1>4, AboveEnds
  <2> QED
    BY <2>2, <1>3
<1> DEFINE found == {k \in Heights : Above[k][c] # None /\ Above[k][c] \in S}
<1>5. CASE found = {}
  <2>1. FirstIn(c, S) = None
    BY <1>5 DEF FirstIn
  <2>2. \A x \in Lineage(c) : x \notin S
    BY <1>4, <1>5, LineageInNat
  <2> QED
    BY <2>1, <2>2 DEF IsFirst
<1>6. CASE found # {}
  <2>1. found \in SUBSET Nat
    BY <1>3
  <2> DEFINE k == CHOOSE m \in found : \A l \in found : m <= l
  <2>2. k \in found /\ \A l \in found : k <= l
    <3> HIDE DEF found
    <3>1. \E m \in found : \A l \in found : m <= l
      BY <1>6, <2>1, Least
    <3> QED
      BY <3>1
  <2>3. FirstIn(c, S) = Above[k][c]
    BY <1>6 DEF FirstIn
  <2> HIDE DEF k
  <2>4. PICK y : y = Above[k][c]
    OBVIOUS
  <2>5. y # None /\ y \in S /\ k \in Nat
    BY <2>1, <2>2, <2>4
  <2>6. y \in Lineage(c)
    BY <2>4, <2>5, LineageInNat
  <2>7. ASSUME NEW j \in Nat, j < k PROVE Above[j][c] \notin S
    <3> SUFFICES ASSUME Above[j][c] \in S PROVE FALSE
      OBVIOUS
    <3>1. j \in Heights
      BY <2>2, <2>7, <1>3
    <3>2. j \notin found
      BY <2>2, <2>5, <2>7
    <3>3. Above[j][c] = None
      BY <3>1, <3>2
    <3>4. Above[k][c] = None
      <4>1. j <= k
        BY <2>5, <2>7
      <4> QED
        BY <4>1, <3>3, <2>5, <1>1, AboveEnds
    <3> QED
      BY <3>4, <2>4, <2>5
  <2> QED
    BY <2>3, <2>4, <2>5, <2>6, <2>7 DEF IsFirst
<1> QED
  BY <1>5, <1>6

LEMMA OneFirst ==
  ASSUME program \in Programs, NEW c, Straight(c), NEW S, NEW y, IsFirst(c, S, y)
  PROVE  y = FirstIn(c, S)
<1>1. PICK z : z = FirstIn(c, S) /\ IsFirst(c, S, z)
  BY FirstIsFirst
<1>2. CASE y = None \/ z = None
  BY <1>1, <1>2 DEF IsFirst
<1>3. CASE y # None /\ z # None
  <2>1. PICK k \in Nat : y = Above[k][c] /\ \A j \in Nat : j < k => Above[j][c] \notin S
    BY <1>3 DEF IsFirst
  <2>2. PICK l \in Nat : z = Above[l][c] /\ \A j \in Nat : j < l => Above[j][c] \notin S
    BY <1>1, <1>3 DEF IsFirst
  <2>3. y \in S /\ z \in S
    BY <1>1, <1>3 DEF IsFirst
  <2>4. ~(k < l) /\ ~(l < k)
    BY <2>1, <2>2, <2>3
  <2>5. k = l
    BY <2>4
  <2> QED
    BY <1>1, <2>1, <2>2, <2>5
<1> QED
  BY <1>2, <1>3

LEMMA LineUp ==
  ASSUME program \in Programs, NEW c, Straight(c)
  PROVE  /\ c \in Classes /\ c \in Lineage(c)
         /\ program[c].base = None => Lineage(c) = {c}
         /\ program[c].base # None => /\ Straight(program[c].base)
                                      /\ Lineage(c) = {c} \cup Lineage(program[c].base)
                                      /\ c \notin Lineage(program[c].base)
                                      /\ \A k \in Nat : Above[k + 1][c] = Above[k][program[c].base]
<1>1. c \in Classes /\ c \in Beings
  BY DEF Straight, Beings
<1>2. c \in Lineage(c)
  BY <1>1, LineageType
<1>3. PICK b : b = program[c].base
  OBVIOUS
<1>4. \A k \in Nat : Above[k + 1][c] = Above[k][b]
  BY <1>1, <1>3, AboveFacts
<1>5. Above[0][c] = c /\ Above[0][b] = b
  BY <1>1, <1>3, AboveFacts, ProgramFacts
<1>6. CASE b = None
  <2>1. ASSUME NEW x \in Lineage(c) PROVE x = c
    <3>1. PICK k \in Nat : x = Above[k][c] /\ x # None
      BY LineageInNat
    <3>2. CASE k = 0
      BY <3>1, <3>2, <1>5
    <3>3. CASE k # 0
      <4>1. k - 1 \in Nat /\ (k - 1) + 1 = k
        BY <3>3
      <4>2. x = Above[k - 1][b]
        BY <3>1, <4>1, <1>4
      <4> QED
        BY <4>1, <4>2, <3>1, <1>6, AboveFacts
    <3> QED
      BY <3>2, <3>3
  <2> QED
    BY <2>1, <1>1, <1>2, <1>3, <1>6
<1>7. CASE b # None
  <2>1. Above[1][c] = b
    <3>1. 0 + 1 = 1
      OBVIOUS
    <3> QED
      BY <3>1, <1>4, <1>5
  <2>2. Straight(b)
    BY <2>1, <1>7, StraightUp
  <2>3. \A x : x \in Lineage(c) <=> x # None /\ \E k \in Nat : x = Above[k][c]
    BY LineageInNat
  <2>4. \A x : x \in Lineage(b) <=> x # None /\ \E k \in Nat : x = Above[k][b]
    BY <2>2, LineageInNat
  <2>5. ASSUME NEW x \in Lineage(b) PROVE x \in Lineage(c) /\ x # c
    <3>1. PICK k \in Nat : x = Above[k][b] /\ x # None
      BY <2>4
    <3>2. PICK l \in Nat \ {0} : l = k + 1
      OBVIOUS
    <3>3. x = Above[l][c]
      BY <3>1, <3>2, <1>4
    <3>4. x # c
      BY <3>3, NotAboveItself
    <3> QED
      BY <3>1, <3>2, <3>3, <3>4, <2>3
  <2>6. ASSUME NEW x \in Lineage(c), x # c PROVE x \in Lineage(b)
    <3>1. PICK k \in Nat : x = Above[k][c] /\ x # None
      BY <2>3
    <3>2. k # 0
      BY <3>1, <2>6, <1>5
    <3>3. k - 1 \in Nat /\ (k - 1) + 1 = k
      BY <3>2
    <3>4. x = Above[k - 1][b]
      BY <3>1, <3>3, <1>4
    <3> QED
      BY <3>1, <3>3, <3>4, <2>4
  <2> QED
    BY <1>1, <1>2, <1>3, <1>4, <1>7, <2>2, <2>5, <2>6
<1> QED
  BY <1>6, <1>7

LEMMA LineageWithin ==
  ASSUME program \in Programs, NEW c, Straight(c), NEW x \in Lineage(c)
  PROVE  Straight(x) /\ Lineage(x) \subseteq Lineage(c) /\ (c \in Lineage(x) => c = x)
<1>1. PICK k \in Nat : x = Above[k][c] /\ x # None
  BY LineageInNat
<1>2. Straight(x) /\ \A m \in Nat : Above[m][x] = Above[m + k][c]
  BY <1>1, StraightUp
<1>3. ASSUME NEW y \in Lineage(x) PROVE y \in Lineage(c) /\ (y = c => c = x)
  <2>1. PICK m \in Nat : y = Above[m][x] /\ y # None
    BY <1>2, LineageInNat
  <2>2. PICK l \in Nat : l = m + k
    OBVIOUS
  <2>3. y = Above[l][c]
    BY <1>2, <2>1, <2>2
  <2>4. y \in Lineage(c)
    BY <2>1, <2>3, LineageInNat
  <2>5. ASSUME y = c PROVE c = x
    <3>1. l = 0
      BY <2>3, <2>5, NotAboveItself
    <3>2. k = 0
      BY <2>2, <3>1
    <3>3. c \in Beings
      BY DEF Straight, Beings
    <3> QED
      BY <1>1, <3>2, <3>3, AboveFacts
  <2> QED
    BY <2>4, <2>5
<1> QED
  BY <1>2, <1>3

LEMMA FirstSteps ==
  ASSUME program \in Programs, NEW c, Straight(c), NEW S
  PROVE  /\ c \in S => FirstIn(c, S) = c
         /\ c \notin S /\ program[c].base = None => FirstIn(c, S) = None
         /\ c \notin S /\ program[c].base # None => FirstIn(c, S) = FirstIn(program[c].base, S)
<1>1. c \in Classes /\ c \in Beings /\ c \in Lineage(c) /\ c # None
  BY LineUp, ProgramFacts DEF Beings
<1>2. Above[0][c] = c
  BY <1>1, AboveFacts
<1>3. ASSUME c \in S PROVE FirstIn(c, S) = c
  <2>1. IsFirst(c, S, c)
    BY <1>1, <1>2, <1>3 DEF IsFirst
  <2> QED
    BY <2>1, OneFirst
<1>4. ASSUME c \notin S, program[c].base = None PROVE FirstIn(c, S) = None
  <2>1. IsFirst(c, S, None)
    BY <1>4, LineUp DEF IsFirst
  <2> QED
    BY <2>1, OneFirst
<1>5. ASSUME c \notin S, program[c].base # None PROVE FirstIn(c, S) = FirstIn(program[c].base, S)
  <2>1. PICK b : b = program[c].base
    OBVIOUS
  <2>2. /\ Straight(b) /\ Lineage(c) = {c} \cup Lineage(b)
        /\ \A k \in Nat : Above[k + 1][c] = Above[k][b]
    BY <1>5, <2>1, LineUp
  <2>3. PICK y : y = FirstIn(b, S) /\ IsFirst(b, S, y)
    BY <2>2, FirstIsFirst
  <2>4. CASE y = None
    <3>1. IsFirst(c, S, None)
      BY <1>5, <2>2, <2>3, <2>4 DEF IsFirst
    <3> QED
      BY <2>1, <2>3, <2>4, <3>1, OneFirst
  <2>5. CASE y # None
    <3>1. PICK k \in Nat : y = Above[k][b] /\ \A j \in Nat : j < k => Above[j][b] \notin S
      BY <2>3, <2>5 DEF IsFirst
    <3>2. PICK l \in Nat : l = k + 1
      OBVIOUS
    <3>3. y = Above[l][c]
      BY <2>2, <3>1, <3>2
    <3>4. ASSUME NEW j \in Nat, j < l PROVE Above[j][c] \notin S
      <4>1. CASE j = 0
        BY <4>1, <1>2, <1>5
      <4>2. CASE j # 0
        <5>1. j - 1 \in Nat /\ (j - 1) + 1 = j /\ j - 1 < k
          BY <3>2, <3>4, <4>2
        <5>2. Above[j][c] = Above[j - 1][b]
          BY <2>2, <5>1
        <5> QED
          BY <3>1, <5>1, <5>2
      <4> QED
        BY <4>1, <4>2
    <3>5. y \in S /\ y \in Lineage(c)
      BY <2>2, <2>3, <2>5 DEF IsFirst
    <3>6. IsFirst(c, S, y)
      BY <2>5, <3>2, <3>3, <3>4, <3>5 DEF IsFirst
    <3> QED
      BY <2>1, <2>3, <3>6, OneFirst
  <2> QED
    BY <2>4, <2>5
<1> QED
  BY <1>3, <1>4, <1>5

(* The first of some of the set. *)
LEMMA FirstOfFewer ==
  ASSUME program \in Programs, NEW c, Straight(c), NEW S, NEW A, A \subseteq S, NEW y, y = FirstIn(c, S)
  PROVE  /\ y = None => FirstIn(c, A) = None
         /\ y # None => y \in Lineage(c) /\ y \in S
         /\ y \in A /\ y # None => FirstIn(c, A) = y
         /\ y # None /\ (\A x \in Lineage(y) : x \notin A) => FirstIn(c, A) = None
<1>1. IsFirst(c, S, y)
  BY FirstIsFirst
<1>2. ASSUME y = None PROVE FirstIn(c, A) = None
  <2>1. IsFirst(c, A, None)
    BY <1>1, <1>2 DEF IsFirst
  <2> QED
    BY <2>1, OneFirst
<1>3. ASSUME y # None PROVE y \in Lineage(c) /\ y \in S
  BY <1>1, <1>3 DEF IsFirst
<1>4. ASSUME y \in A, y # None PROVE FirstIn(c, A) = y
  <2>1. IsFirst(c, A, y)
    BY <1>1, <1>4 DEF IsFirst
  <2> QED
    BY <2>1, OneFirst
<1>5. ASSUME y # None, \A x \in Lineage(y) : x \notin A PROVE FirstIn(c, A) = None
  <2>1. PICK k \in Nat : y = Above[k][c] /\ \A j \in Nat : j < k => Above[j][c] \notin S
    BY <1>1, <1>5 DEF IsFirst
  <2>2. Straight(y) /\ \A m \in Nat : Above[m][y] = Above[m + k][c]
    BY <1>5, <2>1, StraightUp
  <2>3. ASSUME NEW x \in Lineage(c) PROVE x \notin A
    <3>1. PICK j \in Nat : x = Above[j][c] /\ x # None
      BY LineageInNat
    <3>2. CASE j < k
      BY <2>1, <3>1, <3>2
    <3>3. CASE ~(j < k)
      <4>1. j - k \in Nat /\ (j - k) + k = j
        BY <3>3
      <4>2. x = Above[j - k][y]
        BY <2>2, <3>1, <4>1
      <4>3. x \in Lineage(y)
        BY <2>2, <3>1, <4>1, <4>2, LineageInNat
      <4> QED
        BY <1>5, <4>3
    <3> QED
      BY <3>2, <3>3
  <2>4. IsFirst(c, A, None)
    BY <2>3 DEF IsFirst
  <2> QED
    BY <2>4, OneFirst
<1> QED
  BY <1>2, <1>3, <1>4, <1>5

LEMMA MethodParts ==
  ASSUME NEW m \in Methods
  PROVE  m = Own(m.class, m.signature) /\ m.class \in Classes /\ Declares(m.class, m.signature)
<1>1. PICK c \in Classes : \E i \in DOMAIN program[c].methods : m = Method(c, i)
  BY DEF Methods
<1>2. m = Own(m.class, m.signature) /\ m.class = c
  BY <1>1 DEF Method, Own
<1>3. Declares(m.class, m.signature)
  BY <1>2 DEF Declares, Own
<1> QED
  BY <1>2, <1>3

LEMMA DeclaredOne ==
  ASSUME NEW c, NEW s, Declares(c, s)
  PROVE  c \in Classes /\ Own(c, s) \in Methods
<1>1. Own(c, s) \in Methods
  BY DEF Declares, Own
<1>2. Own(c, s).class \in Classes
  BY <1>1, MethodParts
<1> QED
  BY <1>1, <1>2 DEF Own

LEMMA DeclaringIs ==
  ASSUME program \in Programs, NEW c, Straight(c), NEW s
  PROVE  Declaring(c, s) = Own(FirstIn(c, Declarers(s)), s)
<1>1. \A n \in Heights : Above[n][c] # None => Above[n][c] \in Classes
  <2>1. \A n \in Heights : n \in Nat
    BY ClassCount DEF Heights
  <2>2. c \in Beings
    BY DEF Straight, Beings
  <2> QED
    BY <2>1, <2>2, AboveType DEF Beings
<1>2. {n \in Heights : Above[n][c] # None /\ Declares(Above[n][c], s)}
        = {n \in Heights : Above[n][c] # None /\ Above[n][c] \in Declarers(s)}
  BY <1>1 DEF Declarers
<1> DEFINE found == {n \in Heights : Above[n][c] # None /\ Declares(Above[n][c], s)}
           first == IF found = {} THEN None
                    ELSE Above[CHOOSE n \in found : \A k \in found : n <= k][c]
<1>3. Declaring(c, s) = [class |-> first, signature |-> s]
  BY DEF Declaring, First
<1>4. FirstIn(c, Declarers(s)) = first
  <2> DEFINE in == {n \in Heights : Above[n][c] # None /\ Above[n][c] \in Declarers(s)}
  <2>1. FirstIn(c, Declarers(s)) = IF in = {} THEN None ELSE Above[CHOOSE n \in in : \A k \in in : n <= k][c]
    BY DEF FirstIn
  <2>2. found = in
    BY <1>2
  <2> HIDE DEF in, found
  <2> QED
    BY <2>1, <2>2
<1> QED
  BY <1>3, <1>4 DEF Own

LEMMA DeclaringFacts ==
  ASSUME program \in Programs, NEW c, Straight(c), NEW s, NEW d, d = Declaring(c, s)
  PROVE  /\ d.signature = s
         /\ Declares(c, s) => d = Own(c, s)
         /\ ~Declares(c, s) /\ program[c].base = None => d.class = None
         /\ ~Declares(c, s) /\ program[c].base # None => d = Declaring(program[c].base, s)
         /\ d.class # None => d \in Methods /\ d.class \in Lineage(c) /\ Declares(d.class, s) /\ d = Own(d.class, s)
         /\ d.class = None => \A x \in Lineage(c) : ~Declares(x, s)
<1>1. PICK y : y = FirstIn(c, Declarers(s)) /\ IsFirst(c, Declarers(s), y)
  BY FirstIsFirst
<1>2. d = Own(y, s)
  BY <1>1, DeclaringIs
<1>3. d.signature = s /\ d.class = y
  BY <1>2 DEF Own
<1>4. c \in Classes /\ Lineage(c) \subseteq Classes
  BY LineageType DEF Straight
<1>5. ASSUME Declares(c, s) PROVE d = Own(c, s)
  <2>1. c \in Declarers(s)
    BY <1>4, <1>5 DEF Declarers
  <2> QED
    BY <1>1, <1>2, <2>1, FirstSteps
<1>6. ASSUME ~Declares(c, s), program[c].base = None PROVE d.class = None
  <2>1. c \notin Declarers(s)
    BY <1>6 DEF Declarers
  <2> QED
    BY <1>1, <1>3, <1>6, <2>1, FirstSteps
<1>7. ASSUME ~Declares(c, s), program[c].base # None PROVE d = Declaring(program[c].base, s)
  <2>1. c \notin Declarers(s)
    BY <1>7 DEF Declarers
  <2>2. y = FirstIn(program[c].base, Declarers(s))
    BY <1>1, <1>7, <2>1, FirstSteps
  <2>3. Straight(program[c].base)
    BY <1>7, LineUp
  <2> QED
    BY <1>2, <2>2, <2>3, DeclaringIs
<1>8. ASSUME y # None PROVE d \in Methods /\ y \in Lineage(c) /\ Declares(y, s)
  <2>1. y \in Declarers(s) /\ y \in Lineage(c)
    BY <1>1, <1>8 DEF IsFirst
  <2>2. Declares(y, s)
    BY <2>1 DEF Declarers
  <2> QED
    BY <1>2, <2>1, <2>2, DeclaredOne
<1>9. ASSUME y = None PROVE \A x \in Lineage(c) : ~Declares(x, s)
  <2>1. \A x \in Lineage(c) : x \notin Declarers(s)
    BY <1>1, <1>9 DEF IsFirst
  <2> QED
    BY <2>1, <1>4 DEF Declarers
<1> QED
  BY <1>2, <1>3, <1>5, <1>6, <1>7, <1>8, <1>9

LEMMA PromisedBy ==
  ASSUME program \in Programs, NEW c \in Classes, NEW s
  PROVE  s \in InterfaceSignatures(c) <=> \E i \in Gathered(c) : Declares(i, s)
<1>1. ASSUME NEW i \in Gathered(c), Declares(i, s) PROVE s \in InterfaceSignatures(c)
  <2>1. PICK n \in DOMAIN AllInterfaces(c) : i = AllInterfaces(c)[n]
    BY <1>1 DEF Gathered, Listed
  <2>2. s \in Signatures
    <3>1. Own(i, s) \in Methods /\ Own(i, s).signature = s
      BY <1>1, DeclaredOne DEF Own
    <3> QED
      BY <3>1 DEF Signatures
  <2> QED
    BY <1>1, <2>1, <2>2 DEF InterfaceSignatures
<1>2. ASSUME s \in InterfaceSignatures(c) PROVE \E i \in Gathered(c) : Declares(i, s)
  BY <1>2 DEF InterfaceSignatures, Gathered, Listed
<1> QED
  BY <1>1, <1>2

(* A method without a modifier is chosen by the object if an interface of its
   class asks for it. *)
LEMMA PlainByObject ==
  ASSUME program \in Programs, NEW m \in Methods, m.class \notin Interfaces, Straight(m.class),
         Modifier(m) = "plain"
  PROVE  ByObject(m, m.class) <=> m.signature \in InterfaceSignatures(m.class)
<1>1. ASSUME NEW x \in Lineage(m.class), m.class \in Lineage(x) PROVE x = m.class
  BY <1>1, LineageWithin
<1>2. m.class \in Lineage(m.class)
  BY LineUp
<1> QED
  BY <1>1, <1>2 DEF ByObject

LEMMA CanBeReplaced ==
  ASSUME program \in Programs, NEW b, Straight(b), NEW m \in Methods, m.class \in Lineage(b),
         ByObject(m, m.class)
  PROVE  Replaceable(b, m.signature)
<1>1. Lineage(m.class) \subseteq Lineage(b)
  BY LineageWithin
<1>2. ByObject(m, b)
  BY <1>1 DEF ByObject
<1>3. Declares(m.class, m.signature) /\ m = [class |-> m.class, signature |-> m.signature]
  BY MethodParts DEF Own
<1> QED
  BY <1>2, <1>3 DEF Replaceable

LEMMA NoHiding ==
  ASSUME ~Hides, NEW m \in Methods, m.class \notin Interfaces
  PROVE  /\ Modifier(m) # "override" /\ Replaceable(program[m.class].base, m.signature)
              => Modifier(m) = "plain" /\ m.signature \in InterfaceSignatures(m.class)
         /\ Modifier(m) = "abstract" => \A x \in Lineage(m.class) : x # m.class => ~Declares(x, m.signature)
BY DEF Hides

LEMMA NoInheriting ==
  ASSUME ~InheritsImplementation, NEW c \in Classes, c \notin Interfaces, NEW s \in InterfaceSignatures(c),
         NEW d, d = Declaring(c, s), d.class # None
  PROVE  ByObject(d, d.class)
BY DEF InheritsImplementation

LEMMA ClassLine ==
  ASSUME program \in Programs, NEW c, Straight(c), c \notin Interfaces, Saturated
  PROVE  \A x \in Lineage(c) : x \notin Interfaces /\ x \in Classes
BY GatheredAbove

LEMMA ImplementingIs ==
  ASSUME program \in Programs, NEW c, Straight(c), NEW w, w = Wanted
  PROVE  Implementing(c) = FirstIn(c, {x \in Declarers(w) : Own(x, w) \notin is_abstract})
<1>1. \A n \in Heights : Above[n][c] # None => Above[n][c] \in Classes
  <2>1. \A n \in Heights : n \in Nat
    BY ClassCount DEF Heights
  <2>2. c \in Beings
    BY DEF Straight, Beings
  <2> QED
    BY <2>1, <2>2, AboveType DEF Beings
<1>2. {n \in Heights : Above[n][c] # None /\ (Declares(Above[n][c], w) /\ Own(Above[n][c], w) \notin is_abstract)}
        = {n \in Heights : Above[n][c] # None /\ Above[n][c] \in {x \in Declarers(w) : Own(x, w) \notin is_abstract}}
  BY <1>1 DEF Declarers
<1> DEFINE A == {x \in Declarers(w) : Own(x, w) \notin is_abstract}
           found == {n \in Heights : Above[n][c] # None /\ (Declares(Above[n][c], w) /\ Own(Above[n][c], w) \notin is_abstract)}
           first == IF found = {} THEN None
                    ELSE Above[CHOOSE n \in found : \A k \in found : n <= k][c]
<1>3. Implementing(c) = first
  BY DEF Implementing, First, Own
<1>4. FirstIn(c, A) = first
  <2> DEFINE in == {n \in Heights : Above[n][c] # None /\ Above[n][c] \in A}
  <2>1. FirstIn(c, A) = IF in = {} THEN None ELSE Above[CHOOSE n \in in : \A k \in in : n <= k][c]
    BY DEF FirstIn
  <2>2. found = in
    BY <1>2
  <2> HIDE DEF in, found
  <2> QED
    BY <2>1, <2>2
<1> QED
  BY <1>3, <1>4

LEMMA ImplementingFacts ==
  ASSUME program \in Programs, Tame, AbstractsAreDeclared, NEW c, Straight(c), c \notin Interfaces,
         NEW w, w = Wanted, NEW d, d = Declaring(c, w)
  PROVE  /\ d.class = None \/ Modifier(d) = "abstract" => Implementing(c) = None
         /\ d.class # None /\ Modifier(d) # "abstract" => Implementing(c) = d.class
<1>1. PICK A : A = {x \in Declarers(w) : Own(x, w) \notin is_abstract}
  OBVIOUS
<1>2. Implementing(c) = FirstIn(c, A)
  BY <1>1, ImplementingIs
<1>3. PICK y : y = FirstIn(c, Declarers(w))
  OBVIOUS
<1>4. A \subseteq Declarers(w)
  BY <1>1
<1>5. d = Own(y, w) /\ d.class = y
  <2>1. d = Own(y, w)
    BY <1>3, DeclaringIs
  <2> QED
    BY <2>1 DEF Own
<1>6. /\ y = None => FirstIn(c, A) = None
      /\ y # None => y \in Lineage(c) /\ y \in Declarers(w)
      /\ y \in A /\ y # None => FirstIn(c, A) = y
      /\ y # None /\ (\A x \in Lineage(y) : x \notin A) => FirstIn(c, A) = None
  BY <1>3, <1>4, FirstOfFewer
<1>7. ASSUME y # None PROVE d \in Methods /\ d.class \notin Interfaces /\ d.signature = w
  <2>1. d \in Methods /\ d.class \in Lineage(c) /\ d.signature = w
    <3>1. d.signature = w /\ (d.class # None => d \in Methods /\ d.class \in Lineage(c))
      BY DeclaringFacts
    <3> QED
      BY <3>1, <1>5, <1>7
  <2>2. d.class \notin Interfaces
    BY <2>1, ClassLine DEF Tame
  <2> QED
    BY <2>1, <2>2
<1>8. ASSUME y # None, Modifier(d) = "abstract" PROVE FirstIn(c, A) = None
  <2>1. d \in Methods /\ d.class \notin Interfaces /\ d.signature = w
    BY <1>7, <1>8
  <2>2. \A x \in Lineage(y) : x # y => ~Declares(x, w)
    BY <2>1, <1>5, <1>8, NoHiding DEF Tame
  <2>3. d \in is_abstract
    BY <2>1, <1>8 DEF AbstractsAreDeclared
  <2>4. \A x \in Lineage(y) : x \notin A
    BY <2>2, <2>3, <1>1, <1>5 DEF Declarers
  <2> QED
    BY <2>4, <1>6, <1>8
<1>9. ASSUME y # None, Modifier(d) # "abstract" PROVE FirstIn(c, A) = y
  <2>1. d \in Methods /\ d.class \notin Interfaces
    BY <1>7, <1>9
  <2>2. d \notin is_abstract
    BY <2>1, <1>9 DEF AbstractsAreDeclared
  <2>3. y \in A
    BY <2>2, <1>1, <1>5, <1>6, <1>9
  <2> QED
    BY <2>3, <1>6, <1>9
<1> QED
  BY <1>2, <1>5, <1>6, <1>8, <1>9

LEMMA JoinedAt ==
  ASSUME NEW T, NEW a \in Seq(T), NEW b \in Seq(T), NEW s, s = a \o b
  PROVE  /\ s \in Seq(T) /\ Len(a) \in Nat /\ Len(b) \in Nat /\ DOMAIN s = 1 .. Len(a) + Len(b)
         /\ DOMAIN a = 1 .. Len(a) /\ DOMAIN b = 1 .. Len(b)
         /\ \A k \in DOMAIN a : k \in DOMAIN s /\ s[k] = a[k]
         /\ \A k \in DOMAIN b : Len(a) + k \in DOMAIN s /\ s[Len(a) + k] = b[k]
         /\ \A k \in DOMAIN s : \/ k \in DOMAIN a /\ s[k] = a[k]
                                \/ \E l \in DOMAIN b : k = Len(a) + l /\ s[k] = b[l]
<1>1. Len(a) \in Nat /\ Len(b) \in Nat /\ DOMAIN a = 1 .. Len(a) /\ DOMAIN b = 1 .. Len(b)
  OBVIOUS
<1>2. /\ s \in Seq(T) /\ DOMAIN s = 1 .. Len(a) + Len(b)
      /\ \A k \in 1 .. Len(a) : s[k] = a[k]
      /\ \A k \in 1 .. Len(b) : s[Len(a) + k] = b[k]
  OBVIOUS
<1>3. ASSUME NEW k \in DOMAIN s, k \notin DOMAIN a PROVE \E l \in DOMAIN b : k = Len(a) + l /\ s[k] = b[l]
  <2>1. k - Len(a) \in 1 .. Len(b) /\ k = Len(a) + (k - Len(a))
    BY <1>1, <1>2, <1>3
  <2> QED
    BY <1>1, <1>2, <2>1
<1>4. \A k \in DOMAIN a : k \in DOMAIN s /\ s[k] = a[k]
  BY <1>1, <1>2
<1>5. \A k \in DOMAIN b : Len(a) + k \in DOMAIN s /\ s[Len(a) + k] = b[k]
  BY <1>1, <1>2
<1> QED
  BY <1>1, <1>2, <1>3, <1>4, <1>5

LEMMA OrderJoined ==
  ASSUME NEW T, NEW a \in Seq(T), NEW b \in Seq(T), InOrder(a),
         \A k \in DOMAIN a : a[k].op \notin {"interface", "implement"},
         \A k \in DOMAIN b : b[k].op # "declare"
  PROVE  InOrder(a \o b)
<1>1. PICK s : s = a \o b
  OBVIOUS
<1>2. /\ Len(a) \in Nat /\ DOMAIN a = 1 .. Len(a) /\ DOMAIN b = 1 .. Len(b) /\ Len(b) \in Nat
      /\ \A k \in DOMAIN s : \/ k \in DOMAIN a /\ s[k] = a[k]
                             \/ \E l \in DOMAIN b : k = Len(a) + l /\ s[k] = b[l]
  BY <1>1, JoinedAt
<1> SUFFICES ASSUME NEW x \in DOMAIN s, NEW y \in DOMAIN s, s[y].op = "declare"
             PROVE  /\ x < y => s[x].op \notin {"interface", "implement"}
                    /\ s[x] = s[y] => x = y
  BY <1>1 DEF InOrder
<1>3. y \in DOMAIN a /\ s[y] = a[y]
  BY <1>2
<1>4. CASE x \in DOMAIN a /\ s[x] = a[x]
  BY <1>3, <1>4 DEF InOrder
<1>5. CASE \E l \in DOMAIN b : x = Len(a) + l /\ s[x] = b[l]
  <2>1. PICK l \in DOMAIN b : x = Len(a) + l /\ s[x] = b[l]
    BY <1>5
  <2>2. ~(x < y)
    BY <1>2, <1>3, <2>1
  <2>3. s[x].op # "declare"
    BY <2>1
  <2> QED
    BY <2>2, <2>3
<1> QED
  BY <1>2, <1>4, <1>5

LEMMA OrderLater ==
  ASSUME NEW T, NEW h \in T, NEW b \in Seq(T), InOrder(b), h.op = "inherit"
  PROVE  InOrder(<<h>> \o b)
<1>1. PICK a \in Seq(T) : a = <<h>>
  <2>1. <<h>> \in Seq(T)
    OBVIOUS
  <2> QED
    BY <2>1
<1>2. DOMAIN a = {1} /\ a[1] = h /\ Len(a) = 1
  BY <1>1
<1>3. PICK s : s = a \o b
  OBVIOUS
<1>4. /\ DOMAIN b = 1 .. Len(b) /\ Len(b) \in Nat
      /\ \A k \in DOMAIN s : \/ k \in DOMAIN a /\ s[k] = a[k]
                             \/ \E l \in DOMAIN b : k = Len(a) + l /\ s[k] = b[l]
  BY <1>3, JoinedAt
<1> SUFFICES ASSUME NEW x \in DOMAIN s, NEW y \in DOMAIN s, s[y].op = "declare"
             PROVE  /\ x < y => s[x].op \notin {"interface", "implement"}
                    /\ s[x] = s[y] => x = y
  BY <1>1, <1>3 DEF InOrder
<1>5. PICK l \in DOMAIN b : y = 1 + l /\ s[y] = b[l]
  BY <1>2, <1>4
<1>6. CASE x \in DOMAIN a /\ s[x] = a[x]
  BY <1>2, <1>6
<1>7. CASE \E k \in DOMAIN b : x = Len(a) + k /\ s[x] = b[k]
  <2>1. PICK k \in DOMAIN b : x = 1 + k /\ s[x] = b[k]
    BY <1>2, <1>7
  <2>2. x < y <=> k < l
    BY <1>4, <1>5, <2>1
  <2> QED
    BY <1>5, <2>1, <2>2 DEF InOrder
<1> QED
  BY <1>4, <1>6, <1>7

LEMMA FollowedJoined ==
  ASSUME NEW T, NEW a \in Seq(T), NEW b \in Seq(T), NEW vt, Followed(a, vt), Followed(b, vt)
  PROVE  Followed(a \o b, vt)
<1>1. PICK s : s = a \o b
  OBVIOUS
<1>a. Len(a) \in Nat /\ DOMAIN a = 1 .. Len(a) /\ DOMAIN b = 1 .. Len(b) /\ Len(b) \in Nat
  OBVIOUS
<1>b. \A k \in DOMAIN a : k \in DOMAIN s /\ s[k] = a[k]
  BY <1>1, JoinedAt
<1>c. \A k \in DOMAIN b : Len(a) + k \in DOMAIN s /\ s[Len(a) + k] = b[k]
  BY <1>1, JoinedAt
<1>d. \A k \in DOMAIN s : \/ k \in DOMAIN a /\ s[k] = a[k]
                         \/ \E l \in DOMAIN b : k = Len(a) + l /\ s[k] = b[l]
  BY <1>1, JoinedAt
<1>2. /\ Len(a) \in Nat /\ DOMAIN a = 1 .. Len(a) /\ DOMAIN b = 1 .. Len(b) /\ Len(b) \in Nat
      /\ \A k \in DOMAIN a : k \in DOMAIN s /\ s[k] = a[k]
      /\ \A k \in DOMAIN b : Len(a) + k \in DOMAIN s /\ s[Len(a) + k] = b[k]
      /\ \A k \in DOMAIN s : \/ k \in DOMAIN a /\ s[k] = a[k]
                             \/ \E l \in DOMAIN b : k = Len(a) + l /\ s[k] = b[l]
  BY <1>a, <1>b, <1>c, <1>d
<1> SUFFICES ASSUME NEW x \in DOMAIN s, s[x].op = "interface", NEW n \in DOMAIN vt[s[x].interface]
             PROVE  \E y \in DOMAIN s : x < y /\ s[y] = Fills(s[x].interface, n)
  BY <1>1 DEF Followed
<1>3. CASE x \in DOMAIN a /\ s[x] = a[x]
  <2>1. PICK y \in DOMAIN a : x < y /\ a[y] = Fills(s[x].interface, n)
    BY <1>3 DEF Followed
  <2> QED
    BY <1>2, <2>1
<1>4. CASE \E l \in DOMAIN b : x = Len(a) + l /\ s[x] = b[l]
  <2>1. PICK l \in DOMAIN b : x = Len(a) + l /\ s[x] = b[l]
    BY <1>4
  <2>2. PICK y \in DOMAIN b : l < y /\ b[y] = Fills(s[x].interface, n)
    BY <2>1 DEF Followed
  <2>3. x < Len(a) + y
    BY <1>2, <2>1, <2>2
  <2> QED
    BY <1>2, <2>2, <2>3
<1> QED
  BY <1>2, <1>3, <1>4

LEMMA FollowedFlat ==
  ASSUME NEW T, NEW seqs \in Seq(Seq(T)), NEW vt, \A i \in DOMAIN seqs : Followed(seqs[i], vt)
  PROVE  Followed(FlattenSeq(seqs), vt)
<1>1. CASE seqs = <<>>
  <2>1. FlattenSeq(seqs) = <<>>
    BY <1>1, FlattenType
  <2> QED
    BY <2>1 DEF Followed
<1>2. CASE seqs # <<>>
  <2>1. PICK f \in [1 .. Len(seqs) -> Seq(T)] :
          /\ FlattenSeq(seqs) = f[Len(seqs)]
          /\ \A i \in 1 .. Len(seqs) : f[i] = IF i = 1 THEN seqs[i] ELSE f[i - 1] \o seqs[i]
    BY <1>2, Flattened
  <2>2. /\ Len(seqs) \in Nat \ {0} /\ DOMAIN seqs = 1 .. Len(seqs)
        /\ \A i \in 1 .. Len(seqs) : seqs[i] \in Seq(T)
    BY <1>2
  <2> DEFINE S == {m \in Nat : m \in 1 .. Len(seqs) => Followed(f[m], vt)}
  <2>3. 1 \in S
    <3>1. 1 \in 1 .. Len(seqs) /\ f[1] = seqs[1]
      BY <2>1, <2>2
    <3> QED
      BY <2>2, <3>1
  <2>4. ASSUME NEW n \in Nat \ {0}, n \in S PROVE n + 1 \in S
    <3> SUFFICES ASSUME n + 1 \in 1 .. Len(seqs) PROVE Followed(f[n + 1], vt)
      OBVIOUS
    <3>1. n \in 1 .. Len(seqs) /\ n + 1 # 1 /\ (n + 1) - 1 = n
      BY <2>2
    <3>2. f[n + 1] = f[n] \o seqs[n + 1] /\ f[n] \in Seq(T) /\ seqs[n + 1] \in Seq(T)
      BY <2>1, <2>2, <3>1
    <3>3. Followed(f[n], vt) /\ Followed(seqs[n + 1], vt)
      BY <2>2, <2>4, <3>1
    <3> QED
      BY <3>2, <3>3, FollowedJoined
  <2> HIDE DEF S
  <2>5. Len(seqs) \in S
    BY <2>2, <2>3, <2>4, InductionFromOne
  <2> QED
    BY <2>1, <2>2, <2>5 DEF S
<1> QED
  BY <1>1, <1>2

(* What FlattenSeq contains. *)
LEMMA FlattenListed ==
  ASSUME NEW T, NEW seqs \in Seq(Seq(T))
  PROVE  \A x : x \in Listed(FlattenSeq(seqs)) <=> \E i \in DOMAIN seqs : x \in Listed(seqs[i])
<1>1. CASE seqs = <<>>
  <2>1. FlattenSeq(seqs) = <<>>
    BY <1>1, FlattenType
  <2>2. DOMAIN seqs = {}
    BY <1>1
  <2>3. Listed(<<>>) = {}
    BY ListedOne
  <2> QED
    BY <2>1, <2>2, <2>3
<1>2. CASE seqs # <<>>
  <2>1. PICK f \in [1 .. Len(seqs) -> Seq(T)] :
          /\ FlattenSeq(seqs) = f[Len(seqs)]
          /\ \A i \in 1 .. Len(seqs) : f[i] = IF i = 1 THEN seqs[i] ELSE f[i - 1] \o seqs[i]
    BY <1>2, Flattened
  <2>2. /\ Len(seqs) \in Nat \ {0} /\ DOMAIN seqs = 1 .. Len(seqs)
        /\ \A i \in 1 .. Len(seqs) : seqs[i] \in Seq(T)
    BY <1>2
  <2> DEFINE In(m) == \A x : x \in Listed(f[m]) <=> \E i \in 1 .. m : x \in Listed(seqs[i])
             S == {m \in Nat : m \in 1 .. Len(seqs) => In(m)}
  <2>3. 1 \in S
    <3>1. f[1] = seqs[1]
      BY <2>1, <2>2
    <3>2. 1 .. 1 = {1}
      OBVIOUS
    <3>3. In(1)
      BY <3>1, <3>2
    <3> QED
      BY <3>3
  <2>4. ASSUME NEW n \in Nat \ {0}, n \in S PROVE n + 1 \in S
    <3> SUFFICES ASSUME n + 1 \in 1 .. Len(seqs) PROVE In(n + 1)
      OBVIOUS
    <3>1. n \in 1 .. Len(seqs) /\ n + 1 # 1 /\ (n + 1) - 1 = n
      BY <2>2
    <3>2. f[n + 1] = f[n] \o seqs[n + 1] /\ f[n] \in Seq(T) /\ seqs[n + 1] \in Seq(T)
      BY <2>1, <2>2, <3>1
    <3>3. Listed(f[n + 1]) = Listed(f[n]) \cup Listed(seqs[n + 1])
      BY <3>2, ListedJoined
    <3>4. In(n)
      BY <2>4, <3>1
    <3>5. \A i : i \in 1 .. n + 1 <=> i \in 1 .. n \/ i = n + 1
      OBVIOUS
    <3> QED
      BY <3>3, <3>4, <3>5
  <2> HIDE DEF S
  <2>5. Len(seqs) \in S
    BY <2>2, <2>3, <2>4, InductionFromOne
  <2>6. In(Len(seqs))
    BY <2>2, <2>5 DEF S
  <2> QED
    BY <2>1, <2>2, <2>6
<1> QED
  BY <1>1, <1>2

(* The rest of a list. *)
Splits(s, h, t) == s # <<>> /\ h = Head(s) /\ t = Tail(s)
Rest(s, h, t) ==
  /\ 1 \in DOMAIN s /\ h = s[1]
  /\ \A k \in DOMAIN s : k \in Nat /\ (k = 1 \/ 1 < k)
  /\ \A k \in DOMAIN t : k \in Nat /\ k + 1 \in DOMAIN s /\ t[k] = s[k + 1] /\ 1 < k + 1
  /\ \A k \in DOMAIN s : 1 < k => \E l \in DOMAIN t : k = l + 1 /\ t[l] = s[k]

LEMMA RestAt ==
  ASSUME NEW T, NEW s \in Seq(T), NEW h, NEW t, Splits(s, h, t)
  PROVE  Rest(s, h, t)
<1>1. /\ t \in Seq(T) /\ Len(s) \in Nat /\ DOMAIN s = 1 .. Len(s) /\ Len(s) >= 1 /\ h = s[1]
      /\ Len(t) = Len(s) - 1 /\ DOMAIN t = 1 .. Len(t) /\ \A k \in 1 .. Len(t) : t[k] = s[k + 1]
  BY DEF Splits
<1>2. \A k \in DOMAIN t : k \in Nat /\ k + 1 \in DOMAIN s /\ t[k] = s[k + 1] /\ 1 < k + 1
  BY <1>1
<1>3. 1 \in DOMAIN s /\ \A k \in DOMAIN s : k \in Nat /\ (k = 1 \/ 1 < k) /\ (k = 1 \/ (k - 1 \in DOMAIN t /\ (k - 1) + 1 = k))
  BY <1>1
<1>4. ASSUME NEW k \in DOMAIN s, 1 < k PROVE \E l \in DOMAIN t : k = l + 1 /\ t[l] = s[k]
  BY <1>1, <1>2, <1>3, <1>4
<1> QED
  BY <1>1, <1>2, <1>3, <1>4 DEF Rest

LEMMA RestListed ==
  ASSUME NEW T, NEW s \in Seq(T), NEW h, NEW t, Splits(s, h, t)
  PROVE  Listed(s) = {h} \cup Listed(t)
<1>0. Rest(s, h, t)
  BY RestAt
<1>1. /\ 1 \in DOMAIN s /\ h = s[1]
      /\ \A k \in DOMAIN s : k \in Nat /\ (k = 1 \/ 1 < k)
  BY <1>0 DEF Rest
<1>2. \A k \in DOMAIN t : k \in Nat /\ k + 1 \in DOMAIN s /\ t[k] = s[k + 1] /\ 1 < k + 1
  BY <1>0 DEF Rest
<1>4. \A k \in DOMAIN s : 1 < k => \E l \in DOMAIN t : k = l + 1 /\ t[l] = s[k]
  BY <1>0 DEF Rest
<1>5. Listed(s) = {h} \cup Listed(t)
  <2>1. \A x \in Listed(s) : x \in {h} \cup Listed(t)
    BY <1>1, <1>2, <1>4 DEF Listed
  <2>2. \A x \in Listed(t) : x \in Listed(s)
    BY <1>2 DEF Listed
  <2>3. h \in Listed(s)
    BY <1>1 DEF Listed
  <2> QED
    BY <2>1, <2>2, <2>3
<1> QED
  BY <1>5

LEMMA RestInOrder ==
  ASSUME NEW T, NEW s \in Seq(T), NEW h, NEW t, Splits(s, h, t), InOrder(s)
  PROVE  /\ InOrder(t)
         /\ h.op = "declare" => h \notin Listed(t)
         /\ h.op \in {"interface", "implement"} => \A x \in Listed(t) : x.op # "declare"
<1>0. Rest(s, h, t)
  BY RestAt
<1>1. /\ 1 \in DOMAIN s /\ h = s[1]
      /\ \A k \in DOMAIN s : k \in Nat /\ (k = 1 \/ 1 < k)
  BY <1>0 DEF Rest
<1>2. \A k \in DOMAIN t : k \in Nat /\ k + 1 \in DOMAIN s /\ t[k] = s[k + 1] /\ 1 < k + 1
  BY <1>0 DEF Rest
<1>4. \A k \in DOMAIN s : 1 < k => \E l \in DOMAIN t : k = l + 1 /\ t[l] = s[k]
  BY <1>0 DEF Rest
<1>6. /\ InOrder(t)
      /\ h.op = "declare" => h \notin Listed(t)
      /\ h.op \in {"interface", "implement"} => \A x \in Listed(t) : x.op # "declare"
  <2>1. ASSUME NEW a \in DOMAIN t, NEW b \in DOMAIN t, t[b].op = "declare"
        PROVE  /\ a < b => t[a].op \notin {"interface", "implement"}
               /\ t[a] = t[b] => a = b
    <3>1. PICK k \in DOMAIN s : k = a + 1 /\ t[a] = s[k]
      BY <1>2
    <3>2. PICK l \in DOMAIN s : l = b + 1 /\ t[b] = s[l]
      BY <1>2
    <3>3. /\ k < l => s[k].op \notin {"interface", "implement"}
          /\ s[k] = s[l] => k = l
      BY <2>1, <3>2 DEF InOrder
    <3>4. (a < b <=> k < l) /\ (a = b <=> k = l)
      BY <1>2, <3>1, <3>2
    <3> QED
      BY <3>1, <3>2, <3>3, <3>4
  <2>2. ASSUME NEW x \in Listed(t), x.op = "declare" PROVE x # h /\ h.op \notin {"interface", "implement"}
    <3>1. PICK b \in DOMAIN t : x = t[b]
      BY DEF Listed
    <3>2. PICK l \in DOMAIN s : l = b + 1 /\ t[b] = s[l] /\ 1 < l
      BY <1>2
    <3>3. s[l].op = "declare"
      BY <2>2, <3>1, <3>2
    <3> QED
      BY <1>1, <3>1, <3>2, <3>3 DEF InOrder
  <2>3. InOrder(t)
    BY <2>1 DEF InOrder
  <2> QED
    BY <2>2, <2>3
<1> QED
  BY <1>6

LEMMA RestFollowed ==
  ASSUME NEW T, NEW s \in Seq(T), NEW h, NEW t, Splits(s, h, t), NEW vt, Followed(s, vt)
  PROVE  /\ Followed(t, vt)
         /\ h.op = "interface" => \A n \in DOMAIN vt[h.interface] : Fills(h.interface, n) \in Listed(t)
<1>0. Rest(s, h, t)
  BY RestAt
<1>1. /\ 1 \in DOMAIN s /\ h = s[1]
      /\ \A k \in DOMAIN s : k \in Nat /\ (k = 1 \/ 1 < k)
  BY <1>0 DEF Rest
<1>2. \A k \in DOMAIN t : k \in Nat /\ k + 1 \in DOMAIN s /\ t[k] = s[k + 1] /\ 1 < k + 1
  BY <1>0 DEF Rest
<1>4. \A k \in DOMAIN s : 1 < k => \E l \in DOMAIN t : k = l + 1 /\ t[l] = s[k]
  BY <1>0 DEF Rest
<1>7. /\ Followed(t, vt)
      /\ h.op = "interface" => \A n \in DOMAIN vt[h.interface] : Fills(h.interface, n) \in Listed(t)
  <2>1. ASSUME NEW a \in DOMAIN t, t[a].op = "interface", NEW n \in DOMAIN vt[t[a].interface]
        PROVE  \E b \in DOMAIN t : a < b /\ t[b] = Fills(t[a].interface, n)
    <3>1. PICK k \in DOMAIN s : k = a + 1 /\ t[a] = s[k] /\ 1 < k
      BY <1>2
    <3>2. PICK l \in DOMAIN s : k < l /\ s[l] = Fills(t[a].interface, n)
      BY <2>1, <3>1 DEF Followed
    <3>3. 1 < l
      BY <1>1, <3>1, <3>2
    <3>4. PICK b \in DOMAIN t : l = b + 1 /\ t[b] = s[l]
      BY <1>4, <3>3
    <3>5. a < b
      BY <1>2, <3>1, <3>2, <3>4
    <3> QED
      BY <3>2, <3>4, <3>5
  <2>2. ASSUME h.op = "interface", NEW n \in DOMAIN vt[h.interface] PROVE Fills(h.interface, n) \in Listed(t)
    <3>a. 1 \in DOMAIN s /\ s[1].op = "interface" /\ n \in DOMAIN vt[s[1].interface]
      BY <1>1, <2>2
    <3>b. \E l \in DOMAIN s : 1 < l /\ s[l] = Fills(s[1].interface, n)
      BY <3>a DEF Followed
    <3>1. PICK l \in DOMAIN s : 1 < l /\ s[l] = Fills(h.interface, n)
      BY <3>b, <1>1
    <3>2. PICK b \in DOMAIN t : l = b + 1 /\ t[b] = s[l]
      BY <1>4, <3>1
    <3> QED
      BY <3>1, <3>2 DEF Listed
  <2>3. Followed(t, vt)
    BY <2>1 DEF Followed
  <2> QED
    BY <2>2, <2>3
<1> QED
  BY <1>7

LEMMA ImplementationsFacts ==
  ASSUME program \in Programs, vtables \in [Classes -> Seq(Methods)], NEW i \in Interfaces,
         NEW s, s = Implementations(i)
  PROVE  /\ Listed(s) = {Opens(i)} \cup Filling(i, vtables)
         /\ Followed(s, vtables)
         /\ \A k \in DOMAIN s : s[k].op # "declare"
<1>1. vtables[i] \in Seq(Methods)
  BY ProgramFacts
<1>2. PICK n \in Nat : DOMAIN vtables[i] = 1 .. n
  BY <1>1
<1> DEFINE T == {Opens(i)} \cup Filling(i, vtables)
<1>3. PICK f : f = [k \in DOMAIN vtables[i] |-> Fills(i, k)]
  OBVIOUS
<1>4. DOMAIN f = 1 .. n /\ f = [k \in DOMAIN f |-> f[k]] /\ \A k \in 1 .. n : f[k] = Fills(i, k)
  BY <1>2, <1>3
<1>5. \A k \in 1 .. n : f[k] \in T
  BY <1>2, <1>4 DEF Filling
<1>6. f \in Seq(T)
  <2> HIDE DEF T
  <2> QED
    BY <1>4, <1>5, SeqBuilt
<1>7. PICK o \in Seq(T) : o = <<Opens(i)>>
  <2>1. Opens(i) \in T
    OBVIOUS
  <2>2. <<Opens(i)>> \in Seq(T)
    <3> HIDE DEF T
    <3> QED
      BY <2>1
  <2> QED
    BY <2>2
<1>8. s = o \o f
  BY <1>3, <1>7 DEF Implementations
<1>9. DOMAIN o = {1} /\ o[1] = Opens(i) /\ Len(o) = 1 /\ Listed(o) = {Opens(i)}
  BY <1>7 DEF Listed
<1>10. Listed(f) = Filling(i, vtables)
  BY <1>2, <1>4 DEF Listed, Filling
<1>11. Listed(s) = Listed(o) \cup Listed(f)
  <2> HIDE DEF T
  <2> QED
    BY <1>6, <1>8, ListedJoined
<1>12. \A k \in DOMAIN f : Len(o) + k \in DOMAIN s /\ s[Len(o) + k] = f[k]
  <2> HIDE DEF T
  <2> QED
    BY <1>6, <1>8, JoinedAt
<1>13. \A k \in DOMAIN s : \/ k \in DOMAIN o /\ s[k] = o[k]
                           \/ \E l \in DOMAIN f : k = Len(o) + l /\ s[k] = f[l]
  <2> HIDE DEF T
  <2> QED
    BY <1>6, <1>8, JoinedAt
<1>14. ASSUME NEW x \in DOMAIN s, s[x].op = "interface"
       PROVE  x = 1 /\ s[x] = Opens(i)
  <2>1. ASSUME NEW l \in DOMAIN f, s[x] = f[l] PROVE FALSE
    BY <1>4, <1>14, <2>1 DEF Fills
  <2> QED
    BY <1>9, <1>13, <2>1
<1>15. Followed(s, vtables)
  <2> SUFFICES ASSUME NEW x \in DOMAIN s, s[x].op = "interface", NEW k \in DOMAIN vtables[s[x].interface]
               PROVE  \E y \in DOMAIN s : x < y /\ s[y] = Fills(s[x].interface, k)
    BY DEF Followed
  <2>1. x = 1 /\ s[x].interface = i
    BY <1>14 DEF Opens
  <2>2. k \in DOMAIN f /\ k \in Nat \ {0}
    BY <1>2, <1>4, <2>1
  <2>3. 1 + k \in DOMAIN s /\ s[1 + k] = Fills(i, k)
    BY <1>4, <1>9, <1>12, <2>2
  <2>4. x < 1 + k
    BY <2>1, <2>2
  <2> QED
    BY <2>1, <2>3, <2>4
<1>16. \A k \in DOMAIN s : s[k].op # "declare"
  <2>1. Opens(i).op = "interface" /\ \A k \in 1 .. n : f[k].op = "implement"
    BY <1>4 DEF Opens, Fills
  <2> QED
    BY <1>4, <1>9, <1>13, <2>1
<1> QED
  BY <1>9, <1>10, <1>11, <1>15, <1>16

LEMMA InterfacesToDo ==
  ASSUME program \in Programs, vtables \in [Classes -> Seq(Methods)], NEW c \in Classes, NEW seqs,
         seqs = [k \in DOMAIN AllInterfaces(c) |-> Implementations(AllInterfaces(c)[k])],
         NEW s, s = FlattenSeq(seqs)
  PROVE  /\ s \in Seq(Later(c)) /\ Listed(s) = Opening(c, vtables) /\ Followed(s, vtables)
         /\ \A k \in DOMAIN s : s[k].op # "declare"
<1>1. PICK is \in Seq(Interfaces) : is = AllInterfaces(c)
  BY AllInterfacesType
<1>2. DOMAIN seqs = DOMAIN is /\ \A k \in DOMAIN is : is[k] \in Interfaces /\ seqs[k] = Implementations(is[k])
  BY <1>1
<1>3. seqs \in Seq(Seq(Later(c))) /\ s \in Seq(Later(c))
  BY AllImplementations
<1>4. \A k \in DOMAIN seqs : Followed(seqs[k], vtables)
  BY <1>2, ImplementationsFacts
<1>5. Followed(s, vtables)
  BY <1>3, <1>4, FollowedFlat
<1>6. \A k \in DOMAIN seqs : Listed(seqs[k]) = {Opens(is[k])} \cup Filling(is[k], vtables)
  BY <1>2, ImplementationsFacts
<1>7. \A x : x \in Listed(s) <=> \E k \in DOMAIN seqs : x \in Listed(seqs[k])
  <2> SUFFICES ASSUME NEW x PROVE x \in Listed(s) <=> \E k \in DOMAIN seqs : x \in Listed(seqs[k])
    OBVIOUS
  <2> DEFINE T == Later(c)
  <2> HIDE DEF T
  <2>1. seqs \in Seq(Seq(T))
    BY <1>3 DEF T
  <2> QED
    BY <2>1, FlattenListed
<1>8. Gathered(c) = {is[k] : k \in DOMAIN is}
  BY <1>1 DEF Gathered, Listed
<1> DEFINE Block(i) == {Opens(i)} \cup Filling(i, vtables)
<1>9. \A x : x \in Listed(s) <=> \E k \in DOMAIN is : x \in Block(is[k])
  <2>1. \A k \in DOMAIN is : Listed(seqs[k]) = Block(is[k])
    BY <1>2, <1>6
  <2>2. \A x : x \in Listed(s) <=> \E k \in DOMAIN is : x \in Listed(seqs[k])
    BY <1>2, <1>7
  <2> SUFFICES ASSUME NEW x PROVE x \in Listed(s) <=> \E k \in DOMAIN is : x \in Block(is[k])
    OBVIOUS
  <2>3. \A k \in DOMAIN is : x \in Listed(seqs[k]) <=> x \in Block(is[k])
    BY <2>1
  <2> HIDE DEF Block
  <2> QED
    BY <2>2, <2>3
<1>10. Listed(s) = Opening(c, vtables)
  BY <1>8, <1>9 DEF Opening
<1>11. \A k \in DOMAIN s : s[k].op # "declare"
  <2> SUFFICES ASSUME NEW k \in DOMAIN s PROVE s[k].op # "declare"
    OBVIOUS
  <2>1. s[k] \in Listed(s)
    BY DEF Listed
  <2>2. PICK i : s[k] = Opens(i) \/ s[k] \in Filling(i, vtables)
    BY <1>9, <2>1
  <2>3. Opens(i).op # "declare"
    BY DEF Opens
  <2>4. \A n : Fills(i, n).op # "declare"
    BY DEF Fills
  <2> QED
    BY <2>2, <2>3, <2>4 DEF Filling
<1> QED
  BY <1>3, <1>5, <1>10, <1>11

LEMMA OwnMethodsFacts ==
  ASSUME program \in Programs, NEW c \in Classes, NEW s, s = OwnMethods(c), NEW vt
  PROVE  /\ s \in Seq(Declarations(c)) /\ Listed(s) = Declarations(c) /\ InOrder(s) /\ Followed(s, vt)
         /\ \A k \in DOMAIN s : s[k].op = "declare"
<1>1. s \in Seq(Declarations(c))
  BY OwnMethodsType
<1>2. PICK ms : ms = program[c].methods
  OBVIOUS
<1>3. \A i, j \in DOMAIN ms : ms[i].signature = ms[j].signature => i = j
  <2>1. program \in Programs /\ c \in DOMAIN program
    BY DEF Classes
  <2>2. \A i, j \in DOMAIN program[c].methods :
          program[c].methods[i].signature = program[c].methods[j].signature => i = j
    BY <2>1, ProgramAssumption
  <2> QED
    BY <1>2, <2>2
<1>4. DOMAIN s = DOMAIN ms /\ \A i \in DOMAIN ms : s[i] = Declare(Method(c, i)) /\ s[i].op = "declare"
                                                   /\ s[i].method.signature = ms[i].signature
  BY <1>2 DEF OwnMethods, Declare, Method
<1>5. Listed(s) = Declarations(c)
  BY <1>2, <1>4 DEF Listed, Declarations
<1>6. InOrder(s)
  BY <1>3, <1>4 DEF InOrder
<1>7. Followed(s, vt)
  BY <1>4 DEF Followed
<1> QED
  BY <1>1, <1>4, <1>5, <1>6, <1>7

LEMMA InterfaceTodoStarts ==
  ASSUME program \in Programs, NEW c \in Interfaces, NEW list, list = program[c].implements
  PROVE  Listed(Todo(c)) = {Inherits(list[i]) : i \in DOMAIN list} \cup Declarations(c)
<1>1. c \in Classes /\ list \in Seq(Interfaces)
  BY ProgramFacts
<1>2. PICK n \in Nat : DOMAIN list = 1 .. n
  BY <1>1
<1>3. PICK a : a = [i \in DOMAIN list |-> Inherits(list[i])]
  OBVIOUS
<1> DEFINE I == {Inherits(list[i]) : i \in DOMAIN list}
           T == I \cup Declarations(c)
<1>4. DOMAIN a = 1 .. n /\ a = [k \in DOMAIN a |-> a[k]] /\ \A k \in 1 .. n : a[k] = Inherits(list[k])
  BY <1>2, <1>3
<1>5. \A k \in 1 .. n : a[k] \in T
  BY <1>2, <1>4
<1>6. Listed(a) = I
  BY <1>2, <1>4 DEF Listed
<1>7. PICK o \in Seq(Declarations(c)) : o = OwnMethods(c) /\ Listed(o) = Declarations(c)
  BY <1>1, OwnMethodsFacts
<1>8. Declarations(c) \subseteq T
  OBVIOUS
<1>9. Todo(c) = a \o o
  BY <1>3, <1>7 DEF Todo
<1> HIDE DEF T
<1>10. a \in Seq(T)
  BY <1>4, <1>5, SeqBuilt
<1>11. o \in Seq(T)
  BY <1>8, SeqMore
<1>12. Listed(a \o o) = Listed(a) \cup Listed(o)
  BY <1>10, <1>11, ListedJoined
<1> QED
  BY <1>6, <1>7, <1>9, <1>12

LEMMA ClassTodoStarts ==
  ASSUME program \in Programs, vtables \in [Classes -> Seq(Methods)], NEW c \in Classes, c \notin Interfaces,
         NEW s, s = Todo(c)
  PROVE  /\ Listed(s) = (IF program[c].base = None THEN {} ELSE {Inherits(program[c].base)})
                        \cup Declarations(c) \cup Opening(c, vtables)
         /\ InOrder(s) /\ Followed(s, vtables)
<1>1. PICK seqs : seqs = [k \in DOMAIN AllInterfaces(c) |-> Implementations(AllInterfaces(c)[k])]
  OBVIOUS
<1> DEFINE h == Inherits(program[c].base)
           T == Later(c) \cup {h}
<1>2. PICK z : z = FlattenSeq(seqs)
  OBVIOUS
<1>3. /\ z \in Seq(Later(c)) /\ Listed(z) = Opening(c, vtables) /\ Followed(z, vtables)
      /\ \A k \in DOMAIN z : z[k].op # "declare"
  BY <1>1, <1>2, InterfacesToDo
<1>4. PICK o : o = OwnMethods(c)
  OBVIOUS
<1>5. /\ o \in Seq(Declarations(c)) /\ Listed(o) = Declarations(c) /\ InOrder(o) /\ Followed(o, vtables)
      /\ \A k \in DOMAIN o : o[k].op = "declare"
  BY <1>4, OwnMethodsFacts
<1>6. Declarations(c) \subseteq T /\ Later(c) \subseteq T /\ h \in T
  BY DEF Later
<1>7. h.op = "inherit"
  BY DEF Inherits
<1> HIDE DEF T, h
<1>8. o \in Seq(T) /\ z \in Seq(T)
  BY <1>3, <1>5, <1>6, SeqMore
<1>9. PICK y : y = o \o z
  OBVIOUS
<1>10. y \in Seq(T) /\ Listed(y) = Listed(o) \cup Listed(z)
  BY <1>8, <1>9, ListedJoined
<1>11. InOrder(y)
  <2>1. \A k \in DOMAIN o : o[k].op \notin {"interface", "implement"}
    BY <1>5
  <2> QED
    BY <1>3, <1>5, <1>8, <1>9, <2>1, OrderJoined
<1>12. Followed(y, vtables)
  BY <1>3, <1>5, <1>8, <1>9, FollowedJoined
<1>13. CASE program[c].base = None
  <2>1. Todo(c) = <<>> \o o \o z
    BY <1>1, <1>2, <1>4, <1>13 DEF Todo
  <2>2. <<>> \o o = o
    BY <1>8
  <2>3. s = y
    BY <1>9, <2>1, <2>2
  <2> QED
    BY <1>3, <1>5, <1>10, <1>11, <1>12, <1>13, <2>3
<1>14. CASE program[c].base # None
  <2>1. Todo(c) = <<h>> \o o \o z
    BY <1>1, <1>2, <1>4, <1>14 DEF Todo, h
  <2>2. PICK w \in Seq(T) : w = <<h>>
    <3>1. <<h>> \in Seq(T)
      BY <1>6
    <3> QED
      BY <3>1
  <2>3. (w \o o) \o z = w \o (o \o z)
    BY <1>8
  <2>4. s = w \o y
    BY <1>9, <2>1, <2>2, <2>3
  <2>5. Listed(w \o y) = Listed(w) \cup Listed(y)
    BY <1>10, ListedJoined
  <2>6. Listed(w) = {h}
    BY <2>2, ListedOne
  <2>7. InOrder(<<h>> \o y)
    BY <1>6, <1>7, <1>10, <1>11, OrderLater
  <2>8. Followed(w, vtables)
    <3>1. \A k \in DOMAIN w : w[k].op = "inherit"
      BY <1>7, <2>2
    <3> QED
      BY <3>1 DEF Followed
  <2>9. Followed(w \o y, vtables)
    BY <1>10, <1>12, <2>8, FollowedJoined
  <2> QED
    BY <1>3, <1>5, <1>10, <1>14, <2>2, <2>4, <2>5, <2>6, <2>7, <2>9 DEF h
<1> QED
  BY <1>13, <1>14

LEMMA PassesOn ==
  ASSUME NEW ph, NEW pend, NEW cs, NEW done, Passing(ph, pend, cs, done),
         ph \in {"interfaces", "classes"}, NEW pend2, NEW cs2, NEW done2,
         pend2 \subseteq pend, done \subseteq done2,
         pend \cup done \cup InStack(cs) \subseteq pend2 \cup done2 \cup InStack(cs2),
         ph = "interfaces" => done2 \cup InStack(cs2) \subseteq Interfaces,
         ph = "classes" => InStack(cs2) \cap Interfaces = {}
  PROVE  Passing(ph, pend2, cs2, done2)
<1>1. CASE ph = "interfaces"
  BY <1>1 DEF Passing
<1>2. CASE ph = "classes"
  BY <1>2 DEF Passing
<1> QED
  BY <1>1, <1>2

(* The activation at the top is replaced by one of the same class. *)
Replaced(d, cs, n, z) ==
  /\ cs # <<>> /\ n = Len(cs) /\ z.class = cs[n].class
  /\ d = [cs EXCEPT ![n] = z]

LEMMA StackReplaced ==
  ASSUME NEW T, NEW cs \in Seq(T), NEW n, NEW z, NEW d, Replaced(d, cs, n, z)
  PROVE  InStack(d) = InStack(cs)
<1>0. /\ cs # <<>> /\ n = Len(cs) /\ z.class = cs[n].class
      /\ d = [cs EXCEPT ![n] = z]
  BY DEF Replaced
<1>1. n \in Nat \ {0} /\ DOMAIN cs = 1 .. n
  BY <1>0, EmptySeq, LenProperties
<1>3. DOMAIN d = DOMAIN cs /\ \A k \in DOMAIN cs : d[k] = IF k = n THEN z ELSE cs[k]
  BY <1>0, <1>1
<1>4. \A k \in DOMAIN cs : d[k].class = cs[k].class
  BY <1>0, <1>3
<1> QED
  BY <1>3, <1>4 DEF InStack

LEMMA StackPushed ==
  ASSUME NEW T, NEW cs \in Seq(T), NEW z \in T
  PROVE  InStack(Append(cs, z)) = InStack(cs) \cup {z.class}
<1>1. PICK n \in Nat : n = Len(cs) /\ DOMAIN cs = 1 .. n
  OBVIOUS
<1>2. PICK w : w = Append(cs, z)
  OBVIOUS
<1>3. DOMAIN w = 1 .. n + 1 /\ w[n + 1] = z /\ \A k \in 1 .. n : w[k] = cs[k]
  BY <1>1, <1>2
<1>4. \A k : k \in 1 .. n + 1 <=> k \in 1 .. n \/ k = n + 1
  BY <1>1
<1> QED
  BY <1>1, <1>2, <1>3, <1>4 DEF InStack

LEMMA StackPopped ==
  ASSUME NEW T, NEW cs \in Seq(T), cs # <<>>, NEW z, z = cs[Len(cs)]
  PROVE  InStack(cs) = InStack(Front(cs)) \cup {z.class}
<1>1. PICK n \in Nat \ {0} : n = Len(cs) /\ DOMAIN cs = 1 .. n
  BY EmptySeq, LenProperties
<1>2. PICK w : w = Front(cs)
  OBVIOUS
<1>3. DOMAIN w = 1 .. n - 1 /\ \A k \in 1 .. n - 1 : w[k] = cs[k]
  BY <1>1, <1>2 DEF Front
<1>4. \A k : k \in 1 .. n <=> k \in 1 .. n - 1 \/ k = n
  BY <1>1
<1> QED
  BY <1>1, <1>2, <1>3, <1>4 DEF InStack

LEMMA SamePasses ==
  ASSUME program' = program
  PROVE  /\ \A ph, pend, cs, done : Passing(ph, pend, cs, done)' <=> Passing(ph, pend, cs, done)
         /\ \A m : Modifier(m)' = Modifier(m)
BY SameProgram DEF Passing, InStack, Modifier, Classes, Interfaces

LEMMA PassesConcluded ==
  ASSUME program' = program, Passing(phase', pending', calls', calculated'),
         phase' \in {"layouts", "bound"} => errors' = {},
         AbstractsAreDeclared,
         \A m \in Methods : m.class \notin Interfaces => (m \in is_abstract' <=> m \in is_abstract)
  PROVE  PInv'
<1>1. Passing(phase, pending, calls, calculated)'
  BY DEF Passing, InStack, Classes, Interfaces
<1>2. AbstractsAreDeclared'
  <2>1. Methods' = Methods /\ Interfaces' = Interfaces /\ \A m : Modifier(m)' = Modifier(m)
    BY SamePasses, SameProgram
  <2> QED
    BY <2>1 DEF AbstractsAreDeclared
<1> QED
  BY <1>1, <1>2 DEF PInv

LEMMA PassesStart ==
  ASSUME Init
  PROVE  PInv
<1>1. Passing(phase, pending, calls, calculated)
  BY DEF Init, Passing
<1>2. AbstractsAreDeclared
  BY DEF Init, AbstractsAreDeclared
<1> QED
  BY <1>1, <1>2 DEF PInv, Init

LEMMA PassesFrame ==
  ASSUME PInv, program' = program, phase' = phase, calls' = calls, calculated' = calculated,
         is_abstract' = is_abstract, errors' = errors, pending' = pending \/ phase \in {"members", "layouts", "bound"}
  PROVE  PInv'
<1>1. Passing(phase', pending', calls', calculated')
  BY DEF PInv, Passing
<1> QED
  BY <1>1, PassesConcluded DEF PInv

LEMMA NextPassPasses ==
  ASSUME TInv, PInv, NextPass
  PROVE  PInv'
<1>1. /\ pending = {} /\ calls = <<>> /\ program' = program /\ calls' = calls /\ calculated' = calculated
      /\ is_abstract' = is_abstract /\ errors' = errors
  BY DEF NextPass, tables
<1>2. PICK to \in {Passes[i] : i \in 2 .. 5} :
        /\ Comes(phase, to)
        /\ phase' = IF to = "layouts" /\ errors # {} THEN "refused" ELSE to
        /\ pending' = IF phase' \in {"refused", "bound"} THEN {} ELSE Symbols(to)
  BY DEF NextPass
<1>3. /\ to = "interfaces" => phase = "members"
      /\ to = "classes" => phase = "interfaces"
      /\ to = "layouts" => phase = "classes"
      /\ to = "bound" => phase = "layouts"
      /\ to \in {"interfaces", "classes", "layouts", "bound"}
  BY <1>2 DEF Comes, Passes
<1>4. InStack(calls) = {}
  BY <1>1 DEF InStack
<1>5. Passing(phase, pending, calls, calculated)
  BY DEF PInv
<1>6. Interfaces \subseteq Classes
  BY DEF Interfaces
<1>7. Passing(phase', pending', calls', calculated')
  <2>1. CASE to = "interfaces"
    <3>1. phase' = "interfaces" /\ pending' = Interfaces /\ calculated = {}
      BY <1>2, <1>3, <1>5, <2>1 DEF Symbols, Passing
    <3> QED
      BY <1>1, <1>4, <3>1 DEF Passing
  <2>2. CASE to = "classes"
    <3>1. phase' = "classes" /\ pending' = Classes \ Interfaces /\ Interfaces \subseteq calculated
      BY <1>1, <1>2, <1>3, <1>4, <1>5, <2>2 DEF Symbols, Passing
    <3> QED
      BY <1>1, <1>4, <3>1 DEF Passing
  <2>3. CASE to = "layouts"
    <3>1. phase' \in {"layouts", "refused"} /\ Classes \subseteq calculated
      BY <1>1, <1>2, <1>3, <1>4, <1>5, <2>3 DEF Passing
    <3>2. calculated \subseteq Classes
      BY DEF TInv, TablesOK
    <3> QED
      BY <1>1, <1>4, <3>1, <3>2 DEF Passing
  <2>4. CASE to = "bound"
    <3>1. phase' = "bound" /\ calculated = Classes
      BY <1>2, <1>3, <1>5, <2>4 DEF Passing
    <3> QED
      BY <1>1, <1>4, <3>1 DEF Passing
  <2> QED
    BY <1>3, <2>1, <2>2, <2>3, <2>4
<1>8. phase' \in {"layouts", "bound"} => errors' = {}
  <2>1. CASE to = "bound"
    BY <1>1, <1>3, <2>1 DEF PInv
  <2>2. CASE to # "bound"
    BY <1>1, <1>2, <1>3, <2>2
  <2> QED
    BY <2>1, <2>2
<1> QED
  BY <1>1, <1>7, <1>8, PassesConcluded DEF PInv

(* A step of an activation that stays. *)
LEMMA AdvancePasses ==
  ASSUME TInv, PInv, calls # <<>>, NEW table, calls' = Advance(table), phase \in {"interfaces", "classes"},
         program' = program, phase' = phase, pending' = pending, calculated' = calculated,
         \A m \in Methods : m.class \notin Interfaces => (m \in is_abstract' <=> m \in is_abstract)
  PROVE  PInv' /\ InStack(calls') = InStack(calls)
<1>1. PICK z : z = [class |-> Top.class, todo |-> Tail(Top.todo), table |-> table]
  OBVIOUS
<1>2. PICK n : n = Len(calls)
  OBVIOUS
<1>3. calls' = [calls EXCEPT ![n] = z]
  BY <1>1, <1>2 DEF Advance
<1>a. calls \in Seq(Activations)
  BY DEF TInv, TablesOK
<1>b. Top = calls[n]
  BY <1>2, TopFacts
<1>4. calls \in Seq(Activations) /\ z.class = calls[n].class
  BY <1>1, <1>a, <1>b
<1>5. InStack(calls') = InStack(calls)
  <2>1. PICK w : w = [calls EXCEPT ![n] = z]
    OBVIOUS
  <2>3. Replaced(w, calls, n, z)
    BY <1>2, <1>4, <2>1 DEF Replaced
  <2>2. InStack(w) = InStack(calls)
    BY <1>4, <2>3, StackReplaced
  <2> QED
    BY <1>3, <2>1, <2>2
<1>6. Passing(phase', pending', calls', calculated')
  BY <1>5 DEF PInv, Passing
<1>7. AbstractsAreDeclared
  BY DEF PInv
<1> QED
  BY <1>5, <1>6, <1>7, PassesConcluded

LEMMA TablePasses ==
  ASSUME TInv, LInv, DInv, PInv, phase # "thrown", Table
  PROVE  phase \in {"interfaces", "classes"}
<1>1. phase \notin {"layouts", "bound"} /\ (phase # "members" \/ calls # <<>>)
  BY TableFrame
<1>2. phase # "members"
  BY <1>1 DEF DInv
<1>3. phase # "refused"
  <2> SUFFICES ASSUME phase = "refused" PROVE FALSE
    OBVIOUS
  <2>1. calls = <<>>
    BY DEF PInv, Passing
  <2>2. \E c \in Classes : Begin(c)
    BY <2>1 DEF Table, Recur, Inherit, DeclareMethod, OverridesNothing, OpenInterface, Implement,
                DoesNotImplement, Finish, Doing
  <2> QED
    BY <2>2 DEF Begin
<1>4. phase \in Phases
  BY DEF TInv, TypesOK
<1> QED
  BY <1>1, <1>2, <1>3, <1>4 DEF Phases, Passes

(* Who is on the stack. *)
LEMMA TopOfPass ==
  ASSUME TInv, PInv, calls # <<>>, NEW t, t = Top
  PROVE  /\ phase = "interfaces" => t.class \in Interfaces
         /\ phase = "classes" => t.class \notin Interfaces
<1>1. t.class \in InStack(calls)
  <2>1. PICK n : n = Len(calls)
    OBVIOUS
  <2>2. n \in DOMAIN calls /\ t = calls[n]
    BY <2>1, TopFacts
  <2> QED
    BY <2>2 DEF InStack
<1> QED
  BY <1>1 DEF PInv, Passing

LEMMA BeginPasses ==
  ASSUME TInv, PInv, NEW c \in Classes, Begin(c)
  PROVE  PInv'
<1>1. /\ phase \in {"interfaces", "classes"} /\ calls = <<>> /\ c \in pending /\ pending' = pending \ {c}
      /\ calls' = (IF c \in calculated THEN <<>> ELSE <<Activation(c)>>)
      /\ program' = program /\ phase' = phase /\ calculated' = calculated /\ is_abstract' = is_abstract
      /\ errors' = errors
  BY DEF Begin
<1>2. InStack(<<>>) = {}
  BY DEF InStack
<1>3. CASE c \in calculated
  <2>1. calls' = calls /\ InStack(calls') = {} /\ InStack(calls) = {}
    BY <1>1, <1>2, <1>3
  <2>2. Passing(phase, pending, calls, calculated)
    BY DEF PInv
  <2>3. Passing(phase, pending', calls', calculated)
    BY <1>1, <1>3, <2>1, <2>2 DEF Passing
  <2> QED
    BY <1>1, <2>3, PassesConcluded DEF PInv
<1>4. CASE c \notin calculated
  <2>1. PICK a : a = Activation(c)
    OBVIOUS
  <2>2. a.class = c
    BY <2>1 DEF Activation
  <2>3. InStack(<<a>>) = {c}
    BY <2>2 DEF InStack
  <2>4. InStack(calls') = {c} /\ InStack(calls) = {}
    BY <1>1, <1>2, <1>4, <2>1, <2>3
  <2>5. Passing(phase, pending, calls, calculated)
    BY DEF PInv
  <2>6. Passing(phase, pending', calls', calculated)
    BY <1>1, <2>4, <2>5 DEF Passing
  <2> QED
    BY <1>1, <2>6, PassesConcluded DEF PInv
<1> QED
  BY <1>3, <1>4

LEMMA RecurPasses ==
  ASSUME TInv, PInv, phase \in {"interfaces", "classes"}, Recur
  PROVE  PInv'
<1>1. /\ Doing("inherit") /\ calls' = Append(calls, Activation(Item.from))
      /\ program' = program /\ phase' = phase /\ pending' = pending /\ calculated' = calculated
      /\ is_abstract' = is_abstract /\ errors' = errors
  BY DEF Recur
<1>2. PICK t : t = Top
  OBVIOUS
<1>3. PICK d : d = Item.from
  OBVIOUS
<1>4. PICK h : h = Item
  OBVIOUS
<1>5. /\ calls # <<>> /\ d \in Classes
      /\ t.class \in Interfaces => d \in Interfaces
      /\ t.class \notin Interfaces => program[t.class].base = d
  BY <1>1, <1>2, <1>3, <1>4, ItemFacts
<1>6. program \in Programs /\ t.class \in Classes
  BY <1>2, <1>5, TopFacts DEF TInv, TypesOK
<1>7. t.class \notin Interfaces => d \notin Interfaces
  BY <1>5, <1>6, ProgramFacts
<1>8. PICK a : a = Activation(d)
  OBVIOUS
<1>9. a \in Activations /\ a.class = d
  <2>1. TablesOK(calls, calculated, vtables, CircularityFound)
    BY DEF TInv
  <2> QED
    BY <1>5, <1>6, <1>8, <2>1, ActivationStarts
<1>10. calls \in Seq(Activations)
  BY DEF TInv, TablesOK
<1>11. InStack(calls') = InStack(calls) \cup {d}
  <2>1. InStack(Append(calls, a)) = InStack(calls) \cup {a.class}
    BY <1>9, <1>10, StackPushed
  <2> QED
    BY <1>1, <1>3, <1>8, <1>9, <2>1
<1>12. Passing(phase, pending, calls, calculated)
  BY DEF PInv
<1>13. /\ phase = "interfaces" => t.class \in Interfaces
       /\ phase = "classes" => t.class \notin Interfaces
  BY <1>2, <1>5, TopOfPass
<1>14. Passing(phase, pending, calls', calculated)
  <2>1. phase = "interfaces" => calculated \cup InStack(calls') \subseteq Interfaces
    BY <1>5, <1>11, <1>12, <1>13 DEF Passing
  <2>2. phase = "classes" => InStack(calls') \cap Interfaces = {}
    BY <1>7, <1>11, <1>12, <1>13 DEF Passing
  <2>3. pending \cup calculated \cup InStack(calls) \subseteq pending \cup calculated \cup InStack(calls')
    BY <1>11
  <2> QED
    BY <1>12, <2>1, <2>2, <2>3, PassesOn
<1> QED
  BY <1>1, <1>14, PassesConcluded DEF PInv

LEMMA FinishPasses ==
  ASSUME TInv, PInv, phase \in {"interfaces", "classes"}, Finish
  PROVE  PInv'
<1>1. /\ calls # <<>> /\ calls' = Front(calls) /\ calculated' = calculated \cup {Top.class}
      /\ program' = program /\ phase' = phase /\ pending' = pending /\ is_abstract' = is_abstract
  BY DEF Finish
<1>2. PICK t : t = Top
  OBVIOUS
<1>3. PICK cs : cs = Front(calls)
  OBVIOUS
<1>4. InStack(calls) = InStack(cs) \cup {t.class}
  <2>1. calls \in Seq(Activations)
    BY DEF TInv, TablesOK
  <2>2. t = calls[Len(calls)]
    BY <1>1, <1>2, TopFacts
  <2> QED
    BY <1>1, <1>3, <2>1, <2>2, StackPopped
<1>5. Passing(phase, pending, calls, calculated)
  BY DEF PInv
<1>6. Passing(phase, pending, cs, calculated \cup {t.class})
  <2>1. phase = "interfaces" => calculated \cup {t.class} \cup InStack(cs) \subseteq Interfaces
    BY <1>4, <1>5 DEF Passing
  <2>2. phase = "classes" => InStack(cs) \cap Interfaces = {}
    BY <1>4, <1>5 DEF Passing
  <2>3. pending \cup calculated \cup InStack(calls) \subseteq pending \cup (calculated \cup {t.class}) \cup InStack(cs)
    BY <1>4
  <2> QED
    BY <1>5, <2>1, <2>2, <2>3, PassesOn
<1>7. Passing(phase', pending', calls', calculated')
  BY <1>1, <1>2, <1>3, <1>6
<1> QED
  BY <1>1, <1>7, PassesConcluded DEF PInv

LEMMA PassesInductive ==
  TInv /\ LInv /\ DInv /\ PInv /\ [Next]_vars => PInv'
<1> SUFFICES ASSUME TInv, LInv, DInv, PInv, [Next]_vars PROVE PInv'
  OBVIOUS
<1>1. ASSUME NEW c \in Classes, RegisterMembers(c) PROVE PInv'
  BY <1>1, PassesFrame DEF RegisterMembers, tables
<1>2. ASSUME NEW c \in Classes, LayOut(c) PROVE PInv'
  BY <1>2, PassesFrame DEF LayOut, tables
<1>3. ASSUME NextPass PROVE PInv'
  BY <1>3, NextPassPasses
<1>4. ASSUME UNCHANGED vars PROVE PInv'
  BY <1>4, PassesFrame DEF vars, tables
<1>5. ASSUME phase # "thrown", Table PROVE PInv'
  <2>1. phase \in {"interfaces", "classes"}
    BY <1>5, TablePasses
  <2>2. ASSUME NEW c \in Classes, Begin(c) PROVE PInv'
    BY <2>2, BeginPasses
  <2>3. CASE Recur
    BY <2>1, <2>3, RecurPasses
  <2>4. CASE Inherit
    <3>1. calls # <<>> /\ \E table : calls' = Advance(table)
      BY <2>4 DEF Inherit, Doing
    <3> QED
      BY <2>1, <2>4, <3>1, AdvancePasses DEF Inherit
  <2>5. CASE DeclareMethod
    <3>1. calls # <<>> /\ \E table : calls' = Advance(table)
      BY <2>5 DEF DeclareMethod, Doing, Place
    <3>2. PICK m : m = Item.method
      OBVIOUS
    <3>3. m.class = Top.class
      <4>1. Doing("declare")
        BY <2>5 DEF DeclareMethod
      <4>2. PICK t : t = Top
        OBVIOUS
      <4>3. PICK h : h = Item
        OBVIOUS
      <4>4. h.method.class = t.class
        BY <4>1, <4>2, <4>3, ItemFacts
      <4> QED
        BY <3>2, <4>2, <4>3, <4>4
    <3>4. is_abstract' = IF Top.class \in Interfaces THEN is_abstract \cup {m} ELSE is_abstract
      BY <2>5, <3>2 DEF DeclareMethod
    <3>5. \A x \in Methods : x.class \notin Interfaces => (x \in is_abstract' <=> x \in is_abstract)
      BY <3>3, <3>4
    <3> QED
      BY <2>1, <2>5, <3>1, <3>5, AdvancePasses DEF DeclareMethod
  <2>6. CASE OverridesNothing
    <3>1. phase' = "thrown" /\ program' = program /\ is_abstract' = is_abstract
      BY <2>6 DEF OverridesNothing, tables
    <3>2. Passing(phase', pending', calls', calculated')
      BY <3>1 DEF Passing
    <3> QED
      BY <3>1, <3>2, PassesConcluded DEF PInv
  <2>7. CASE OpenInterface
    <3>1. calls # <<>> /\ \E table : calls' = Advance(table)
      BY <2>7 DEF OpenInterface, Doing
    <3> QED
      BY <2>1, <2>7, <3>1, AdvancePasses DEF OpenInterface
  <2>8. CASE Implement
    <3>1. calls # <<>> /\ \E table : calls' = Advance(table)
      BY <2>8 DEF Implement, Doing, Place
    <3> QED
      BY <2>1, <2>8, <3>1, AdvancePasses DEF Implement
  <2>9. CASE DoesNotImplement
    <3>1. calls # <<>> /\ \E table : calls' = Advance(table)
      BY <2>9 DEF DoesNotImplement, Doing
    <3> QED
      BY <2>1, <2>9, <3>1, AdvancePasses DEF DoesNotImplement
  <2>10. CASE Finish
    BY <2>1, <2>10, FinishPasses
  <2> QED
    BY <1>5, <2>2, <2>3, <2>4, <2>5, <2>6, <2>7, <2>8, <2>9, <2>10 DEF Table
<1> QED
  BY <1>1, <1>2, <1>3, <1>4, <1>5 DEF Next

(* The stack, activation by activation. *)
LEMMA StackEdited ==
  ASSUME NEW T, NEW cs \in Seq(T), cs # <<>>, NEW n, n = Len(cs), NEW z, NEW d, d = [cs EXCEPT ![n] = z]
  PROVE  /\ n \in DOMAIN cs /\ DOMAIN d = DOMAIN cs
         /\ \A k \in DOMAIN d : (k = n /\ d[k] = z) \/ (k # n /\ d[k] = cs[k])
<1>1. n \in DOMAIN cs /\ DOMAIN d = DOMAIN cs
  OBVIOUS
<1>2. \A k \in DOMAIN d : d[k] = IF k = n THEN z ELSE cs[k]
  BY <1>1
<1> QED
  BY <1>1, <1>2

LEMMA StackGrown ==
  ASSUME NEW T, NEW cs \in Seq(T), NEW z \in T, NEW d, d = Append(cs, z)
  PROVE  \A k \in DOMAIN d : d[k] = z \/ (k \in DOMAIN cs /\ d[k] = cs[k])
<1>1. d \in Seq(T) /\ Len(d) = Len(cs) + 1 /\ Len(cs) \in Nat /\ DOMAIN cs = 1 .. Len(cs) /\ DOMAIN d = 1 .. Len(d)
  OBVIOUS
<1>2. \A i \in DOMAIN d : (i \in DOMAIN cs /\ d[i] = cs[i]) \/ (i = Len(d) /\ d[i] = z)
  BY <1>1
<1> QED
  BY <1>2

LEMMA StackShrunk ==
  ASSUME NEW T, NEW cs \in Seq(T), cs # <<>>, NEW d, d = Front(cs)
  PROVE  \A k \in DOMAIN d : k \in DOMAIN cs /\ k # Len(cs) /\ d[k] = cs[k]
<1>1. d = [i \in 1 .. (Len(cs) - 1) |-> cs[i]]
  BY DEF Front
<1>2. PICK n \in Nat : n = Len(cs) /\ DOMAIN cs = 1 .. n
  OBVIOUS
<1>3. d = [i \in 1 .. n - 1 |-> cs[i]]
  BY <1>1, <1>2
<1>4. \A i \in 1 .. n - 1 : i \in 1 .. n /\ i # n
  OBVIOUS
<1> QED
  BY <1>2, <1>3, <1>4

-----------------------------------------------------------------------------
(* Interfaces are collected from the same ones. *)
LEMMA CollectedSame ==
  ASSUME program \in Programs, NEW g \in [Classes -> Seq(Interfaces)], NEW h \in [Classes -> Seq(Interfaces)],
         NEW c \in Classes, \A i \in DOMAIN program[c].implements : g[program[c].implements[i]] = h[program[c].implements[i]],
         c \notin Interfaces /\ program[c].base # None => g[program[c].base] = h[program[c].base]
  PROVE  CollectedOf(g, c) = CollectedOf(h, c)
<1>1. PICK list \in Seq(Interfaces) : list = program[c].implements
  BY ProgramFacts
<1>2. PICK u : Gathers(u, g, list) /\ OwnOf(g, c) = u[Len(list)]
  BY <1>1, OwnSteps
<1>3. PICK v : Gathers(v, h, list) /\ OwnOf(h, c) = v[Len(list)]
  BY <1>1, OwnSteps
<1>4. Len(list) \in Nat /\ DOMAIN list = 1 .. Len(list)
  OBVIOUS
<1> DEFINE S == {i \in Nat : i <= Len(list) => u[i] = v[i]}
<1>5. 0 \in S
  BY <1>2, <1>3 DEF Gathers
<1>6. ASSUME NEW n \in Nat, n \in S PROVE n + 1 \in S
  <2> SUFFICES ASSUME n + 1 <= Len(list) PROVE u[n + 1] = v[n + 1]
    OBVIOUS
  <2>1. n + 1 \in 1 .. Len(list) /\ (n + 1) - 1 = n /\ n <= Len(list)
    BY <1>4
  <2>2. u[n + 1] = u[n] \o g[list[n + 1]] \o <<list[n + 1]>>
    BY <1>2, <2>1 DEF Gathers
  <2>3. v[n + 1] = v[n] \o h[list[n + 1]] \o <<list[n + 1]>>
    BY <1>3, <2>1 DEF Gathers
  <2>4. g[list[n + 1]] = h[list[n + 1]]
    BY <1>1, <1>4, <2>1
  <2>5. u[n] = v[n]
    BY <1>6, <2>1
  <2> QED
    BY <2>2, <2>3, <2>4, <2>5
<1>7. \A n \in Nat : n \in S
  <2> HIDE DEF S
  <2> QED
    BY <1>5, <1>6, Induction
<1>8. u[Len(list)] = v[Len(list)]
  <2>1. Len(list) \in S
    BY <1>4, <1>7
  <2> QED
    BY <1>4, <2>1
<1>9. OwnOf(g, c) = OwnOf(h, c)
  BY <1>2, <1>3, <1>8
<1> QED
  BY <1>9 DEF CollectedOf

LEMMA OneAfter ==
  ASSUME NEW k \in Nat, NEW n \in Nat, n >= k + 1
  PROVE  n - 1 \in Nat /\ n - 1 >= k /\ (n - 1) + 1 = n /\ n >= k
OBVIOUS

(* Those of a class are settled after those it takes them from. *)
LEMMA SettlesNext ==
  ASSUME program \in Programs, NEW done \in SUBSET Classes, AllSettle(done), NEW c \in Classes, c \notin done,
         \A i \in DOMAIN program[c].implements : program[c].implements[i] \in done,
         c \notin Interfaces /\ program[c].base # None => program[c].base \in done
  PROVE  AllSettle(done \cup {c})
<1>1. IsFiniteSet(Classes)
  BY ProgramFacts
<1>2. IsFiniteSet(done)
  BY <1>1, FS_Subset
<1>3. PICK k \in Nat : k = Cardinality(done)
  BY <1>2, FS_CardinalityType
<1>4. Cardinality(done \cup {c}) = k + 1
  BY <1>2, <1>3, FS_AddElement
<1>5. \A x \in done : Settles(x, k)
  BY <1>3 DEF AllSettle
<1>6. \A x \in done, n \in Nat : n >= k => Collected[n][x] = Collected[k][x]
  BY <1>5 DEF Settles
<1>7. ASSUME NEW x \in done PROVE Settles(x, k + 1)
  <2> SUFFICES ASSUME NEW n \in Nat, n >= k + 1 PROVE Collected[n][x] = Collected[k + 1][x]
    BY DEF Settles
  <2>1. n >= k /\ k + 1 \in Nat /\ k + 1 >= k
    BY OneAfter
  <2>2. Collected[n][x] = Collected[k][x] /\ Collected[k + 1][x] = Collected[k][x]
    BY <1>6, <2>1
  <2> QED
    BY <2>2
<1>8. Settles(c, k + 1)
  <2> SUFFICES ASSUME NEW n \in Nat, n >= k + 1 PROVE Collected[n][c] = Collected[k + 1][c]
    BY DEF Settles
  <2>1. PICK m \in Nat : m = n - 1 /\ m + 1 = n /\ m >= k
    BY OneAfter
  <2>2. Collected[m] \in [Classes -> Seq(Interfaces)] /\ Collected[k] \in [Classes -> Seq(Interfaces)]
    BY CollectedAll
  <2>3. Collected[m + 1][c] = CollectedOf(Collected[m], c) /\ Collected[k + 1][c] = CollectedOf(Collected[k], c)
    BY CollectedFacts
  <2>4. \A x \in done : Collected[m][x] = Collected[k][x]
    BY <1>6, <2>1
  <2>5. PICK g \in [Classes -> Seq(Interfaces)] : g = Collected[m]
    BY <2>2
  <2>6. PICK h \in [Classes -> Seq(Interfaces)] : h = Collected[k]
    BY <2>2
  <2>7. \A x \in done : g[x] = h[x]
    BY <2>4, <2>5, <2>6
  <2>8. CollectedOf(g, c) = CollectedOf(h, c)
    BY <2>7, CollectedSame
  <2> QED
    BY <2>1, <2>3, <2>5, <2>6, <2>8
<1> QED
  BY <1>4, <1>7, <1>8 DEF AllSettle

LEMMA AllSettled ==
  ASSUME program \in Programs, AllSettle(Classes)
  PROVE  Saturated
<1>1. PICK k \in Nat : k = Cardinality(Classes)
  BY ClassCount
<1>2. k + 1 \in Nat /\ k + 1 >= k
  BY <1>1
<1>3. \A c \in Classes : Collected[k + 1][c] = Collected[k][c]
  BY <1>1, <1>2 DEF AllSettle, Settles
<1> QED
  BY <1>1, <1>3 DEF Saturated, AllInterfaces

-----------------------------------------------------------------------------
(* The interfaces of classes depend on the program only. *)
CollectedIn(p) ==
  CHOOSE g : g =
    [n \in Nat |->
      [c \in DOMAIN p |->
         IF n = 0 THEN <<>>
         ELSE LET own == FoldLeft(LAMBDA seen, i : seen \o g[n - 1][i] \o <<i>>,
                                  <<>>, p[c].implements)
              IN  IF c \in {x \in DOMAIN p : p[x].kind = "interface"} \/ p[c].base = None THEN own
                  ELSE own \o g[n - 1][p[c].base]]]

LEMMA CollectedByProgram ==
  Collected = CollectedIn(program)
BY DEF Collected, CollectedIn, Interfaces, Classes

LEMMA SameCollected ==
  program' = program => Collected' = Collected
<1>1. (Collected = CollectedIn(program))'
  BY CollectedByProgram, PTL
<1> QED
  BY <1>1, CollectedByProgram

LEMMA SameSettling ==
  ASSUME program' = program
  PROVE  /\ \A done : AllSettle(done)' <=> AllSettle(done)
         /\ \A a, done : TakesAll(a, done)' <=> TakesAll(a, done)
<1>1. Interfaces' = Interfaces /\ Collected' = Collected
  BY SameCollected DEF Interfaces, Classes
<1> QED
  BY <1>1 DEF AllSettle, Settles, TakesAll

LEMMA SettlingConcluded ==
  ASSUME program' = program,
         errors' = {} => AllSettle(calculated') /\ \A k \in DOMAIN calls' : TakesAll(calls'[k], calculated')
  PROVE  SInv'
<1>1. Interfaces' = Interfaces /\ Collected' = Collected
  BY SameCollected DEF Interfaces, Classes
<1> QED
  BY <1>1 DEF SInv, AllSettle, Settles, TakesAll

LEMMA SettlingStays ==
  ASSUME SInv, program' = program, calls' = calls, calculated' = calculated, errors' = errors
  PROVE  SInv'
BY SettlingConcluded DEF SInv

LEMMA SettlingStarts ==
  ASSUME Init
  PROVE  SInv
<1>1. AllSettle({})
  BY DEF AllSettle
<1> QED
  BY <1>1 DEF SInv, Init

(* An activation that starts has all to take over. *)
LEMMA NewTakesAll ==
  ASSUME program \in Programs, NEW c \in Classes, NEW a, a = Activation(c), NEW done
  PROVE  TakesAll(a, done)
<1>1. a.class = c /\ a.todo = Todo(c)
  BY DEF Activation
<1>2. ASSUME c \in Interfaces
      PROVE  \A i \in DOMAIN program[c].implements : Inherits(program[c].implements[i]) \in Listed(Todo(c))
  <2>1. PICK list : list = program[c].implements
    OBVIOUS
  <2>2. Listed(Todo(c)) = {Inherits(list[i]) : i \in DOMAIN list} \cup Declarations(c)
    BY <1>2, <2>1, InterfaceTodoStarts
  <2> QED
    BY <2>1, <2>2
<1> QED
  BY <1>1, <1>2 DEF TakesAll

LEMMA BeginSettling ==
  ASSUME TInv, SInv, NEW c \in Classes, Begin(c)
  PROVE  SInv'
<1>1. /\ program' = program /\ calculated' = calculated /\ errors' = errors /\ calls = <<>>
      /\ calls' = (IF c \in calculated THEN <<>> ELSE <<Activation(c)>>)
  BY DEF Begin
<1>2. PICK a : a = Activation(c)
  OBVIOUS
<1>3. TakesAll(a, calculated)
  BY <1>2, NewTakesAll DEF TInv, TypesOK
<1>4. \A k \in DOMAIN calls' : calls'[k] = a
  BY <1>1, <1>2
<1> QED
  BY <1>1, <1>3, <1>4, SettlingConcluded DEF SInv

LEMMA RecurSettling ==
  ASSUME TInv, SInv, Recur
  PROVE  SInv'
<1>1. /\ Doing("inherit") /\ calls' = Append(calls, Activation(Item.from))
      /\ program' = program /\ calculated' = calculated /\ errors' = errors
  BY DEF Recur
<1>2. PICK t : t = Top
  OBVIOUS
<1>3. PICK h : h = Item
  OBVIOUS
<1>4. PICK d : d = h.from
  OBVIOUS
<1>5. d \in Classes
  BY <1>1, <1>2, <1>3, <1>4, ItemFacts
<1>6. PICK a : a = Activation(d)
  OBVIOUS
<1>7. program \in Programs
  BY DEF TInv, TypesOK
<1>8. TakesAll(a, calculated)
  BY <1>5, <1>6, <1>7, NewTakesAll
<1>9. a \in Activations
  <2>1. TablesOK(calls, calculated, vtables, CircularityFound)
    BY DEF TInv
  <2> QED
    BY <1>5, <1>6, <1>7, <2>1, ActivationStarts
<1>10. calls \in Seq(Activations)
  BY DEF TInv, TablesOK
<1>11. PICK w : w = Append(calls, a)
  OBVIOUS
<1>12. \A k \in DOMAIN w : w[k] = a \/ (k \in DOMAIN calls /\ w[k] = calls[k])
  BY <1>9, <1>10, <1>11, StackGrown
<1>13. calls' = w
  BY <1>1, <1>3, <1>4, <1>6, <1>11
<1> QED
  BY <1>1, <1>8, <1>12, <1>13, SettlingConcluded DEF SInv

LEMMA AdvanceSettling ==
  ASSUME TInv, SInv, calls # <<>>, NEW t, t = Top, t.todo # <<>>, NEW h, h = Item,
         NEW table, calls' = Advance(table), program' = program, calculated' = calculated,
         errors' = {} => errors = {} /\ (h.op = "inherit" => h.from \in calculated)
  PROVE  SInv'
<1>1. PICK z : z = [class |-> t.class, todo |-> Tail(t.todo), table |-> table]
  OBVIOUS
<1>2. PICK n : n = Len(calls)
  OBVIOUS
<1>3. PICK w : w = [calls EXCEPT ![n] = z]
  OBVIOUS
<1>4. calls' = w
  BY <1>1, <1>2, <1>3 DEF Advance
<1>5. calls \in Seq(Activations)
  BY DEF TInv, TablesOK
<1>6. \A k \in DOMAIN w : (k = n /\ w[k] = z) \/ (k # n /\ w[k] = calls[k])
  BY <1>2, <1>3, <1>5, StackEdited
<1>7. n \in DOMAIN calls /\ DOMAIN w = DOMAIN calls
  BY <1>2, <1>3, <1>5, StackEdited
<1>8. t = calls[n] /\ t.todo \in Seq(Items)
  BY <1>2, TopFacts
<1>9. PICK s : s = Tail(t.todo)
  OBVIOUS
<1>a. h = Head(t.todo)
  BY DEF Item
<1>b. PICK y \in Seq(Items) : y = t.todo
  BY <1>8
<1>c. Splits(y, h, s)
  BY <1>9, <1>a, <1>b DEF Splits
<1>d. Listed(y) = {h} \cup Listed(s)
  BY <1>c, RestListed
<1>10. Listed(t.todo) = {h} \cup Listed(s)
  BY <1>b, <1>d
<1>11. ASSUME errors' = {}, TakesAll(t, calculated) PROVE TakesAll(z, calculated)
  <2> SUFFICES ASSUME t.class \in Interfaces, NEW i \in DOMAIN program[t.class].implements
               PROVE  program[t.class].implements[i] \in calculated
                        \/ Inherits(program[t.class].implements[i]) \in Listed(s)
    BY <1>1, <1>9 DEF TakesAll
  <2>1. PICK x : x = program[t.class].implements[i]
    OBVIOUS
  <2>2. x \in calculated \/ Inherits(x) \in Listed(t.todo)
    BY <1>11, <2>1 DEF TakesAll
  <2>3. ASSUME Inherits(x) = h PROVE x \in calculated
    BY <1>11, <2>3 DEF Inherits
  <2> QED
    BY <1>10, <2>1, <2>2, <2>3
<1>12. ASSUME errors' = {} PROVE AllSettle(calculated) /\ \A k \in DOMAIN w : TakesAll(w[k], calculated)
  <2>1. AllSettle(calculated) /\ \A k \in DOMAIN calls : TakesAll(calls[k], calculated)
    BY <1>12 DEF SInv
  <2>2. TakesAll(z, calculated)
    BY <1>7, <1>8, <1>11, <1>12, <2>1
  <2> QED
    BY <1>6, <1>7, <2>1, <2>2
<1> QED
  BY <1>4, <1>12, SettlingConcluded

LEMMA FinishSettling ==
  ASSUME TInv, PInv, SInv, phase \in {"interfaces", "classes"}, Finish
  PROVE  SInv'
<1>1. /\ calls # <<>> /\ Top.todo = <<>> /\ calls' = Front(calls) /\ calculated' = calculated \cup {Top.class}
      /\ program' = program /\ errors \subseteq errors'
  BY DEF Finish
<1>2. PICK t : t = Top
  OBVIOUS
<1>3. PICK w : w = Front(calls)
  OBVIOUS
<1>4. PICK n : n = Len(calls)
  OBVIOUS
<1>5. /\ n \in DOMAIN calls /\ t = calls[n] /\ t.class \in Classes /\ t.class \notin calculated
      /\ CircularityFound \/ Based(t, calculated, vtables)
  BY <1>1, <1>2, <1>4, TopFacts
<1>6. calls \in Seq(Activations) /\ calculated \in SUBSET Classes
  BY DEF TInv, TablesOK
<1>7. \A k \in DOMAIN w : k \in DOMAIN calls /\ w[k] = calls[k]
  BY <1>1, <1>3, <1>6, StackShrunk
<1>8. PICK c : c = t.class
  OBVIOUS
<1>9. ASSUME errors' = {} PROVE AllSettle(calculated \cup {c})
  <2>1. errors = {}
    BY <1>1, <1>9
  <2>2. AllSettle(calculated) /\ TakesAll(t, calculated)
    BY <1>5, <2>1 DEF SInv
  <2>3. ~CircularityFound
    BY <2>1 DEF CircularityFound
  <2>4. Based(t, calculated, vtables)
    BY <1>5, <2>3
  <2>5. program[c].base # None => program[c].base \in calculated
    BY <1>1, <1>2, <1>8, <2>4 DEF Based
  <2>6. program \in Programs
    BY DEF TInv, TypesOK
  <2>7. \A i \in DOMAIN program[c].implements : program[c].implements[i] \in Interfaces
    BY <1>5, <1>8, <2>6, ProgramFacts
  <2>8. ASSUME NEW i \in DOMAIN program[c].implements PROVE program[c].implements[i] \in calculated
    <3>1. CASE c \in Interfaces
      <4>1. Listed(t.todo) = {}
        BY <1>1, <1>2, ListedOne
      <4> QED
        BY <1>8, <2>2, <3>1, <4>1 DEF TakesAll
    <3>2. CASE c \notin Interfaces
      <4>1. phase = "classes"
        BY <1>1, <1>2, <1>8, <3>2, TopOfPass
      <4>2. Interfaces \subseteq calculated
        BY <4>1 DEF PInv, Passing
      <4> QED
        BY <2>7, <4>2
    <3> QED
      BY <3>1, <3>2
  <2> QED
    BY <1>5, <1>6, <1>8, <2>2, <2>5, <2>6, <2>8, SettlesNext
<1>10. ASSUME errors' = {}, NEW k \in DOMAIN w PROVE TakesAll(w[k], calculated \cup {c})
  <2>1. TakesAll(calls[k], calculated)
    BY <1>1, <1>7, <1>10 DEF SInv
  <2> QED
    BY <1>7, <1>10, <2>1 DEF TakesAll
<1>11. calls' = w /\ calculated' = calculated \cup {c}
  BY <1>1, <1>2, <1>3, <1>8
<1> QED
  BY <1>1, <1>9, <1>10, <1>11, SettlingConcluded

LEMMA SettlingInductive ==
  TInv /\ LInv /\ DInv /\ PInv /\ SInv /\ [Next]_vars => SInv'
<1> SUFFICES ASSUME TInv, LInv, DInv, PInv, SInv, [Next]_vars PROVE SInv'
  OBVIOUS
<1>1. ASSUME NEW c \in Classes, RegisterMembers(c) PROVE SInv'
  BY <1>1, SettlingStays DEF RegisterMembers, tables
<1>2. ASSUME NEW c \in Classes, LayOut(c) PROVE SInv'
  BY <1>2, SettlingStays DEF LayOut, tables
<1>3. ASSUME NextPass PROVE SInv'
  BY <1>3, SettlingStays DEF NextPass, tables
<1>4. ASSUME UNCHANGED vars PROVE SInv'
  BY <1>4, SettlingStays DEF vars, tables
<1>5. ASSUME phase # "thrown", Table PROVE SInv'
  <2>1. phase \in {"interfaces", "classes"}
    BY <1>5, TablePasses
  <2> PICK t : t = Top
    OBVIOUS
  <2> PICK h : h = Item
    OBVIOUS
  <2>2. ASSUME NEW c \in Classes, Begin(c) PROVE SInv'
    BY <2>2, BeginSettling
  <2>3. CASE Recur
    BY <2>3, RecurSettling
  <2>4. ASSUME NEW op, Doing(op) PROVE calls # <<>> /\ t.todo # <<>> /\ h.op = op
    BY <2>4 DEF Doing, Item
  <2>5. CASE Inherit
    <3>1. Doing("inherit") /\ program' = program /\ calculated' = calculated
      BY <2>5 DEF Inherit
    <3>2. errors' = {} => errors = {} /\ h.from \in calculated
      BY <2>5 DEF Inherit
    <3>3. PICK table : calls' = Advance(table)
      BY <2>5 DEF Inherit
    <3>4. calls # <<>> /\ t.todo # <<>>
      BY <2>4, <3>1
    <3> QED
      BY <3>1, <3>2, <3>3, <3>4, AdvanceSettling
  <2>6. ASSUME NEW op \in {"declare", "interface", "implement"}, Doing(op), NEW table, calls' = Advance(table),
               program' = program, calculated' = calculated, errors \subseteq errors'
        PROVE  SInv'
    <3>1. calls # <<>> /\ t.todo # <<>> /\ h.op # "inherit"
      BY <2>4, <2>6
    <3>2. errors' = {} => errors = {} /\ (h.op = "inherit" => h.from \in calculated)
      BY <2>6, <3>1
    <3> QED
      BY <2>6, <3>1, <3>2, AdvanceSettling
  <2>7. CASE DeclareMethod
    <3>1. PICK table : calls' = Advance(table)
      BY <2>7 DEF DeclareMethod, Place
    <3> QED
      BY <2>6, <2>7, <3>1 DEF DeclareMethod
  <2>8. CASE OverridesNothing
    BY <2>8, SettlingStays DEF OverridesNothing, tables
  <2>9. CASE OpenInterface
    <3>1. PICK table : calls' = Advance(table)
      BY <2>9 DEF OpenInterface
    <3> QED
      BY <2>6, <2>9, <3>1 DEF OpenInterface
  <2>10. CASE Implement
    <3>1. PICK table : calls' = Advance(table)
      BY <2>10 DEF Implement, Place
    <3> QED
      BY <2>6, <2>10, <3>1 DEF Implement
  <2>11. CASE DoesNotImplement
    <3>1. PICK table : calls' = Advance(table)
      BY <2>11 DEF DoesNotImplement
    <3>2. errors \subseteq errors'
      BY <2>11 DEF DoesNotImplement
    <3> QED
      BY <2>6, <2>11, <3>1, <3>2 DEF DoesNotImplement
  <2>12. CASE Finish
    BY <2>1, <2>12, FinishSettling
  <2> QED
    BY <1>5, <2>2, <2>3, <2>5, <2>7, <2>8, <2>9, <2>10, <2>11, <2>12 DEF Table
<1> QED
  BY <1>1, <1>2, <1>3, <1>4, <1>5 DEF Next

LEMMA SettlingInvariant ==
  Spec => [](TInv /\ LInv /\ DInv /\ PInv /\ SInv)
<1>1. Init => TInv /\ LInv /\ DInv /\ PInv /\ SInv
  BY InitTables, LayoutStarts, DestructorsStart, PassesStart, SettlingStarts
<1>2. TInv /\ LInv /\ DInv /\ PInv /\ SInv /\ [Next]_vars => (TInv /\ LInv /\ DInv /\ PInv /\ SInv)'
  BY TablesInductive, LayoutInductive, DestructorsInductive, PassesInductive, SettlingInductive
<1> QED
  BY <1>1, <1>2, PTL DEF Spec

-----------------------------------------------------------------------------
(* Tables that dispatch.  A method of the class itself is still to come: its
   declaration, or an interface that asks for it. *)
Due(c, s, D, vt) ==
  /\ Declares(c, s)
  /\ \/ Modifier(Own(c, s)) # "plain" /\ Declare(Own(c, s)) \in D
     \/ /\ Modifier(Own(c, s)) = "plain"
        /\ \E i \in Gathered(c) : \E n \in DOMAIN vt[i] : vt[i][n].signature = s /\ Fills(i, n) \in D

(* What is at a position of the table of a class, or due to replace it. *)
Entry(c, T, p, D, vi, iv, vt) ==
  /\ T[p] \in iv /\ T[p].class \notin Interfaces
  /\ T[p] = Declaring(c, T[p].signature) \/ Due(c, T[p].signature, D, vt)
  /\ T[p].class = c => vi[T[p]] = p
  /\ T[p].class # c => Replaceable(program[c].base, T[p].signature)
Entries(c, T, D, vi, iv, vt) == Unique(T) /\ \A p \in DOMAIN T : Entry(c, T, p, D, vi, iv, vt)

(* The methods that are chosen by the object have a position. *)
Covered(c, T, D, vt) ==
  \A m \in Methods : m.class = c /\ ByObject(m, c) =>
    (\E p \in DOMAIN T : T[p] = m) \/ Due(c, m.signature, D, vt)

(* The interface tables of a class lead to positions with the signatures
   asked for, all of them if it can be instantiated. *)
Leads(row, T, vt) ==
  \A i \in DOMAIN row :
    /\ DOMAIN row[i] = DOMAIN vt[i]
    /\ \A n \in DOMAIN vt[i] :
         row[i][n] = 0 \/ (row[i][n] \in DOMAIN T /\ T[row[i][n]].signature = vt[i][n].signature)
Full(c, row, D, vt) ==
  /\ \A i \in DOMAIN row : i \in Gathered(c)
  /\ \A i \in Gathered(c) : Opens(i) \in D \/ i \in DOMAIN row
  /\ program[c].kind = "class" =>
       \A i \in Gathered(c) : Opens(i) \in D \/ \A n \in DOMAIN vt[i] : Fills(i, n) \in D \/ row[i][n] # 0

(* What is to be done fits what was done. *)
Fits(c, T, D, row, vt) ==
  \A x \in D :
    /\ x.op = "inherit" => T = <<>> /\ row = <<>>
    /\ x.op = "declare" => \A p \in DOMAIN T : T[p] # x.method
    /\ x.op \in {"interface", "implement"} => x.interface \in Gathered(c)
    /\ x.op = "implement" => x.index \in DOMAIN vt[x.interface]

ClassOK(c, T, D, row, vi, iv, vt) ==
  /\ Entries(c, T, D, vi, iv, vt) /\ Covered(c, T, D, vt)
  /\ Leads(row, T, vt) /\ Full(c, row, D, vt) /\ Fits(c, T, D, row, vt)

(* The table of an interface has its own methods. *)
InterfaceOK(c, T, D, vi, iv) ==
  /\ \A p \in DOMAIN T : T[p].class \in {c} \cup Gathered(c)
  /\ \A m \in Methods : m.class = c =>
       \/ Declare(m) \in D
       \/ m \in iv /\ vi[m] \in DOMAIN T /\ T[vi[m]].signature = m.signature
  /\ \A x \in D : x.op = "inherit" => x.from \in Gathered(c)

Instantiable(c, T) ==
  program[c].kind = "class" => \A p \in DOMAIN T : Modifier(T[p]) # "abstract"
Ready(c, vt, it, vi, iv) ==
  IF c \in Interfaces THEN InterfaceOK(c, vt[c], {}, vi, iv)
  ELSE ClassOK(c, vt[c], {}, it[c], vi, iv, vt) /\ Instantiable(c, vt[c])
Busy(a, vt, it, vi, iv) ==
  IF a.class \in Interfaces THEN InterfaceOK(a.class, a.table, Listed(a.todo), vi, iv)
  ELSE /\ ClassOK(a.class, a.table, Listed(a.todo), it[a.class], vi, iv, vt)
       /\ InOrder(a.todo) /\ Followed(a.todo, vt)
Chosen(iv) == \A m \in iv : m.class \notin Interfaces => ByObject(m, m.class)
Unstarted(cs, done, it) == \A c \in Classes : c \notin done \cup InStack(cs) => it[c] = <<>>

Good(cs, done, vt, it, vi, iv) ==
  /\ Chosen(iv)
  /\ \A c \in done : Ready(c, vt, it, vi, iv)
  /\ \A k \in DOMAIN cs : Busy(cs[k], vt, it, vi, iv)
  /\ Unstarted(cs, done, it)
GInv ==
  /\ DOMAIN itables = Classes
  /\ Tame /\ errors = {} /\ phase # "thrown" =>
       Good(calls, calculated, vtables, itables, vtable_index, is_virtual)

-----------------------------------------------------------------------------
(* One method put at a position. *)
LEMMA DueLater ==
  ASSUME NEW c, NEW s, NEW D, NEW E, NEW h, NEW vt, Due(c, s, D, vt), D \subseteq {h} \cup E,
         h = Declare(Own(c, s)) => Modifier(Own(c, s)) = "plain",
         Modifier(Own(c, s)) = "plain" => \A i, n : h = Fills(i, n) => vt[i][n].signature # s
  PROVE  Due(c, s, E, vt)
<1>1. CASE Modifier(Own(c, s)) # "plain"
  BY <1>1 DEF Due
<1>2. CASE Modifier(Own(c, s)) = "plain"
  <2>1. PICK i \in Gathered(c) : \E n \in DOMAIN vt[i] : vt[i][n].signature = s /\ Fills(i, n) \in D
    BY <1>2 DEF Due
  <2>2. PICK n \in DOMAIN vt[i] : vt[i][n].signature = s /\ Fills(i, n) \in D
    BY <2>1
  <2>3. Fills(i, n) # h
    BY <1>2, <2>2
  <2>4. Fills(i, n) \in E
    BY <2>2, <2>3
  <2>5. \E j \in Gathered(c) : \E k \in DOMAIN vt[j] : vt[j][k].signature = s /\ Fills(j, k) \in E
    BY <2>2, <2>4
  <2>6. Declares(c, s)
    BY DEF Due
  <2> QED
    BY <1>2, <2>5, <2>6 DEF Due
<1> QED
  BY <1>1, <1>2

Puts(T, U, slot, m) ==
  /\ Unique(U) /\ slot \in DOMAIN U /\ U[slot] = m
  /\ \A p \in DOMAIN U : p = slot \/ (p \in DOMAIN T /\ U[p] = T[p])
  /\ \A p \in DOMAIN T : p \in DOMAIN U /\ U[p].signature = T[p].signature

LEMMA PutsSame ==
  ASSUME NEW T, Unique(T), NEW slot \in DOMAIN T, NEW m, T[slot] = m
  PROVE  Puts(T, T, slot, m)
BY DEF Puts

LEMMA PutsPlaced ==
  ASSUME NEW T \in Seq(Methods), Unique(T), NEW m \in Methods, NEW slot,
         (slot = Len(T) + 1 /\ Missing(T, m)) \/ (slot \in DOMAIN T /\ T[slot].signature = m.signature),
         NEW U, U = Placed(T, slot, m)
  PROVE  Puts(T, U, slot, m) /\ U \in Seq(Methods) /\ slot \in Nat /\ slot # 0
<1>1. PICK n \in Nat : n = Len(T) /\ DOMAIN T = 1 .. n
  OBVIOUS
<1>2. slot \in Nat /\ slot # 0
  <2>1. CASE slot = n + 1
    BY <2>1
  <2>2. CASE slot \in 1 .. n
    BY <2>2
  <2> QED
    BY <1>1, <2>1, <2>2
<1>3. /\ U \in Seq(Methods) /\ ExtendsTable(T, U) /\ Unique(U) /\ slot \in DOMAIN U /\ U[slot] = m
  BY <1>2, PlacedFacts
<1>4. \A p \in DOMAIN U : p = slot \/ (p \in DOMAIN T /\ U[p] = T[p])
  <2>1. CASE slot = n + 1
    <3>1. U = Append(T, m)
      BY <1>1, <2>1 DEF Placed
    <3>2. DOMAIN U = 1 .. n + 1 /\ \A p \in 1 .. n : U[p] = T[p]
      BY <1>1, <3>1
    <3> QED
      BY <1>1, <2>1, <3>2
  <2>2. CASE slot # n + 1
    <3>1. U = [T EXCEPT ![slot] = m]
      BY <1>1, <2>2 DEF Placed
    <3> QED
      BY <3>1
  <2> QED
    BY <2>1, <2>2
<1>5. \A p \in DOMAIN T : p \in DOMAIN U /\ U[p].signature = T[p].signature
  <2>1. Len(T) <= Len(U) /\ \A p \in 1 .. Len(T) : U[p].signature = T[p].signature
    BY <1>3 DEF ExtendsTable
  <2>2. PICK k \in Nat : k = Len(U) /\ DOMAIN U = 1 .. k
    BY <1>3
  <2>3. n <= k
    BY <1>1, <2>1, <2>2
  <2>4. \A p \in 1 .. n : p \in 1 .. k
    BY <2>3
  <2> QED
    BY <1>1, <2>1, <2>2, <2>4
<1> QED
  BY <1>2, <1>3, <1>4, <1>5 DEF Puts

(* What becomes of the numbers and flags of methods. *)
Numbers(m, slot, vi, iv, vi2, iv2) ==
  /\ iv \subseteq iv2 /\ m \in iv2
  /\ \A x \in Methods : x # m => vi2[x] = vi[x]
Goes(c, m, D, E, vt) == \A s : s # m.signature /\ Due(c, s, D, vt) => Due(c, s, E, vt)
Wins(c, m) ==
  /\ m \in Methods /\ m.class \notin Interfaces /\ m = Declaring(c, m.signature)
  /\ m.class # c => Replaceable(program[c].base, m.signature)

LEMMA PutEntries ==
  ASSUME NEW c, NEW T \in Seq(Methods), NEW U, NEW slot, NEW m, Puts(T, U, slot, m), Wins(c, m),
         NEW D, NEW E, NEW vt, Goes(c, m, D, E, vt),
         NEW vi, NEW iv, NEW vi2, NEW iv2, Entries(c, T, D, vi, iv, vt),
         Numbers(m, slot, vi, iv, vi2, iv2), m.class = c => vi2[m] = slot
  PROVE  Entries(c, U, E, vi2, iv2, vt)
<1>1. Entry(c, U, slot, E, vi2, iv2, vt)
  BY DEF Entry, Puts, Wins, Numbers
<1>2. ASSUME NEW p \in DOMAIN U, p # slot PROVE Entry(c, U, p, E, vi2, iv2, vt)
  <2>1. p \in DOMAIN T /\ U[p] = T[p]
    BY <1>2 DEF Puts
  <2>2. U[p].signature # m.signature
    <3>1. slot \in DOMAIN U /\ U[slot] = m /\ Unique(U)
      BY DEF Puts
    <3> QED
      BY <1>2, <3>1 DEF Unique
  <2>3. PICK x \in Methods : x = T[p]
    BY <2>1
  <2>4. Entry(c, T, p, D, vi, iv, vt)
    BY <2>1 DEF Entries
  <2>5. x \in iv2 /\ vi2[x] = vi[x]
    BY <2>1, <2>2, <2>3, <2>4 DEF Entry, Numbers
  <2>6. x = Declaring(c, x.signature) \/ Due(c, x.signature, E, vt)
    BY <2>1, <2>2, <2>3, <2>4 DEF Entry, Goes
  <2> QED
    BY <2>1, <2>3, <2>4, <2>5, <2>6 DEF Entry
<1>3. Unique(U)
  BY DEF Puts
<1> QED
  BY <1>1, <1>2, <1>3 DEF Entries

LEMMA PutCovered ==
  ASSUME program \in Programs, NEW c, Straight(c), NEW T, NEW U, NEW slot, NEW m, Puts(T, U, slot, m), Wins(c, m),
         NEW D, NEW E, NEW vt, Goes(c, m, D, E, vt), Covered(c, T, D, vt)
  PROVE  Covered(c, U, E, vt)
<1> SUFFICES ASSUME NEW x \in Methods, x.class = c, ByObject(x, c)
             PROVE  (\E p \in DOMAIN U : U[p] = x) \/ Due(c, x.signature, E, vt)
  BY DEF Covered
<1>1. (\E p \in DOMAIN T : T[p] = x) \/ Due(c, x.signature, D, vt)
  BY DEF Covered
<1>2. CASE x.signature = m.signature
  <2>1. Declares(c, x.signature) /\ x = Own(c, x.signature)
    BY MethodParts
  <2>2. PICK s : s = m.signature
    OBVIOUS
  <2>3. m = Declaring(c, s)
    BY <2>2 DEF Wins
  <2>4. Declares(c, s) => m = Own(c, s)
    BY <2>3, DeclaringFacts
  <2>5. m = x
    BY <1>2, <2>1, <2>2, <2>4
  <2> QED
    BY <2>5 DEF Puts
<1>3. CASE x.signature # m.signature
  <2>1. ASSUME NEW p \in DOMAIN T, T[p] = x PROVE p \in DOMAIN U /\ U[p] = x
    <3>1. p \in DOMAIN U /\ U[p].signature = x.signature
      BY <2>1 DEF Puts
    <3>2. p # slot
      BY <1>3, <3>1 DEF Puts
    <3> QED
      BY <2>1, <3>1, <3>2 DEF Puts
  <2>2. Due(c, x.signature, D, vt) => Due(c, x.signature, E, vt)
    BY <1>3 DEF Goes
  <2> QED
    BY <1>1, <2>1, <2>2
<1> QED
  BY <1>2, <1>3

LEMMA PutLeads ==
  ASSUME NEW T, NEW U, NEW slot, NEW m, Puts(T, U, slot, m), NEW row, NEW vt, Leads(row, T, vt)
  PROVE  Leads(row, U, vt)
<1>1. \A p \in DOMAIN T : p \in DOMAIN U /\ U[p].signature = T[p].signature
  BY DEF Puts
<1> QED
  BY <1>1 DEF Leads

-----------------------------------------------------------------------------
(* The other classes. *)
Beside(c, vi, iv, vi2, iv2) == iv \subseteq iv2 /\ \A m \in Methods : m.class # c => vi2[m] = vi[m]

LEMMA ClassStays ==
  ASSUME NEW x, NEW T \in Seq(Methods), NEW D, NEW row, NEW vi, NEW iv, NEW vt, ClassOK(x, T, D, row, vi, iv, vt),
         NEW c, x # c, NEW vi2, NEW iv2, Beside(c, vi, iv, vi2, iv2),
         NEW vt2, \A i \in Gathered(x) : vt2[i] = vt[i]
  PROVE  ClassOK(x, T, D, row, vi2, iv2, vt2)
<1>1. \A s : Due(x, s, D, vt) => Due(x, s, D, vt2)
  BY DEF Due
<1>2. ASSUME NEW p \in DOMAIN T PROVE Entry(x, T, p, D, vi2, iv2, vt2)
  <2>1. PICK m \in Methods : m = T[p]
    OBVIOUS
  <2>2. Entry(x, T, p, D, vi, iv, vt)
    BY DEF ClassOK, Entries
  <2>3. m \in iv2 /\ (m.class = x => vi2[m] = vi[m])
    BY <2>1, <2>2 DEF Entry, Beside
  <2> QED
    BY <1>1, <2>1, <2>2, <2>3 DEF Entry
<1>3. Entries(x, T, D, vi2, iv2, vt2)
  BY <1>2 DEF ClassOK, Entries
<1>4. Covered(x, T, D, vt2)
  BY <1>1 DEF ClassOK, Covered
<1>5. \A i \in DOMAIN row : i \in Gathered(x)
  BY DEF ClassOK, Full
<1>6. Leads(row, T, vt2)
  BY <1>5 DEF ClassOK, Leads
<1>7. Full(x, row, D, vt2)
  BY DEF ClassOK, Full
<1>8. Fits(x, T, D, row, vt2)
  BY DEF ClassOK, Fits
<1> QED
  BY <1>3, <1>4, <1>6, <1>7, <1>8 DEF ClassOK

LEMMA InterfaceStays ==
  ASSUME NEW x, NEW T, NEW D, NEW vi, NEW iv, InterfaceOK(x, T, D, vi, iv),
         NEW c, x # c, NEW vi2, NEW iv2, Beside(c, vi, iv, vi2, iv2)
  PROVE  InterfaceOK(x, T, D, vi2, iv2)
<1>1. ASSUME NEW m \in Methods, m.class = x
      PROVE  \/ Declare(m) \in D
             \/ m \in iv2 /\ vi2[m] \in DOMAIN T /\ T[vi2[m]].signature = m.signature
  <2>1. vi2[m] = vi[m] /\ (m \in iv => m \in iv2)
    BY <1>1 DEF Beside
  <2> QED
    BY <1>1, <2>1 DEF InterfaceOK
<1> QED
  BY <1>1 DEF InterfaceOK

LEMMA ReadyStays ==
  ASSUME program \in Programs, NEW x \in Classes, NEW vi, NEW iv, NEW vt, NEW it, vt[x] \in Seq(Methods),
         Ready(x, vt, it, vi, iv),
         NEW c, x # c, NEW vi2, NEW iv2, Beside(c, vi, iv, vi2, iv2),
         NEW vt2, vt2[x] = vt[x], \A i \in Interfaces : x \notin Interfaces => vt2[i] = vt[i],
         NEW it2, it2[x] = it[x]
  PROVE  Ready(x, vt2, it2, vi2, iv2)
<1>1. PICK T : T = vt[x]
  OBVIOUS
<1>2. PICK row : row = it[x]
  OBVIOUS
<1>3. CASE x \in Interfaces
  <2>1. InterfaceOK(x, T, {}, vi, iv)
    BY <1>1, <1>3 DEF Ready
  <2>2. InterfaceOK(x, T, {}, vi2, iv2)
    BY <2>1, InterfaceStays
  <2> QED
    BY <1>1, <1>3, <2>2 DEF Ready
<1>4. CASE x \notin Interfaces
  <2>1. ClassOK(x, T, {}, row, vi, iv, vt) /\ Instantiable(x, T) /\ T \in Seq(Methods)
    BY <1>1, <1>2, <1>4 DEF Ready
  <2>2. \A i \in Gathered(x) : vt2[i] = vt[i]
    BY <1>4, GatheredType
  <2>3. ClassOK(x, T, {}, row, vi2, iv2, vt2)
    BY <2>1, <2>2, ClassStays
  <2> QED
    BY <1>1, <1>2, <1>4, <2>1, <2>3 DEF Ready
<1> QED
  BY <1>3, <1>4

LEMMA BusyStays ==
  ASSUME program \in Programs, NEW a \in Activations, NEW vi, NEW iv, NEW vt, NEW it,
         Busy(a, vt, it, vi, iv),
         NEW c, a.class # c, NEW vi2, NEW iv2, Beside(c, vi, iv, vi2, iv2),
         NEW vt2, \A i \in Interfaces : a.class \notin Interfaces => vt2[i] = vt[i],
         NEW it2, it2[a.class] = it[a.class]
  PROVE  Busy(a, vt2, it2, vi2, iv2)
<1>1. PICK T : T = a.table
  OBVIOUS
<1>2. PICK row : row = it[a.class]
  OBVIOUS
<1>3. PICK x : x = a.class
  OBVIOUS
<1>4. PICK todo : todo = a.todo
  OBVIOUS
<1>5. PICK D : D = Listed(todo)
  OBVIOUS
<1>6. T \in Seq(Methods) /\ x \in Classes
  BY <1>1, <1>3 DEF Activations
<1>7. CASE x \in Interfaces
  <2>1. InterfaceOK(x, T, D, vi, iv)
    BY <1>1, <1>3, <1>4, <1>5, <1>7 DEF Busy
  <2>2. InterfaceOK(x, T, D, vi2, iv2)
    BY <1>3, <2>1, InterfaceStays
  <2> QED
    BY <1>1, <1>3, <1>4, <1>5, <1>7, <2>2 DEF Busy
<1>8. CASE x \notin Interfaces
  <2>1. ClassOK(x, T, D, row, vi, iv, vt) /\ InOrder(todo) /\ Followed(todo, vt)
    BY <1>1, <1>2, <1>3, <1>4, <1>5, <1>8 DEF Busy
  <2>2. \A i \in Gathered(x) : vt2[i] = vt[i]
    BY <1>3, <1>6, <1>8, GatheredType
  <2>3. ClassOK(x, T, D, row, vi2, iv2, vt2)
    BY <1>3, <1>6, <2>1, <2>2, ClassStays
  <2>4. \A k \in DOMAIN todo : todo[k].op = "interface" => todo[k].interface \in Gathered(x)
    BY <1>5, <2>1 DEF ClassOK, Fits, Listed
  <2>5. Followed(todo, vt2)
    BY <2>1, <2>2, <2>4 DEF Followed
  <2>6. it2[x] = row
    BY <1>2, <1>3
  <2> QED
    BY <1>1, <1>3, <1>4, <1>5, <1>8, <2>1, <2>3, <2>5, <2>6 DEF Busy
<1> QED
  BY <1>7, <1>8

-----------------------------------------------------------------------------
(* The invariant in the next state. *)
FirstAt(found, c) == IF found = {} THEN None ELSE Above[CHOOSE n \in found : \A k \in found : n <= k][c]
Steps(c, s) == {n \in Heights : Above[n][c] # None /\ Declares(Above[n][c], s)}
LEMMA DeclaringAt ==
  \A c, s : Declaring(c, s) = Own(FirstAt(Steps(c, s), c), s)
BY DEF Declaring, First, FirstAt, Steps, Own

LEMMA SameDispatch ==
  program' = program =>
    /\ Tame' <=> Tame
    /\ \A cs, done, vt, it, vi, iv : Good(cs, done, vt, it, vi, iv)' <=> Good(cs, done, vt, it, vi, iv)
<1> SUFFICES ASSUME program' = program
             PROVE  /\ Tame' <=> Tame
                    /\ \A cs, done, vt, it, vi, iv : Good(cs, done, vt, it, vi, iv)' <=> Good(cs, done, vt, it, vi, iv)
  OBVIOUS
<1>1. /\ Classes' = Classes /\ Interfaces' = Interfaces /\ Methods' = Methods
      /\ Above' = Above /\ Heights' = Heights /\ Collected' = Collected
  BY SameProgram, SameCollected
<1>2. /\ \A c : AllInterfaces(c)' = AllInterfaces(c)
      /\ \A c : Lineage(c)' = Lineage(c)
      /\ \A m : Modifier(m)' = Modifier(m)
      /\ \A c, s : Declares(c, s)' <=> Declares(c, s)
      /\ Signatures' = Signatures
  BY <1>1 DEF AllInterfaces, Lineage, Modifier, Declares, Signatures
<1>3. /\ \A c : Gathered(c)' = Gathered(c)
      /\ \A c : InterfaceSignatures(c)' = InterfaceSignatures(c)
  BY <1>1, <1>2 DEF Gathered, InterfaceSignatures
<1>4. \A m, c : ByObject(m, c)' <=> ByObject(m, c)
  BY <1>1, <1>2, <1>3 DEF ByObject
<1>5. \A c, s : Replaceable(c, s)' <=> Replaceable(c, s)
  BY <1>1, <1>2, <1>4 DEF Replaceable
<1>6. \A c, s : Declaring(c, s)' = Declaring(c, s)
  <2>1. (\A c, s : Declaring(c, s) = Own(FirstAt(Steps(c, s), c), s))'
    BY DeclaringAt, PTL
  <2>2. \A c, s : Steps(c, s)' = Steps(c, s)
    BY <1>1, <1>2 DEF Steps
  <2>3. \A found, c : FirstAt(found, c)' = FirstAt(found, c)
    BY <1>1 DEF FirstAt
  <2>4. \A c, s : Declaring(c, s)' = Own(FirstAt(Steps(c, s), c)', s)
    BY <2>1 DEF Own
  <2> QED
    BY <2>2, <2>3, <2>4, DeclaringAt
<1>7. Hides' <=> Hides
  BY <1>1, <1>2, <1>3, <1>5 DEF Hides
<1>8. InheritsImplementation' <=> InheritsImplementation
  BY <1>1, <1>3, <1>4, <1>6 DEF InheritsImplementation
<1>9. Saturated' <=> Saturated
  BY <1>1, <1>2 DEF Saturated
<1>10. \A c : Straight(c)' <=> Straight(c)
  BY <1>1 DEF Straight
<1>11. Tame' <=> Tame
  BY <1>1, <1>7, <1>8, <1>9, <1>10 DEF Tame
<1>12. \A c, s, D, vt : Due(c, s, D, vt)' <=> Due(c, s, D, vt)
  BY <1>2, <1>3 DEF Due
<1>13. \A c, T, D, vi, iv, vt : Entries(c, T, D, vi, iv, vt)' <=> Entries(c, T, D, vi, iv, vt)
  BY <1>1, <1>5, <1>6, <1>12 DEF Entries, Entry
<1>14. \A c, T, D, vt : Covered(c, T, D, vt)' <=> Covered(c, T, D, vt)
  BY <1>1, <1>4, <1>12 DEF Covered
<1>15. \A c, row, D, vt : Full(c, row, D, vt)' <=> Full(c, row, D, vt)
  BY <1>3 DEF Full
<1>16. \A c, T, D, row, vt : Fits(c, T, D, row, vt)' <=> Fits(c, T, D, row, vt)
  BY <1>3 DEF Fits
<1>17. \A c, T, D, row, vi, iv, vt : ClassOK(c, T, D, row, vi, iv, vt)' <=> ClassOK(c, T, D, row, vi, iv, vt)
  BY <1>13, <1>14, <1>15, <1>16 DEF ClassOK
<1>18. \A c, T, D, vi, iv : InterfaceOK(c, T, D, vi, iv)' <=> InterfaceOK(c, T, D, vi, iv)
  BY <1>1, <1>3 DEF InterfaceOK
<1>19. \A c, T : Instantiable(c, T)' <=> Instantiable(c, T)
  BY <1>2 DEF Instantiable
<1>20. \A c, vt, it, vi, iv : Ready(c, vt, it, vi, iv)' <=> Ready(c, vt, it, vi, iv)
  BY <1>1, <1>17, <1>18, <1>19 DEF Ready
<1>21. \A a, vt, it, vi, iv : Busy(a, vt, it, vi, iv)' <=> Busy(a, vt, it, vi, iv)
  BY <1>1, <1>17, <1>18 DEF Busy
<1>22. \A iv : Chosen(iv)' <=> Chosen(iv)
  BY <1>1, <1>4 DEF Chosen
<1>23. \A cs, done, it : Unstarted(cs, done, it)' <=> Unstarted(cs, done, it)
  BY <1>1 DEF Unstarted
<1>24. \A cs, done, vt, it, vi, iv : Good(cs, done, vt, it, vi, iv)' <=> Good(cs, done, vt, it, vi, iv)
  BY <1>20, <1>21, <1>22, <1>23 DEF Good
<1> QED
  BY <1>11, <1>24

LEMMA DispatchConcluded ==
  ASSUME program' = program, DOMAIN itables' = Classes,
         Tame /\ errors' = {} /\ phase' # "thrown" =>
           Good(calls', calculated', vtables', itables', vtable_index', is_virtual')
  PROVE  GInv'
<1>1. Classes' = Classes
  BY SameProgram
<1>2. Tame' <=> Tame
  BY SameDispatch
<1>3. Tame /\ errors' = {} /\ phase' # "thrown" =>
        Good(calls, calculated, vtables, itables, vtable_index, is_virtual)'
  BY SameDispatch
<1> QED
  BY <1>1, <1>2, <1>3 DEF GInv

LEMMA DispatchStays ==
  ASSUME GInv, program' = program, tables' = tables, errors' = errors, phase' = phase \/ phase # "thrown"
  PROVE  GInv'
<1>1. /\ calls' = calls /\ calculated' = calculated /\ vtables' = vtables /\ itables' = itables
      /\ vtable_index' = vtable_index /\ is_virtual' = is_virtual
  BY DEF tables
<1> QED
  BY <1>1, DispatchConcluded DEF GInv

LEMMA DispatchStarts ==
  ASSUME Init
  PROVE  GInv
<1>1. /\ calls = <<>> /\ calculated = {} /\ itables = [c \in Classes |-> <<>>]
      /\ is_virtual = {m \in Methods : Modifier(m) = "virtual"}
  BY DEF Init
<1>2. Chosen(is_virtual)
  BY <1>1 DEF Chosen, ByObject
<1>3. Unstarted(calls, calculated, itables)
  BY <1>1 DEF Unstarted
<1> QED
  BY <1>1, <1>2, <1>3 DEF GInv, Good

(* An activation goes on: only its own class changes. *)
Advances(z, t, table) == z = [class |-> t.class, todo |-> Tail(t.todo), table |-> table]

LEMMA AdvancedStack ==
  ASSUME TInv, calls # <<>>, NEW t, t = Top, NEW table, NEW z, Advances(z, t, table), NEW w, w = Advance(table)
  PROVE  /\ DOMAIN w = DOMAIN calls /\ InStack(w) = InStack(calls)
         /\ \E n \in DOMAIN calls : t = calls[n] /\ \A k \in DOMAIN w : (k = n /\ w[k] = z) \/ (k # n /\ w[k] = calls[k])
<1>1. PICK n : n = Len(calls)
  OBVIOUS
<1>2. w = [calls EXCEPT ![n] = z]
  BY <1>1 DEF Advance, Advances
<1>3. calls \in Seq(Activations)
  BY DEF TInv, TablesOK
<1>4. n \in DOMAIN calls /\ t = calls[n]
  BY <1>1, TopFacts
<1>5. \A k \in DOMAIN w : (k = n /\ w[k] = z) \/ (k # n /\ w[k] = calls[k])
  BY <1>1, <1>2, <1>3, StackEdited
<1>6. DOMAIN w = DOMAIN calls
  BY <1>1, <1>2, <1>3, StackEdited
<1>7. z.class = calls[n].class
  BY <1>4 DEF Advances
<1>9. Replaced(w, calls, n, z)
  BY <1>1, <1>2, <1>4, <1>7, EmptySeq DEF Replaced
<1>8. InStack(w) = InStack(calls)
  BY <1>3, <1>9, StackReplaced
<1> QED
  BY <1>4, <1>5, <1>6, <1>8

LEMMA DispatchAdvances ==
  ASSUME TInv, GInv, phase # "thrown", calls # <<>>, NEW t, t = Top, NEW c, c = t.class,
         NEW table, calls' = Advance(table), NEW z, Advances(z, t, table),
         program' = program, calculated' = calculated, vtables' = vtables, DOMAIN itables' = Classes,
         \A x \in Classes : x # c => itables'[x] = itables[x],
         Tame /\ errors' = {} => /\ errors = {} /\ Chosen(is_virtual')
                                 /\ Beside(c, vtable_index, is_virtual, vtable_index', is_virtual')
                                 /\ Busy(z, vtables, itables', vtable_index', is_virtual')
  PROVE  GInv'
<1>1. PICK w : w = Advance(table)
  OBVIOUS
<1>3. calls' = w
  BY <1>1
<1>4. /\ calls \in Seq(Activations) /\ vtables \in [Classes -> Seq(Methods)] /\ calculated \in SUBSET Classes
      /\ \A i, j \in DOMAIN calls : calls[i].class = calls[j].class => i = j
      /\ \A i \in DOMAIN calls : calls[i].class \notin calculated
  BY DEF TInv, TablesOK
<1>7. DOMAIN w = DOMAIN calls /\ InStack(w) = InStack(calls)
  BY <1>1, AdvancedStack
<1>2. PICK n \in DOMAIN calls : t = calls[n] /\ \A k \in DOMAIN w : (k = n /\ w[k] = z) \/ (k # n /\ w[k] = calls[k])
  BY <1>1, AdvancedStack
<1>5. n \in DOMAIN calls /\ t = calls[n]
  BY <1>2
<1>6. \A k \in DOMAIN w : (k = n /\ w[k] = z) \/ (k # n /\ w[k] = calls[k])
  BY <1>2
<1>8. program \in Programs
  BY DEF TInv, TypesOK
<1>9. ASSUME Tame, errors' = {} PROVE Good(w, calculated, vtables, itables', vtable_index', is_virtual')
  <2>1. Good(calls, calculated, vtables, itables, vtable_index, is_virtual)
    BY <1>9 DEF GInv
  <2>2. /\ Chosen(is_virtual') /\ Beside(c, vtable_index, is_virtual, vtable_index', is_virtual')
        /\ Busy(z, vtables, itables', vtable_index', is_virtual')
    BY <1>9
  <2>3. ASSUME NEW x \in calculated PROVE Ready(x, vtables, itables', vtable_index', is_virtual')
    <3>1. x \in Classes /\ x # c /\ Ready(x, vtables, itables, vtable_index, is_virtual)
      BY <1>4, <1>5, <2>1 DEF Good
    <3>2. vtables[x] \in Seq(Methods) /\ itables'[x] = itables[x]
      BY <1>4, <3>1
    <3>3. PICK vi2 : vi2 = vtable_index'
      OBVIOUS
    <3>4. PICK iv2 : iv2 = is_virtual'
      OBVIOUS
    <3>5. PICK it2 : it2 = itables'
      OBVIOUS
    <3>6. Beside(c, vtable_index, is_virtual, vi2, iv2) /\ it2[x] = itables[x]
      BY <2>2, <3>2, <3>3, <3>4, <3>5
    <3>7. Ready(x, vtables, it2, vi2, iv2)
      BY <1>8, <3>1, <3>2, <3>6, ReadyStays
    <3> QED
      BY <3>3, <3>4, <3>5, <3>7
  <2>4. ASSUME NEW k \in DOMAIN w PROVE Busy(w[k], vtables, itables', vtable_index', is_virtual')
    <3>1. CASE k = n
      BY <1>6, <2>2, <3>1
    <3>2. CASE k # n
      <4>1. PICK a \in Activations : a = calls[k] /\ a = w[k]
        BY <1>4, <1>6, <1>7, <3>2
      <4>2. a.class # c /\ a.class \in Classes /\ Busy(a, vtables, itables, vtable_index, is_virtual)
        BY <1>4, <1>5, <1>7, <2>1, <3>2, <4>1 DEF Good, Activations
      <4>3. PICK vi2 : vi2 = vtable_index'
        OBVIOUS
      <4>4. PICK iv2 : iv2 = is_virtual'
        OBVIOUS
      <4>5. PICK it2 : it2 = itables'
        OBVIOUS
      <4>6. Beside(c, vtable_index, is_virtual, vi2, iv2) /\ it2[a.class] = itables[a.class]
        BY <2>2, <4>2, <4>3, <4>4, <4>5
      <4>7. Busy(a, vtables, it2, vi2, iv2)
        BY <1>8, <4>2, <4>6, BusyStays
      <4> QED
        BY <4>1, <4>3, <4>4, <4>5, <4>7
    <3> QED
      BY <3>1, <3>2
  <2>5. Unstarted(w, calculated, itables')
    <3>3. c \in InStack(calls)
      BY <1>5 DEF InStack
    <3>4. Unstarted(calls, calculated, itables)
      BY <2>1 DEF Good
    <3> QED
      BY <1>7, <3>3, <3>4 DEF Unstarted
  <2> QED
    BY <2>2, <2>3, <2>4, <2>5 DEF Good
<1>10. Tame /\ errors' = {} /\ phase' # "thrown" =>
         Good(calls', calculated', vtables', itables', vtable_index', is_virtual')
  BY <1>3, <1>9
<1> QED
  BY <1>10, DispatchConcluded

(* An activation starts. *)
LEMMA DispatchPushes ==
  ASSUME TInv, GInv, phase # "thrown", NEW a \in Activations, calls' = Append(calls, a),
         program' = program, calculated' = calculated, vtables' = vtables, itables' = itables,
         vtable_index' = vtable_index, is_virtual' = is_virtual, errors' = errors,
         Tame /\ errors = {} => Busy(a, vtables, itables, vtable_index, is_virtual)
  PROVE  GInv'
<1>1. PICK w : w = Append(calls, a)
  OBVIOUS
<1>2. calls \in Seq(Activations)
  BY DEF TInv, TablesOK
<1>3. \A k \in DOMAIN w : w[k] = a \/ (k \in DOMAIN calls /\ w[k] = calls[k])
  BY <1>1, <1>2, StackGrown
<1>4. InStack(w) = InStack(calls) \cup {a.class}
  BY <1>1, <1>2, StackPushed
<1>5. ASSUME Tame, errors = {} PROVE Good(w, calculated, vtables, itables, vtable_index, is_virtual)
  <2>1. Good(calls, calculated, vtables, itables, vtable_index, is_virtual)
    BY <1>5 DEF GInv
  <2>2. Unstarted(w, calculated, itables)
    BY <1>4, <2>1 DEF Good, Unstarted
  <2>3. \A k \in DOMAIN w : Busy(w[k], vtables, itables, vtable_index, is_virtual)
    BY <1>3, <1>5, <2>1 DEF Good
  <2> QED
    BY <2>1, <2>2, <2>3 DEF Good
<1>6. Tame /\ errors' = {} /\ phase' # "thrown" =>
         Good(calls', calculated', vtables', itables', vtable_index', is_virtual')
  BY <1>1, <1>5
<1>7. DOMAIN itables' = Classes
  BY DEF GInv
<1> QED
  BY <1>6, <1>7, DispatchConcluded

(* The table of a class is ready. *)
Apart(done, c, vt, vt2) ==
  /\ c \notin done /\ (c \in Interfaces => done \subseteq Interfaces)
  /\ \A x \in Classes : x # c => vt2[x] = vt[x]
AllReady(done, vt, it, vi, iv) == \A x \in done : Ready(x, vt, it, vi, iv)
Bystanders(A, c, vt, vt2) ==
  /\ A \in SUBSET Activations /\ \A a \in A : a.class # c /\ (c \in Interfaces => a.class \in Interfaces)
  /\ \A x \in Classes : x # c => vt2[x] = vt[x]
EachBusy(A, vt, it, vi, iv) == \A a \in A : Busy(a, vt, it, vi, iv)

LEMMA OthersReady ==
  ASSUME program \in Programs, NEW done \in SUBSET Classes, NEW vt \in [Classes -> Seq(Methods)], NEW it, NEW vi, NEW iv,
         AllReady(done, vt, it, vi, iv), NEW c, NEW vt2, Apart(done, c, vt, vt2)
  PROVE  AllReady(done, vt2, it, vi, iv)
<1> SUFFICES ASSUME NEW x \in done PROVE Ready(x, vt2, it, vi, iv)
  BY DEF AllReady
<1>1. PICK it2 : it2 = it
  OBVIOUS
<1>2. x \in Classes /\ x # c /\ vt[x] \in Seq(Methods) /\ vt2[x] = vt[x] /\ it2[x] = it[x] /\ Ready(x, vt, it, vi, iv)
  BY <1>1 DEF Apart, AllReady
<1>3. Beside(c, vi, iv, vi, iv)
  BY DEF Beside
<1>4. \A i \in Interfaces : x \notin Interfaces => vt2[i] = vt[i]
  BY ProgramFacts DEF Apart
<1>5. Ready(x, vt2, it2, vi, iv)
  BY <1>2, <1>3, <1>4, ReadyStays
<1> QED
  BY <1>1, <1>5

LEMMA OthersBusy ==
  ASSUME program \in Programs, NEW A, NEW vt \in [Classes -> Seq(Methods)], NEW it, NEW vi, NEW iv,
         EachBusy(A, vt, it, vi, iv), NEW c, NEW vt2, Bystanders(A, c, vt, vt2)
  PROVE  EachBusy(A, vt2, it, vi, iv)
<1> SUFFICES ASSUME NEW a \in A PROVE Busy(a, vt2, it, vi, iv)
  BY DEF EachBusy
<1>1. PICK it2 : it2 = it
  OBVIOUS
<1>2. a \in Activations /\ a.class # c /\ it2[a.class] = it[a.class] /\ Busy(a, vt, it, vi, iv)
  BY <1>1 DEF EachBusy, Bystanders
<1>3. Beside(c, vi, iv, vi, iv)
  BY DEF Beside
<1>4. \A i \in Interfaces : a.class \notin Interfaces => vt2[i] = vt[i]
  BY ProgramFacts DEF Bystanders
<1>5. Busy(a, vt2, it2, vi, iv)
  BY <1>2, <1>3, <1>4, BusyStays
<1> QED
  BY <1>1, <1>5

(* An activation ends, with the table it has built. *)
Renews(vt, c, table) == vt = [vtables EXCEPT ![c] = table]

LEMMA DispatchPops ==
  ASSUME TInv, PInv, GInv, phase \in {"interfaces", "classes"}, calls # <<>>, NEW t, t = Top, NEW c, c = t.class,
         calls' = Front(calls), program' = program, calculated' = calculated \cup {c},
         NEW vt, Renews(vt, c, t.table), vtables' = vt, itables' = itables,
         vtable_index' = vtable_index, is_virtual' = is_virtual,
         Tame /\ errors' = {} => errors = {} /\ Ready(c, vt, itables, vtable_index, is_virtual)
  PROVE  GInv'
<1>1. PICK n : n = Len(calls)
  OBVIOUS
<1>2. PICK w : w = Front(calls)
  OBVIOUS
<1>3. /\ calls \in Seq(Activations) /\ vtables \in [Classes -> Seq(Methods)] /\ calculated \in SUBSET Classes
      /\ \A i, j \in DOMAIN calls : calls[i].class = calls[j].class => i = j
      /\ \A i \in DOMAIN calls : calls[i].class \notin calculated
  BY DEF TInv, TablesOK
<1>4. n \in DOMAIN calls /\ t = calls[n] /\ c \in Classes
  BY <1>1, TopFacts
<1>5. \A k \in DOMAIN w : k \in DOMAIN calls /\ k # n /\ w[k] = calls[k]
  BY <1>1, <1>2, <1>3, StackShrunk
<1>6. InStack(calls) = InStack(w) \cup {c}
  BY <1>1, <1>2, <1>3, <1>4, StackPopped
<1>7. program \in Programs
  BY DEF TInv, TypesOK
<1>8. \A x \in Classes : x # c => vt[x] = vtables[x]
  BY <1>3 DEF Renews
<1>9. phase = "classes" => c \notin Interfaces
  BY TopOfPass
<1>10. phase = "interfaces" => calculated \subseteq Interfaces /\ \A k \in DOMAIN calls : calls[k].class \in Interfaces
  <2>1. Passing(phase, pending, calls, calculated)
    BY DEF PInv
  <2>2. \A k \in DOMAIN calls : calls[k].class \in InStack(calls)
    BY DEF InStack
  <2> QED
    BY <2>1, <2>2 DEF Passing
<1>12. Interfaces \subseteq Classes
  BY <1>7, ProgramFacts
<1>13. ASSUME Tame, errors' = {} PROVE Good(w, calculated \cup {c}, vt, itables, vtable_index, is_virtual)
  <2>1. Good(calls, calculated, vtables, itables, vtable_index, is_virtual)
    BY <1>13 DEF GInv
  <2>2. Ready(c, vt, itables, vtable_index, is_virtual)
    BY <1>13
  <2>3. AllReady(calculated, vt, itables, vtable_index, is_virtual)
    <3>1. AllReady(calculated, vtables, itables, vtable_index, is_virtual)
      BY <2>1 DEF Good, AllReady
    <3>2. Apart(calculated, c, vtables, vt)
      BY <1>3, <1>4, <1>8, <1>9, <1>10 DEF Apart
    <3>3. vtables \in [Classes -> Seq(Methods)] /\ calculated \in SUBSET Classes
      BY <1>3
    <3> QED
      BY <1>7, <3>1, <3>2, <3>3, OthersReady
  <2>4. \A k \in DOMAIN w : Busy(w[k], vt, itables, vtable_index, is_virtual)
    <3>1. PICK A : A = {w[k] : k \in DOMAIN w}
      OBVIOUS
    <3>2. ASSUME NEW a \in A PROVE a \in Activations /\ a.class # c /\ Busy(a, vtables, itables, vtable_index, is_virtual)
      <4>1. PICK k \in DOMAIN w : a = w[k]
        BY <3>1
      <4> QED
        BY <1>3, <1>4, <1>5, <2>1, <4>1 DEF Good
    <3>3. c \in Interfaces => \A a \in A : a.class \in Interfaces
      BY <1>5, <1>9, <1>10, <3>1
    <3>4. Bystanders(A, c, vtables, vt)
      BY <1>8, <3>2, <3>3 DEF Bystanders
    <3>5. EachBusy(A, vtables, itables, vtable_index, is_virtual)
      BY <3>2 DEF EachBusy
    <3>a. vtables \in [Classes -> Seq(Methods)]
      BY <1>3
    <3>6. EachBusy(A, vt, itables, vtable_index, is_virtual)
      BY <1>7, <3>4, <3>5, <3>a, OthersBusy
    <3> QED
      BY <3>1, <3>6 DEF EachBusy
  <2>5. Unstarted(w, calculated \cup {c}, itables)
    BY <1>6, <2>1 DEF Good, Unstarted
  <2> QED
    BY <2>1, <2>2, <2>3, <2>4, <2>5 DEF Good, AllReady
<1>14. Tame /\ errors' = {} /\ phase' # "thrown" =>
         Good(calls', calculated', vtables', itables', vtable_index', is_virtual')
  BY <1>2, <1>13
<1>15. DOMAIN itables' = Classes
  BY DEF GInv
<1> QED
  BY <1>14, <1>15, DispatchConcluded

-----------------------------------------------------------------------------
(* An activation starts with nothing done. *)
Asked(vt, vi, iv) == \A i \in Interfaces : InterfaceOK(i, vt[i], {}, vi, iv)

LEMMA MethodDeclared ==
  ASSUME NEW m \in Methods
  PROVE  Declare(m) \in Declarations(m.class) /\ Own(m.class, m.signature) = m
<1>1. PICK c \in Classes : m \in {Method(c, i) : i \in DOMAIN program[c].methods}
  BY DEF Methods
<1>2. PICK i \in DOMAIN program[c].methods : m = Method(c, i)
  BY <1>1
<1>3. m.class = c
  BY <1>2 DEF Method
<1>4. Own(m.class, m.signature) = m
  BY MethodParts
<1> QED
  BY <1>2, <1>3, <1>4 DEF Declarations

LEMMA DeclarationsOf ==
  ASSUME NEW c \in Classes, NEW x \in Declarations(c)
  PROVE  x.op = "declare" /\ x.method \in Methods /\ x.method.class = c /\ x = Declare(x.method)
<1>1. PICK i \in DOMAIN program[c].methods : x = Declare(Method(c, i))
  BY DEF Declarations
<1>2. Method(c, i) \in Methods /\ Method(c, i).class = c
  BY MethodIn
<1> QED
  BY <1>1, <1>2 DEF Declare

(* An interface that is ready has a position for each of its signatures. *)
LEMMA AskedFor ==
  ASSUME NEW vt, NEW vi, NEW iv, Asked(vt, vi, iv), NEW i \in Interfaces, NEW s, Declares(i, s)
  PROVE  /\ Own(i, s) \in iv /\ vi[Own(i, s)] \in DOMAIN vt[i]
         /\ vt[i][vi[Own(i, s)]].signature = s
<1>1. Own(i, s) \in Methods /\ Own(i, s).class = i /\ Own(i, s).signature = s
  BY DeclaredOne DEF Own
<1>2. InterfaceOK(i, vt[i], {}, vi, iv)
  BY DEF Asked
<1> QED
  BY <1>1, <1>2 DEF InterfaceOK

LEMMA OpeningHas ==
  ASSUME NEW c, NEW vt
  PROVE  /\ \A i \in Gathered(c) : Opens(i) \in Opening(c, vt) /\ \A n \in DOMAIN vt[i] : Fills(i, n) \in Opening(c, vt)
         /\ \A x \in Opening(c, vt) : \E i \in Gathered(c) : x = Opens(i) \/ \E n \in DOMAIN vt[i] : x = Fills(i, n)
BY DEF Opening, Filling

LEMMA ClassStarts ==
  ASSUME program \in Programs, NEW c \in Classes, c \notin Interfaces, Straight(c),
         NEW vt, NEW vi, NEW iv, Asked(vt, vi, iv), NEW D, Declarations(c) \cup Opening(c, vt) \subseteq D,
         \A x \in D : x.op = "inherit" \/ x \in Declarations(c) \/ x \in Opening(c, vt)
  PROVE  ClassOK(c, <<>>, D, <<>>, vi, iv, vt)
<1>1. Entries(c, <<>>, D, vi, iv, vt)
  BY DEF Entries, Unique
<1>2. ASSUME NEW m \in Methods, m.class = c, ByObject(m, c) PROVE Due(c, m.signature, D, vt)
  <2>1. Own(c, m.signature) = m /\ Declares(c, m.signature)
    BY <1>2, MethodParts
  <2>2. CASE Modifier(m) # "plain"
    <3>1. Declare(m) \in D
      BY <1>2, MethodDeclared
    <3> QED
      BY <2>1, <2>2, <3>1 DEF Due
  <2>3. CASE Modifier(m) = "plain"
    <3>1. m.signature \in InterfaceSignatures(c)
      BY <1>2, <2>3, PlainByObject
    <3>2. PICK i \in Gathered(c) : Declares(i, m.signature)
      BY <3>1, PromisedBy
    <3>3. i \in Interfaces
      BY GatheredType
    <3>5. vi[Own(i, m.signature)] \in DOMAIN vt[i] /\ vt[i][vi[Own(i, m.signature)]].signature = m.signature
      BY <3>2, <3>3, AskedFor
    <3>6. Fills(i, vi[Own(i, m.signature)]) \in D
      BY <3>5, OpeningHas
    <3> QED
      BY <2>1, <2>3, <3>5, <3>6 DEF Due
  <2> QED
    BY <2>2, <2>3
<1>3. Covered(c, <<>>, D, vt)
  BY <1>2 DEF Covered
<1>4. Leads(<<>>, <<>>, vt)
  BY DEF Leads
<1>5. Full(c, <<>>, D, vt)
  BY OpeningHas DEF Full
<1>6. ASSUME NEW x \in D
      PROVE  /\ x.op \in {"interface", "implement"} => x.interface \in Gathered(c)
             /\ x.op = "implement" => x.index \in DOMAIN vt[x.interface]
  <2>1. CASE x.op = "inherit"
    BY <2>1
  <2>2. CASE x \in Declarations(c)
    BY <2>2, DeclarationsOf
  <2>3. CASE x \in Opening(c, vt)
    <3>1. PICK i \in Gathered(c) : x = Opens(i) \/ \E n \in DOMAIN vt[i] : x = Fills(i, n)
      BY <2>3, OpeningHas
    <3>2. CASE x = Opens(i)
      BY <3>2 DEF Opens
    <3>3. CASE \E n \in DOMAIN vt[i] : x = Fills(i, n)
      BY <3>3 DEF Fills
    <3> QED
      BY <3>1, <3>2, <3>3
  <2> QED
    BY <2>1, <2>2, <2>3
<1>7. Fits(c, <<>>, D, <<>>, vt)
  BY <1>6 DEF Fits
<1> QED
  BY <1>1, <1>3, <1>4, <1>5, <1>7 DEF ClassOK

LEMMA InterfaceStarts ==
  ASSUME program \in Programs, Saturated, NEW c \in Interfaces, NEW vi, NEW iv
  PROVE  InterfaceOK(c, <<>>, Listed(Todo(c)), vi, iv)
<1>1. PICK list : list = program[c].implements
  OBVIOUS
<1>2. c \in Classes
  BY ProgramFacts
<1>3. Listed(Todo(c)) = {Inherits(list[i]) : i \in DOMAIN list} \cup Declarations(c)
  BY <1>1, InterfaceTodoStarts
<1>4. ASSUME NEW m \in Methods, m.class = c PROVE Declare(m) \in Listed(Todo(c))
  BY <1>3, <1>4, MethodDeclared
<1>5. ASSUME NEW x \in Listed(Todo(c)), x.op = "inherit" PROVE x.from \in Gathered(c)
  <2>1. x \notin Declarations(c)
    BY <1>2, <1>5, DeclarationsOf
  <2>2. PICK i \in DOMAIN list : x = Inherits(list[i])
    BY <1>3, <2>1
  <2>3. list[i] \in Gathered(c)
    BY <1>1, <1>2, GatheredOf
  <2> QED
    BY <2>2, <2>3 DEF Inherits
<1> QED
  BY <1>4, <1>5 DEF InterfaceOK

LEMMA ActivationBusy ==
  ASSUME TInv, PInv, GInv, phase \in {"interfaces", "classes"}, Tame, errors = {},
         NEW c \in Classes, c \notin calculated \cup InStack(calls), NEW a, a = Activation(c),
         phase = "classes" => c \notin Interfaces, phase = "interfaces" => c \in Interfaces
  PROVE  Busy(a, vtables, itables, vtable_index, is_virtual)
<1>1. a.class = c /\ a.todo = Todo(c) /\ a.table = <<>>
  BY DEF Activation
<1>2. program \in Programs /\ vtables \in [Classes -> Seq(Methods)]
  BY DEF TInv, TypesOK, TablesOK
<1>3. Good(calls, calculated, vtables, itables, vtable_index, is_virtual)
  BY DEF GInv
<1>4. CASE c \in Interfaces
  <2>1. Saturated
    BY DEF Tame
  <2>2. InterfaceOK(c, <<>>, Listed(Todo(c)), vtable_index, is_virtual)
    BY <1>2, <1>4, <2>1, InterfaceStarts
  <2> QED
    BY <1>1, <1>4, <2>2 DEF Busy
<1>5. CASE c \notin Interfaces
  <2>1. Interfaces \subseteq calculated
    BY <1>5 DEF PInv, Passing
  <2>2. Asked(vtables, vtable_index, is_virtual)
    BY <1>3, <2>1 DEF Good, Ready, Asked
  <2>3. itables[c] = <<>>
    BY <1>3 DEF Good, Unstarted
  <2>4. PICK D : D = Listed(Todo(c))
    OBVIOUS
  <2>5. /\ D = (IF program[c].base = None THEN {} ELSE {Inherits(program[c].base)})
               \cup Declarations(c) \cup Opening(c, vtables)
        /\ InOrder(Todo(c)) /\ Followed(Todo(c), vtables)
    BY <1>2, <1>5, <2>4, ClassTodoStarts
  <2>6. \A x \in D : x.op = "inherit" \/ x \in Declarations(c) \/ x \in Opening(c, vtables)
    BY <2>5 DEF Inherits
  <2>7. Declarations(c) \cup Opening(c, vtables) \subseteq D
    BY <2>5
  <2>8. Straight(c)
    BY DEF Tame
  <2>9. ClassOK(c, <<>>, D, <<>>, vtable_index, is_virtual, vtables)
    BY <1>2, <1>5, <2>2, <2>6, <2>7, <2>8, ClassStarts
  <2> QED
    BY <1>1, <1>5, <2>3, <2>4, <2>5, <2>9 DEF Busy
<1> QED
  BY <1>4, <1>5

LEMMA BeginDispatch ==
  ASSUME TInv, PInv, GInv, NEW c \in Classes, Begin(c)
  PROVE  GInv'
<1>1. /\ phase \in {"interfaces", "classes"} /\ calls = <<>> /\ c \in pending
      /\ calls' = IF c \in calculated THEN <<>> ELSE <<Activation(c)>>
      /\ UNCHANGED <<program, phase, calculated, vtables, itables, vtable_index, is_virtual, is_abstract, errors>>
  BY DEF Begin
<1>2. CASE c \in calculated
  BY <1>1, <1>2, DispatchStays DEF tables
<1>3. CASE c \notin calculated
  <2>1. PICK a : a = Activation(c)
    OBVIOUS
  <2>2. a \in Activations
    <3>1. program \in Programs /\ TablesOK(calls, calculated, vtables, CircularityFound)
      BY DEF TInv, TypesOK
    <3> QED
      BY <2>1, <3>1, ActivationStarts
  <2>3. calls' = Append(calls, a)
    BY <1>1, <1>3, <2>1
  <2>4. c \notin calculated \cup InStack(calls)
    BY <1>1, <1>3 DEF InStack
  <2>5. (phase = "classes" => c \notin Interfaces) /\ (phase = "interfaces" => c \in Interfaces)
    BY <1>1 DEF PInv, Passing
  <2>6. Tame /\ errors = {} => Busy(a, vtables, itables, vtable_index, is_virtual)
    BY <1>1, <2>1, <2>4, <2>5, ActivationBusy
  <2> QED
    BY <1>1, <2>2, <2>3, <2>6, DispatchPushes
<1> QED
  BY <1>2, <1>3

LEMMA RecurDispatch ==
  ASSUME TInv, PInv, GInv, phase \in {"interfaces", "classes"}, Recur
  PROVE  GInv'
<1>1. PICK t : t = Top
  OBVIOUS
<1>2. PICK h : h = Head(t.todo)
  OBVIOUS
<1>3. calls # <<>> /\ t.todo # <<>> /\ h.op = "inherit"
  BY <1>1, <1>2 DEF Recur, Doing
<1>4. PICK c : c = h.from
  OBVIOUS
<1>5. /\ c \notin calculated /\ c \notin InProgress /\ calls' = Append(calls, Activation(c))
      /\ UNCHANGED <<program, phase, calculated, vtables, itables, vtable_index, is_virtual, errors>>
  BY <1>1, <1>2, <1>4 DEF Recur, Item
<1>6. t.class \in Classes /\ ActivationOK(t) /\ program \in Programs
  BY <1>1, <1>3, TopFacts DEF TInv, TypesOK
<1>7. c \in Classes /\ (t.class \in Interfaces => c \in Interfaces)
      /\ (t.class \notin Interfaces => program[t.class].base = c /\ program[t.class].base # None)
  BY <1>2, <1>3, <1>4, <1>6, TodoNext, ProgramFacts DEF ActivationOK
<1>8. (phase = "classes" => c \notin Interfaces) /\ (phase = "interfaces" => c \in Interfaces)
  BY <1>1, <1>3, <1>6, <1>7, TopOfPass, ProgramFacts
<1>9. c \notin calculated \cup InStack(calls)
  BY <1>5 DEF InProgress, InStack
<1>10. PICK a : a = Activation(c)
  OBVIOUS
<1>11. a \in Activations
  <2>1. program \in Programs /\ TablesOK(calls, calculated, vtables, CircularityFound)
    BY DEF TInv, TypesOK
  <2> QED
    BY <1>7, <1>10, <2>1, ActivationStarts
<1>12. Tame /\ errors = {} => Busy(a, vtables, itables, vtable_index, is_virtual)
  BY <1>7, <1>8, <1>9, <1>10, ActivationBusy
<1>13. calls' = Append(calls, a)
  BY <1>5, <1>10
<1> QED
  BY <1>5, <1>11, <1>12, <1>13, DispatchPushes

-----------------------------------------------------------------------------
(* The next item of a class. *)
LEMMA LineExtends ==
  ASSUME TInv, errors = {}, NEW b \in calculated, Straight(b)
  PROVE  \A x \in Lineage(b) : x \in calculated /\ ExtendsTable(vtables[x], vtables[b])
<1> DEFINE Fine(x) == x \in calculated /\ ExtendsTable(vtables[x], vtables[b])
           S == {n \in Nat : Above[n][b] # None => Fine(Above[n][b])}
<1>1. program \in Programs /\ vtables \in [Classes -> Seq(Methods)] /\ calculated \in SUBSET Classes
  BY DEF TInv, TypesOK, TablesOK
<1>2. \A c \in calculated : Complies(c, calculated, vtables)
  BY DEF TInv, TablesOK, CircularityFound
<1>3. b \in Classes /\ vtables[b] \in Seq(Methods) /\ ExtendsTable(vtables[b], vtables[b])
  BY <1>1, ExtendsItself
<1>4. 0 \in S
  BY <1>1, <1>3, AboveFacts DEF Beings
<1>5. ASSUME NEW n \in Nat, n \in S PROVE n + 1 \in S
  <2>1. PICK x : x = Above[n][b]
    OBVIOUS
  <2>2. PICK y : y = Above[n + 1][b]
    OBVIOUS
  <2>3. CASE x = None
    <3>1. n + 1 \in Nat /\ n <= n + 1
      OBVIOUS
    <3>2. Above[n + 1][b] = None
      BY <1>1, <1>3, <2>1, <2>3, <3>1, AboveEnds DEF Beings
    <3> QED
      BY <3>1, <3>2
  <2>4. CASE x # None
    <3>1. Fine(x) /\ x \in Classes
      BY <1>1, <1>5, <2>1, <2>4
    <3>2. y = program[x].base
      <4>1. Above[1][x] = Above[1 + n][b]
        BY <1>1, <2>1, <2>4, StraightUp
      <4>2. Above[0 + 1][x] = Above[0][program[x].base] /\ program[x].base \in Beings
        BY <1>1, <3>1, AboveFacts, ProgramFacts
      <4>3. Above[0][program[x].base] = program[x].base
        BY <1>1, <4>2, AboveFacts
      <4> QED
        BY <2>2, <4>1, <4>2, <4>3
    <3>3. CASE y # None
      <4>1. y \in calculated /\ ExtendsTable(vtables[y], vtables[x])
        BY <1>2, <3>1, <3>2, <3>3 DEF Complies
      <4>2. vtables[x] \in Seq(Methods) /\ vtables[y] \in Seq(Methods) /\ ExtendsTable(vtables[x], vtables[b])
        BY <1>1, <3>1, <4>1
      <4>3. PICK tx, ty, tb : tx = vtables[x] /\ ty = vtables[y] /\ tb = vtables[b]
        OBVIOUS
      <4>4. ExtendsTable(ty, tb)
        BY <1>3, <4>1, <4>2, <4>3, ExtendsAll
      <4> QED
        BY <2>2, <4>1, <4>3, <4>4
    <3> QED
      BY <2>2, <3>3
  <2> QED
    BY <2>3, <2>4
<1> HIDE DEF S
<1>6. \A n \in Nat : n \in S
  BY <1>4, <1>5, Induction
<1> USE DEF S
<1> SUFFICES ASSUME NEW x \in Lineage(b) PROVE Fine(x)
  OBVIOUS
<1>7. x # None /\ \E k \in Nat : x = Above[k][b]
  BY <1>1, LineageInNat
<1> QED
  BY <1>6, <1>7

LEMMA OnlyLater ==
  ASSUME NEW c \in Classes, c \notin Interfaces, NEW todo, TodoOK(c, todo), todo # <<>>
  PROVE  \A x \in Listed(Tail(todo)) :
           /\ x.op # "inherit"
           /\ x.op = "declare" => x.method.class = c /\ x = Declare(x.method)
<1>1. Tail(todo) \in Seq(Later(c))
  <2>1. CASE todo \in Seq(Later(c))
    BY <2>1
  <2>2. CASE Tail(todo) \in Seq(Later(c))
    BY <2>2
  <2> QED
    BY <2>1, <2>2 DEF TodoOK
<1>2. PICK s : s = Tail(todo)
  OBVIOUS
<1> SUFFICES ASSUME NEW k \in DOMAIN s
             PROVE  /\ s[k].op # "inherit"
                    /\ s[k].op = "declare" => s[k].method.class = c /\ s[k] = Declare(s[k].method)
  BY <1>2 DEF Listed
<1>3. s[k] \in Later(c)
  BY <1>1, <1>2
<1>4. CASE s[k] \in Declarations(c)
  BY <1>4, DeclarationsOf
<1> QED
  BY <1>3, <1>4 DEF Later

(* D is done before E. *)
Leaves(D, h, E) ==
  /\ D = {h} \cup E
  /\ \A x \in E : x.op # "inherit"
  /\ h.op = "declare" => \A x \in E : x.op = "declare" => x.method # h.method
  /\ h.op \in {"interface", "implement"} => \A x \in E : x.op # "declare"
ClassAt(t) ==
  /\ t.class \in Classes /\ t.class \notin Interfaces /\ Straight(t.class) /\ t.table \in Seq(Methods)
  /\ ClassOK(t.class, t.table, Listed(t.todo), itables[t.class], vtable_index, is_virtual, vtables)
  /\ Leaves(Listed(t.todo), Head(t.todo), Listed(Tail(t.todo)))
  /\ InOrder(Tail(t.todo)) /\ Followed(Tail(t.todo), vtables)
  /\ \A x \in Listed(Tail(t.todo)) : x.op = "declare" => x.method.class = t.class
  /\ Head(t.todo).op = "interface" =>
       \A n \in DOMAIN vtables[Head(t.todo).interface] :
         Fills(Head(t.todo).interface, n) \in Listed(Tail(t.todo))

LEMMA ClassNext ==
  ASSUME TInv, GInv, phase # "thrown", Tame, errors = {}, calls # <<>>, NEW t, t = Top, t.todo # <<>>,
         t.class \notin Interfaces
  PROVE  ClassAt(t)
<1>1. /\ t.class \in Classes /\ t.table \in Seq(Methods) /\ t.todo \in Seq(Items) /\ ActivationOK(t)
  BY TopFacts
<1>2. PICK n \in DOMAIN calls : t = calls[n]
  BY TopFacts
<1>3. Busy(t, vtables, itables, vtable_index, is_virtual)
  BY <1>2 DEF GInv, Good
<1>4. /\ ClassOK(t.class, t.table, Listed(t.todo), itables[t.class], vtable_index, is_virtual, vtables)
      /\ InOrder(t.todo) /\ Followed(t.todo, vtables)
  BY <1>3 DEF Busy
<1>5. PICK h, s, r : h = Head(t.todo) /\ s = t.todo /\ r = Tail(t.todo)
  OBVIOUS
<1>6. Splits(s, h, r)
  BY <1>5 DEF Splits
<1>7. s \in Seq(Items) /\ InOrder(s) /\ Followed(s, vtables)
  BY <1>1, <1>4, <1>5
<1>8. Listed(s) = {h} \cup Listed(r)
  BY <1>6, <1>7, RestListed
<1>9. /\ InOrder(r)
      /\ h.op = "declare" => h \notin Listed(r)
      /\ h.op \in {"interface", "implement"} => \A x \in Listed(r) : x.op # "declare"
  BY <1>6, <1>7, RestInOrder
<1>10. /\ Followed(r, vtables)
       /\ h.op = "interface" => \A k \in DOMAIN vtables[h.interface] : Fills(h.interface, k) \in Listed(r)
  BY <1>6, <1>7, RestFollowed
<1>11. \A x \in Listed(r) : /\ x.op # "inherit"
                            /\ x.op = "declare" => x.method.class = t.class /\ x = Declare(x.method)
  BY <1>1, <1>5, OnlyLater DEF ActivationOK
<1>14. h.op = "declare" => h = Declare(h.method)
  <2>1. h \in Items
    BY <1>1, <1>5, SeqSplit
  <2> QED
    BY <2>1 DEF Items, Declare
<1>12. Leaves(Listed(s), h, Listed(r))
  BY <1>8, <1>9, <1>11, <1>14 DEF Leaves
<1>13. Straight(t.class)
  BY <1>1 DEF Tame
<1> QED
  BY <1>1, <1>4, <1>5, <1>9, <1>10, <1>11, <1>12, <1>13 DEF ClassAt

LEMMA ClassGoesOn ==
  ASSUME NEW t, ClassAt(t), NEW table, NEW z, Advances(z, t, table), NEW it, NEW vi, NEW iv,
         ClassOK(t.class, table, Listed(Tail(t.todo)), it[t.class], vi, iv, vtables)
  PROVE  Busy(z, vtables, it, vi, iv)
<1>1. z.class = t.class /\ z.todo = Tail(t.todo) /\ z.table = table
  BY DEF Advances
<1> QED
  BY <1>1 DEF ClassAt, Busy

(* An interface is opened. *)
Opened(row, i, vt, row2) ==
  /\ DOMAIN row2 = DOMAIN row \cup {i} /\ DOMAIN row2[i] = DOMAIN vt[i]
  /\ \A n \in DOMAIN vt[i] : row2[i][n] = 0
  /\ \A j \in DOMAIN row : j # i => row2[j] = row[j]

LEMMA RowOpened ==
  ASSUME NEW c, NEW T, NEW D, NEW E, NEW h, Leaves(D, h, E), h.op = "interface",
         NEW row, NEW vi, NEW iv, NEW vt, ClassOK(c, T, D, row, vi, iv, vt),
         \A n \in DOMAIN vt[h.interface] : Fills(h.interface, n) \in E,
         NEW row2, Opened(row, h.interface, vt, row2)
  PROVE  ClassOK(c, T, E, row2, vi, iv, vt)
<1>1. ASSUME NEW s, Due(c, s, D, vt) PROVE Due(c, s, E, vt)
  <2>1. h = Declare(Own(c, s)) => Modifier(Own(c, s)) = "plain"
    BY DEF Declare
  <2>2. \A i, n : h = Fills(i, n) => vt[i][n].signature # s
    BY DEF Fills
  <2>3. D \subseteq {h} \cup E
    BY DEF Leaves
  <2> QED
    BY <1>1, <2>1, <2>2, <2>3, DueLater
<1>2. Entries(c, T, E, vi, iv, vt)
  BY <1>1 DEF ClassOK, Entries, Entry
<1>3. Covered(c, T, E, vt)
  BY <1>1 DEF ClassOK, Covered
<1>4. Leads(row2, T, vt)
  BY DEF ClassOK, Leads, Opened
<1>5. \A i : Opens(i) \in D => Opens(i) \in E \/ i = h.interface
  BY DEF Leaves, Opens
<1>6. \A i, n : Fills(i, n) \in D => Fills(i, n) \in E
  BY DEF Leaves, Fills
<1>7. h.interface \in Gathered(c)
  BY DEF ClassOK, Fits, Leaves
<1>8. Full(c, row2, E, vt)
  <2>1. \A i \in DOMAIN row2 : i \in Gathered(c)
    BY <1>7 DEF ClassOK, Full, Opened
  <2>2. \A i \in Gathered(c) : Opens(i) \in E \/ i \in DOMAIN row2
    BY <1>5 DEF ClassOK, Full, Opened
  <2>3. ASSUME program[c].kind = "class", NEW i \in Gathered(c), Opens(i) \notin E, NEW n \in DOMAIN vt[i]
        PROVE  Fills(i, n) \in E \/ row2[i][n] # 0
    <3>1. CASE i = h.interface
      BY <2>3, <3>1
    <3>2. CASE i # h.interface
      <4>1. Opens(i) \notin D
        BY <1>5, <2>3, <3>2
      <4>2. i \in DOMAIN row /\ (Fills(i, n) \in D \/ row[i][n] # 0)
        BY <2>3, <4>1 DEF ClassOK, Full
      <4> QED
        BY <1>6, <3>2, <4>2 DEF Opened
    <3> QED
      BY <3>1, <3>2
  <2> QED
    BY <2>1, <2>2, <2>3 DEF Full
<1>9. Fits(c, T, E, row2, vt)
  BY DEF ClassOK, Fits, Leaves
<1> QED
  BY <1>2, <1>3, <1>4, <1>8, <1>9 DEF ClassOK

LEMMA OpenInterfaceDispatch ==
  ASSUME TInv, GInv, phase # "thrown", OpenInterface
  PROVE  GInv'
<1>1. PICK t : t = Top
  OBVIOUS
<1>2. PICK h : h = Head(t.todo)
  OBVIOUS
<1>3. calls # <<>> /\ t.todo # <<>> /\ h.op = "interface"
  BY <1>1, <1>2 DEF OpenInterface, Doing
<1>4. PICK c, i, row : c = t.class /\ i = h.interface /\ row = itables[c]
  OBVIOUS
<1>5. PICK row2 : row2 = [j \in DOMAIN row \cup {i} |-> IF j = i THEN [n \in DOMAIN vtables[j] |-> 0] ELSE row[j]]
  OBVIOUS
<1>6. /\ calls' = Advance(t.table) /\ itables' = [itables EXCEPT ![c] = row2]
      /\ UNCHANGED <<program, phase, calculated, vtables, vtable_index, is_virtual, errors>>
  BY <1>1, <1>2, <1>4, <1>5 DEF OpenInterface, Item
<1>7. c \in Classes /\ ActivationOK(t) /\ program \in Programs
  BY <1>1, <1>3, <1>4, TopFacts DEF TInv, TypesOK
<1>8. c \notin Interfaces
  BY <1>2, <1>3, <1>4, <1>7, TodoNext DEF ActivationOK
<1>9. DOMAIN itables = Classes
  BY DEF GInv
<1>10. DOMAIN itables' = Classes /\ itables'[c] = row2 /\ \A x \in Classes : x # c => itables'[x] = itables[x]
  BY <1>6, <1>7, <1>9
<1>11. Opened(row, i, vtables, row2)
  BY <1>5 DEF Opened
<1>12. PICK z : Advances(z, t, t.table)
  BY DEF Advances
<1>13. ASSUME Tame, errors' = {}
       PROVE  /\ errors = {} /\ Chosen(is_virtual') /\ Beside(c, vtable_index, is_virtual, vtable_index', is_virtual')
              /\ Busy(z, vtables, itables', vtable_index', is_virtual')
  <2>1. errors = {}
    BY <1>6, <1>13
  <2>2. ClassAt(t)
    BY <1>1, <1>3, <1>4, <1>8, <1>13, <2>1, ClassNext
  <2>3. PICK D, E, T : D = Listed(t.todo) /\ E = Listed(Tail(t.todo)) /\ T = t.table
    OBVIOUS
  <2>4. /\ ClassOK(c, T, D, row, vtable_index, is_virtual, vtables) /\ Leaves(D, h, E)
        /\ \A n \in DOMAIN vtables[h.interface] : Fills(h.interface, n) \in E
    BY <1>2, <1>3, <1>4, <2>2, <2>3 DEF ClassAt
  <2>5. ClassOK(c, T, E, row2, vtable_index, is_virtual, vtables)
    BY <1>3, <1>4, <1>11, <2>4, RowOpened
  <2>6. PICK it : it = itables'
    OBVIOUS
  <2>7. ClassOK(t.class, t.table, Listed(Tail(t.todo)), it[t.class], vtable_index, is_virtual, vtables)
    BY <1>4, <1>10, <2>3, <2>5, <2>6
  <2>8. Busy(z, vtables, it, vtable_index, is_virtual)
    BY <1>12, <2>2, <2>7, ClassGoesOn
  <2>9. Chosen(is_virtual)
    BY <1>13, <2>1 DEF GInv, Good
  <2>10. Beside(c, vtable_index, is_virtual, vtable_index, is_virtual)
    BY DEF Beside
  <2> QED
    BY <1>6, <2>1, <2>6, <2>8, <2>9, <2>10
<1>14. PICK table : table = t.table
  OBVIOUS
<1>15. calls' = Advance(table) /\ Advances(z, t, table)
  BY <1>6, <1>12, <1>14
<1> QED
  BY <1>1, <1>3, <1>4, <1>6, <1>10, <1>13, <1>15, DispatchAdvances

(* An activation ends. *)
LEMMA FinishDispatch ==
  ASSUME TInv, PInv, GInv, phase \in {"interfaces", "classes"}, Finish
  PROVE  GInv'
<1>1. PICK t : t = Top
  OBVIOUS
<1>2. PICK c : c = t.class
  OBVIOUS
<1>3. /\ calls # <<>> /\ t.todo = <<>> /\ calls' = Front(calls) /\ calculated' = calculated \cup {c}
      /\ vtables' = [vtables EXCEPT ![c] = t.table]
      /\ UNCHANGED <<program, phase, itables, vtable_index, is_virtual>>
      /\ errors' = {} => errors = {} /\ (program[c].kind = "class" =>
                           \A m \in is_abstract : \A p \in DOMAIN t.table : t.table[p] # m)
  BY <1>1, <1>2 DEF Finish
<1>4. PICK vt : Renews(vt, c, t.table) /\ vtables' = vt
  BY <1>3 DEF Renews
<1>5. /\ program \in Programs /\ vtables \in [Classes -> Seq(Methods)] /\ c \in Classes /\ t.table \in Seq(Methods)
  BY <1>1, <1>2, <1>3, TopFacts DEF TInv, TypesOK, TablesOK
<1>6. vt[c] = t.table /\ \A x \in Classes : x # c => vt[x] = vtables[x]
  BY <1>4, <1>5 DEF Renews
<1>7. PICK n \in DOMAIN calls : t = calls[n]
  BY <1>1, <1>3, TopFacts
<1>8. ASSUME Tame, errors' = {} PROVE errors = {} /\ Ready(c, vt, itables, vtable_index, is_virtual)
  <2>1. errors = {}
    BY <1>3, <1>8
  <2>2. Listed(t.todo) = {}
    BY <1>3, ListedOne
  <2>3. Busy(t, vtables, itables, vtable_index, is_virtual)
    BY <1>7, <1>8, <2>1 DEF GInv, Good
  <2>4. CASE c \in Interfaces
    BY <1>2, <1>6, <2>1, <2>2, <2>3, <2>4 DEF Busy, Ready
  <2>5. CASE c \notin Interfaces
    <3>1. PICK T : T = t.table
      OBVIOUS
    <3>2. ClassOK(c, T, {}, itables[c], vtable_index, is_virtual, vtables)
      BY <1>2, <2>2, <2>3, <2>5, <3>1 DEF Busy
    <3>3. \A i \in Gathered(c) : vt[i] = vtables[i]
      <4> SUFFICES ASSUME NEW i \in Gathered(c) PROVE vt[i] = vtables[i]
        OBVIOUS
      <4>1. i \in Interfaces /\ i \in Classes
        BY <1>5, GatheredType, ProgramFacts
      <4> QED
        BY <1>6, <2>5, <4>1
    <3>4. c # None /\ Beside(None, vtable_index, is_virtual, vtable_index, is_virtual)
      BY <1>5, ProgramFacts DEF Beside
    <3>5. T \in Seq(Methods)
      BY <1>5, <3>1
    <3>6. PICK row : row = itables[c]
      OBVIOUS
    <3>7. ClassOK(c, T, {}, row, vtable_index, is_virtual, vtables)
      BY <3>2, <3>6
    <3>8. ClassOK(c, T, {}, row, vtable_index, is_virtual, vt)
      BY <3>3, <3>4, <3>5, <3>7, ClassStays
    <3>9. Instantiable(c, T)
      <4>1. ASSUME program[c].kind = "class", NEW p \in DOMAIN T PROVE Modifier(T[p]) # "abstract"
        <5>1. T[p] \in Methods
          BY <3>5
        <5>2. T[p].class \notin Interfaces
          BY <3>2 DEF ClassOK, Entries, Entry
        <5>3. Modifier(T[p]) = "abstract" => T[p] \in is_abstract
          BY <5>1, <5>2 DEF PInv, AbstractsAreDeclared
        <5> QED
          BY <1>3, <1>8, <3>1, <4>1, <5>3
      <4> QED
        BY <4>1 DEF Instantiable
    <3> QED
      BY <1>6, <2>1, <2>5, <3>1, <3>6, <3>8, <3>9 DEF Ready
  <2> QED
    BY <2>4, <2>5
<1> QED
  BY <1>1, <1>2, <1>3, <1>4, <1>8, DispatchPops

(* A method of an interface is put in the table of a class, or found to be
   missing. *)
LEMMA FillsDone ==
  ASSUME NEW D, NEW h, NEW E, Leaves(D, h, E), h.op = "implement", NEW c, NEW vt, NEW w, w = vt[h.interface][h.index].signature,
         NEW s, Due(c, s, D, vt), s = w => Modifier(Own(c, s)) # "plain"
  PROVE  Due(c, s, E, vt)
<1>1. D \subseteq {h} \cup E
  BY DEF Leaves
<1>2. h = Declare(Own(c, s)) => Modifier(Own(c, s)) = "plain"
  BY DEF Declare
<1>3. Modifier(Own(c, s)) = "plain" => \A i, n : h = Fills(i, n) => vt[i][n].signature # s
  BY DEF Fills
<1> QED
  BY <1>1, <1>2, <1>3, DueLater

LEMMA ImplementLeaves ==
  ASSUME NEW D, NEW h, NEW E, Leaves(D, h, E), h.op = "implement"
  PROVE  /\ \A i : Opens(i) \in D => Opens(i) \in E
         /\ \A i, n : Fills(i, n) \in D => Fills(i, n) \in E \/ (i = h.interface /\ n = h.index)
BY DEF Leaves, Opens, Fills

LEMMA NotImplemented ==
  ASSUME NEW c, NEW T, NEW D, NEW E, NEW h, Leaves(D, h, E), h.op = "implement",
         NEW row, NEW vi, NEW iv, NEW vt, ClassOK(c, T, D, row, vi, iv, vt), program[c].kind # "class",
         NEW w, w = vt[h.interface][h.index].signature, Declares(c, w) => Modifier(Own(c, w)) # "plain"
  PROVE  ClassOK(c, T, E, row, vi, iv, vt)
<1>1. ASSUME NEW s, Due(c, s, D, vt) PROVE Due(c, s, E, vt)
  <2>1. s = w => Modifier(Own(c, s)) # "plain"
    BY <1>1 DEF Due
  <2> QED
    BY <1>1, <2>1, FillsDone
<1>2. Entries(c, T, E, vi, iv, vt)
  BY <1>1 DEF ClassOK, Entries, Entry
<1>3. Covered(c, T, E, vt)
  BY <1>1 DEF ClassOK, Covered
<1>4. \A i : Opens(i) \in D => Opens(i) \in E
  BY ImplementLeaves
<1>5. Full(c, row, E, vt)
  BY <1>4 DEF ClassOK, Full
<1>6. Fits(c, T, E, row, vt)
  BY DEF ClassOK, Fits, Leaves
<1> QED
  BY <1>2, <1>3, <1>5, <1>6 DEF ClassOK

LEMMA DoesNotImplementDispatch ==
  ASSUME TInv, PInv, GInv, phase # "thrown", DoesNotImplement
  PROVE  GInv'
<1>1. PICK t : t = Top
  OBVIOUS
<1>2. PICK h : h = Head(t.todo)
  OBVIOUS
<1>3. calls # <<>> /\ t.todo # <<>> /\ h.op = "implement"
  BY <1>1, <1>2 DEF DoesNotImplement, Doing
<1>4. PICK c, w : c = t.class /\ w = Wanted
  OBVIOUS
<1>5. w = vtables[h.interface][h.index].signature
  BY <1>1, <1>2, <1>4 DEF Wanted, Item
<1>6. /\ calls' = Advance(t.table) /\ Implementing(c) = None
      /\ UNCHANGED <<program, phase, calculated, vtables, itables, vtable_index, is_virtual>>
      /\ errors' = {} => errors = {} /\ program[c].kind # "class"
  BY <1>1, <1>4 DEF DoesNotImplement
<1>7. c \in Classes /\ ActivationOK(t) /\ program \in Programs
  BY <1>1, <1>3, <1>4, TopFacts DEF TInv, TypesOK
<1>8. c \notin Interfaces
  BY <1>2, <1>3, <1>4, <1>7, TodoNext DEF ActivationOK
<1>9. DOMAIN itables = Classes
  BY DEF GInv
<1>12. PICK z : Advances(z, t, t.table)
  BY DEF Advances
<1>13. ASSUME Tame, errors' = {}
       PROVE  /\ errors = {} /\ Chosen(is_virtual') /\ Beside(c, vtable_index, is_virtual, vtable_index', is_virtual')
              /\ Busy(z, vtables, itables', vtable_index', is_virtual')
  <2>1. errors = {} /\ program[c].kind # "class"
    BY <1>6, <1>13
  <2>2. ClassAt(t)
    BY <1>1, <1>3, <1>4, <1>8, <1>13, <2>1, ClassNext
  <2>3. PICK D, E, T, row : D = Listed(t.todo) /\ E = Listed(Tail(t.todo)) /\ T = t.table /\ row = itables[c]
    OBVIOUS
  <2>4. ClassOK(c, T, D, row, vtable_index, is_virtual, vtables) /\ Leaves(D, h, E) /\ Straight(c)
    BY <1>2, <1>4, <2>2, <2>3 DEF ClassAt
  <2>5. Declares(c, w) => Modifier(Own(c, w)) # "plain"
    <3>1. PICK d : d = Declaring(c, w)
      OBVIOUS
    <3>2. d.class = None \/ Modifier(d) = "abstract"
      <4>1. AbstractsAreDeclared
        BY DEF PInv
      <4> QED
        BY <1>4, <1>6, <1>7, <1>8, <1>13, <2>4, <3>1, <4>1, ImplementingFacts
    <3>3. Declares(c, w) => d = Own(c, w)
      BY <1>7, <2>4, <3>1, DeclaringFacts
    <3>4. Declares(c, w) => d.class # None
      BY <1>7, <3>3, ProgramFacts DEF Own
    <3> QED
      BY <3>2, <3>3, <3>4
  <2>6. ClassOK(c, T, E, row, vtable_index, is_virtual, vtables)
    BY <1>3, <1>5, <2>1, <2>4, <2>5, NotImplemented
  <2>7. ClassOK(t.class, t.table, Listed(Tail(t.todo)), itables[t.class], vtable_index, is_virtual, vtables)
    BY <1>4, <2>3, <2>6
  <2>8. Busy(z, vtables, itables, vtable_index, is_virtual)
    BY <1>12, <2>2, <2>7, ClassGoesOn
  <2>9. Chosen(is_virtual)
    BY <1>13, <2>1 DEF GInv, Good
  <2>10. Beside(c, vtable_index, is_virtual, vtable_index, is_virtual)
    BY DEF Beside
  <2> QED
    BY <1>6, <2>1, <2>8, <2>9, <2>10
<1>14. PICK table : table = t.table
  OBVIOUS
<1>15. calls' = Advance(table) /\ Advances(z, t, table)
  BY <1>6, <1>12, <1>14
<1>16. DOMAIN itables' = Classes /\ \A x \in Classes : x # c => itables'[x] = itables[x]
  BY <1>6, <1>9
<1> QED
  BY <1>1, <1>3, <1>4, <1>6, <1>13, <1>15, <1>16, DispatchAdvances

(* A method that is not declared by the class itself has its position. *)
FromAbove(c, m, B, T, vt) ==
  /\ m = Declaring(c, m.signature) /\ ~Declares(c, m.signature)
  /\ Covered(m.class, B, {}, vt) /\ ExtendsTable(B, T) /\ ByObject(m, m.class)

LEMMA InheritedPlaced ==
  ASSUME NEW c, NEW T \in Seq(Methods), NEW D, NEW vi, NEW iv, NEW vt, Entries(c, T, D, vi, iv, vt),
         NEW m \in Methods, NEW B \in Seq(Methods), FromAbove(c, m, B, T, vt)
  PROVE  \E p \in DOMAIN T : T[p] = m
<1>1. ~Due(m.class, m.signature, {}, vt)
  BY DEF Due
<1>2. PICK p \in DOMAIN B : B[p] = m
  BY <1>1 DEF Covered, FromAbove
<1>3. p \in DOMAIN T /\ T[p].signature = m.signature
  <2>1. Len(B) \in Nat /\ DOMAIN B = 1 .. Len(B) /\ Len(T) \in Nat /\ DOMAIN T = 1 .. Len(T)
    BY LenProperties
  <2> QED
    BY <1>2, <2>1 DEF ExtendsTable, FromAbove
<1>4. ~Due(c, m.signature, D, vt)
  BY DEF Due, FromAbove
<1>5. T[p] = Declaring(c, T[p].signature)
  BY <1>3, <1>4 DEF Entries, Entry
<1> QED
  BY <1>3, <1>5 DEF FromAbove

(* The method at the place in the table of the interface. *)
RowFilled(row, i, n, slot, row2) ==
  /\ DOMAIN row2 = DOMAIN row
  /\ \A j \in DOMAIN row : /\ DOMAIN row2[j] = DOMAIN row[j]
                           /\ \A k \in DOMAIN row[j] : row2[j][k] = IF j = i /\ k = n THEN slot ELSE row[j][k]

LEMMA Implemented ==
  ASSUME program \in Programs, NEW c, Straight(c), NEW T \in Seq(Methods), NEW D, NEW E, NEW h,
         Leaves(D, h, E), h.op = "implement",
         NEW row, NEW vi, NEW iv, NEW vt, ClassOK(c, T, D, row, vi, iv, vt),
         NEW m, m.signature = vt[h.interface][h.index].signature,
         NEW U \in Seq(Methods), NEW slot, Puts(T, U, slot, m), Wins(c, m),
         NEW vi2, NEW iv2, Numbers(m, slot, vi, iv, vi2, iv2), m.class = c => vi2[m] = slot,
         NEW row2, RowFilled(row, h.interface, h.index, slot, row2)
  PROVE  ClassOK(c, U, E, row2, vi2, iv2, vt)
<1>1. Goes(c, m, D, E, vt)
  <2> SUFFICES ASSUME NEW s, s # m.signature, Due(c, s, D, vt) PROVE Due(c, s, E, vt)
    BY DEF Goes
  <2>1. PICK w : w = vt[h.interface][h.index].signature
    OBVIOUS
  <2>2. s = w => Modifier(Own(c, s)) # "plain"
    BY <2>1
  <2> QED
    BY <2>1, <2>2, FillsDone
<1>2. Entries(c, U, E, vi2, iv2, vt)
  <2>1. Entries(c, T, D, vi, iv, vt)
    BY DEF ClassOK
  <2> QED
    BY <1>1, <2>1, PutEntries
<1>3. Covered(c, U, E, vt)
  <2>1. Covered(c, T, D, vt)
    BY DEF ClassOK
  <2> QED
    BY <1>1, <2>1, PutCovered
<1>4. Leads(row, U, vt)
  <2>1. Leads(row, T, vt)
    BY DEF ClassOK
  <2> QED
    BY <2>1, PutLeads
<1>5. slot \in DOMAIN U /\ U[slot].signature = vt[h.interface][h.index].signature /\ slot # 0
  <2>1. slot \in DOMAIN U /\ U[slot] = m
    BY DEF Puts
  <2>2. slot # 0
    BY <2>1
  <2> QED
    BY <2>1, <2>2
<1>6. Leads(row2, U, vt)
  BY <1>4, <1>5 DEF Leads, RowFilled
<1>7. /\ \A i : Opens(i) \in D => Opens(i) \in E
      /\ \A i, n : Fills(i, n) \in D => Fills(i, n) \in E \/ (i = h.interface /\ n = h.index)
  BY ImplementLeaves
<1>8. Full(c, row2, E, vt)
  <2>1. \A i \in DOMAIN row2 : i \in Gathered(c)
    BY DEF ClassOK, Full, RowFilled
  <2>2. \A i \in Gathered(c) : Opens(i) \in E \/ i \in DOMAIN row2
    BY <1>7 DEF ClassOK, Full, RowFilled
  <2>3. ASSUME program[c].kind = "class", NEW i \in Gathered(c), Opens(i) \notin E, NEW n \in DOMAIN vt[i]
        PROVE  Fills(i, n) \in E \/ row2[i][n] # 0
    <3>1. Opens(i) \notin D
      BY <1>7, <2>3
    <3>2. i \in DOMAIN row /\ (Fills(i, n) \in D \/ row[i][n] # 0)
      BY <2>3, <3>1 DEF ClassOK, Full
    <3>3. n \in DOMAIN row[i]
      BY <1>4, <2>3, <3>2 DEF Leads
    <3>4. row2[i][n] = IF i = h.interface /\ n = h.index THEN slot ELSE row[i][n]
      BY <3>2, <3>3 DEF RowFilled
    <3>5. CASE Fills(i, n) \in D
      BY <1>5, <1>7, <3>4, <3>5
    <3>6. CASE row[i][n] # 0
      BY <1>5, <3>4, <3>6
    <3> QED
      BY <3>2, <3>5, <3>6
  <2> QED
    BY <2>1, <2>2, <2>3 DEF Full
<1>9. Fits(c, U, E, row2, vt)
  BY DEF ClassOK, Fits, Leaves
<1> QED
  BY <1>2, <1>3, <1>6, <1>8, <1>9 DEF ClassOK

(* What an interface asks for is a signature of the interfaces of the class. *)
LEMMA AskedIn ==
  ASSUME program \in Programs, Saturated, NEW c \in Classes, NEW i \in Gathered(c), NEW T \in Seq(Methods),
         NEW D, NEW vi, NEW iv, InterfaceOK(i, T, D, vi, iv), NEW n \in DOMAIN T
  PROVE  T[n].signature \in InterfaceSignatures(c)
<1>1. T[n] \in Methods
  OBVIOUS
<1>2. PICK j : j = T[n].class
  OBVIOUS
<1>3. Declares(j, T[n].signature)
  BY <1>1, <1>2, MethodParts
<1>4. j = i \/ j \in Gathered(i)
  BY <1>2 DEF InterfaceOK
<1>5. j \in Gathered(c)
  BY <1>4, GatheredWithin
<1> QED
  BY <1>3, <1>5, PromisedBy

(* The class that has the method an interface asks for, if it is not the
   class itself, is ready, and its table goes on in the one being built. *)
LEMMA AboveReady ==
  ASSUME TInv, GInv, phase # "thrown", Tame, errors = {}, calls # <<>>, NEW t, t = Top, t.todo # <<>>,
         Head(t.todo).op # "inherit", NEW c, c = t.class, c \notin Interfaces,
         NEW b \in Lineage(c), b # c
  PROVE  /\ program[c].base # None /\ b \in Lineage(program[c].base) /\ vtables[b] \in Seq(Methods)
         /\ Covered(b, vtables[b], {}, vtables) /\ ExtendsTable(vtables[b], t.table)
<1>1. /\ c \in Classes /\ t.table \in Seq(Methods) /\ (CircularityFound \/ Based(t, calculated, vtables))
      /\ program \in Programs
  BY TopFacts DEF TInv, TypesOK
<1>2. ~CircularityFound
  BY DEF CircularityFound
<1>3. Straight(c)
  BY <1>1 DEF Tame
<1>4. program[c].base # None /\ b \in Lineage(program[c].base) /\ Straight(program[c].base)
  BY <1>1, <1>3, LineUp
<1>5. PICK base : base = program[c].base
  OBVIOUS
<1>6. base \in calculated /\ ExtendsTable(vtables[base], t.table)
  BY <1>1, <1>2, <1>4, <1>5 DEF Based, Inherits
<1>7. b \in calculated /\ ExtendsTable(vtables[b], vtables[base])
  BY <1>4, <1>5, <1>6, LineExtends
<1>8. calculated \in SUBSET Classes /\ vtables \in [Classes -> Seq(Methods)]
  BY DEF TInv, TablesOK
<1>9. PICK tb, tx : tb = vtables[b] /\ tx = vtables[base]
  OBVIOUS
<1>10. tb \in Seq(Methods) /\ tx \in Seq(Methods)
  BY <1>6, <1>7, <1>8, <1>9
<1>11. ExtendsTable(tb, t.table)
  BY <1>1, <1>6, <1>7, <1>9, <1>10, ExtendsAll
<1>12. b \notin Interfaces
  <2>1. Saturated
    BY DEF Tame
  <2> QED
    BY <1>1, <1>3, <2>1, ClassLine
<1>13. Ready(b, vtables, itables, vtable_index, is_virtual)
  BY <1>7 DEF GInv, Good
<1> QED
  BY <1>4, <1>9, <1>10, <1>11, <1>12, <1>13 DEF Ready, ClassOK

(* The method that implements what an interface asks for. *)
LEMMA ImplementWins ==
  ASSUME TInv, PInv, GInv, phase \in {"interfaces", "classes"}, Tame, errors = {}, calls # <<>>, NEW t, t = Top, t.todo # <<>>,
         NEW h, h = Head(t.todo), h.op = "implement", NEW c, c = t.class, c \notin Interfaces,
         Implementing(c) # None, NEW w, w = Wanted, NEW m, m = [class |-> Implementing(c), signature |-> w]
  PROVE  /\ m \in Methods /\ m.signature = w /\ w = vtables[h.interface][h.index].signature /\ Wins(c, m)
         /\ ByObject(m, m.class)
         /\ m.class # c => \E p \in DOMAIN t.table : t.table[p] = m
<1>1. ClassAt(t)
  BY ClassNext
<1>2. /\ c \in Classes /\ Straight(c) /\ program \in Programs /\ vtables \in [Classes -> Seq(Methods)] /\ t.table \in Seq(Methods)
      /\ Interfaces \subseteq Classes
  BY <1>1, ProgramFacts DEF ClassAt, TInv, TypesOK, TablesOK
<1>3. PICK D, T, row, i, n : D = Listed(t.todo) /\ T = t.table /\ row = itables[c] /\ i = h.interface /\ n = h.index
  OBVIOUS
<1>4. ClassOK(c, T, D, row, vtable_index, is_virtual, vtables) /\ h \in D
  BY <1>1, <1>3 DEF ClassAt, Leaves
<1>5. i \in Gathered(c) /\ n \in DOMAIN vtables[i]
  BY <1>3, <1>4 DEF ClassOK, Fits
<1>6. w = vtables[i][n].signature
  BY <1>3 DEF Wanted, Item
<1>7. Saturated /\ ~InheritsImplementation
  BY DEF Tame
<1>8. i \in Interfaces /\ i \in calculated
  <2>1. i \in Interfaces
    BY <1>2, <1>5, GatheredType
  <2>2. phase = "classes"
    BY TopOfPass
  <2> QED
    BY <2>1, <2>2 DEF PInv, Passing
<1>9. InterfaceOK(i, vtables[i], {}, vtable_index, is_virtual)
  BY <1>8 DEF GInv, Good, Ready
<1>10. w \in InterfaceSignatures(c)
  <2>1. PICK ti : ti = vtables[i]
    OBVIOUS
  <2>2. ti \in Seq(Methods)
    BY <1>2, <1>8, <2>1
  <2>3. InterfaceOK(i, ti, {}, vtable_index, is_virtual) /\ n \in DOMAIN ti
    BY <1>5, <1>9, <2>1
  <2>4. ti[n].signature \in InterfaceSignatures(c)
    BY <1>2, <1>5, <1>7, <2>2, <2>3, AskedIn
  <2> QED
    BY <1>6, <2>1, <2>4
<1>11. PICK d : d = Declaring(c, w)
  OBVIOUS
<1>12. d.class # None /\ Implementing(c) = d.class
  <2>1. AbstractsAreDeclared
    BY DEF PInv
  <2>2. d.class = None \/ Modifier(d) = "abstract" => Implementing(c) = None
    BY <1>2, <1>11, <2>1, ImplementingFacts
  <2>3. d.class # None /\ Modifier(d) # "abstract" => Implementing(c) = d.class
    BY <1>2, <1>11, <2>1, ImplementingFacts
  <2> QED
    BY <2>2, <2>3
<1>13. d \in Methods /\ d.class \in Lineage(c) /\ d.signature = w /\ m = d
  <2>1. d \in Methods /\ d.class \in Lineage(c) /\ d.signature = w /\ d = Own(d.class, w)
    BY <1>2, <1>11, <1>12, DeclaringFacts
  <2> QED
    BY <1>12, <2>1 DEF Own
<1>14. ByObject(d, d.class)
  BY <1>2, <1>7, <1>10, <1>11, <1>12, NoInheriting
<1>15. d.class \notin Interfaces
  BY <1>2, <1>7, <1>13, ClassLine
<1>16. ASSUME d.class # c
       PROVE  Replaceable(program[c].base, w) /\ \E p \in DOMAIN T : T[p] = d
  <2>1. PICK b : b = d.class
    OBVIOUS
  <2>2. b \in Lineage(c) /\ b # c
    BY <1>13, <1>16, <2>1
  <2>3. /\ program[c].base # None /\ b \in Lineage(program[c].base) /\ vtables[b] \in Seq(Methods)
        /\ Covered(b, vtables[b], {}, vtables) /\ ExtendsTable(vtables[b], T)
    BY <1>3, <2>2, AboveReady
  <2>4. Straight(program[c].base)
    BY <1>2, <2>3, LineUp
  <2>5. Replaceable(program[c].base, d.signature)
    BY <1>2, <1>13, <1>14, <2>1, <2>3, <2>4, CanBeReplaced
  <2>6. ~Declares(c, w)
    BY <1>2, <1>11, <1>16, DeclaringFacts DEF Own
  <2>7. PICK B : B = vtables[b]
    OBVIOUS
  <2>8. B \in Seq(Methods) /\ Covered(b, B, {}, vtables) /\ ExtendsTable(B, T)
    BY <2>3, <2>7
  <2>9. Entries(c, T, D, vtable_index, is_virtual, vtables)
    BY <1>4 DEF ClassOK
  <2>10. d = Declaring(c, d.signature) /\ ~Declares(c, d.signature) /\ ByObject(d, b)
    BY <1>11, <1>13, <1>14, <2>1, <2>6
  <2>11. T \in Seq(Methods)
    BY <1>2, <1>3
  <2>13. FromAbove(c, d, B, T, vtables)
    BY <2>1, <2>8, <2>10 DEF FromAbove
  <2>12. \E p \in DOMAIN T : T[p] = d
    BY <1>13, <2>8, <2>9, <2>11, <2>13, InheritedPlaced
  <2> QED
    BY <1>13, <2>5, <2>12
<1>17. Wins(c, d)
  BY <1>11, <1>13, <1>15, <1>16 DEF Wins
<1> QED
  BY <1>3, <1>6, <1>13, <1>14, <1>16, <1>17

(* Where it is put. *)
Puts2(T, U, slot, m, c, vi, iv, vi2, iv2) ==
  /\ Puts(T, U, slot, m) /\ U \in Seq(Methods)
  /\ Numbers(m, slot, vi, iv, vi2, iv2) /\ (m.class = c => vi2[m] = slot)
  /\ Beside(c, vi, iv, vi2, iv2) /\ (iv2 = iv \/ iv2 = iv \cup {m})

LEMMA PlacedAnew ==
  ASSUME NEW T \in Seq(Methods), Unique(T), NEW m \in Methods, NEW slot, NEW U, U = Placed(T, slot, m),
         (slot = Len(T) + 1 /\ Missing(T, m)) \/ (slot \in DOMAIN T /\ T[slot].signature = m.signature),
         NEW c, m.class = c, NEW vi \in [Methods -> Nat], NEW iv, NEW vi2, vi2 = [vi EXCEPT ![m] = slot],
         NEW iv2, iv2 = iv \cup {m}
  PROVE  Puts2(T, U, slot, m, c, vi, iv, vi2, iv2)
<1>1. Puts(T, U, slot, m) /\ U \in Seq(Methods)
  BY PutsPlaced
<1>2. vi2[m] = slot /\ \A x \in Methods : x # m => vi2[x] = vi[x]
  OBVIOUS
<1>3. Numbers(m, slot, vi, iv, vi2, iv2)
  BY <1>2 DEF Numbers
<1>4. Beside(c, vi, iv, vi2, iv2)
  BY <1>2 DEF Beside
<1> QED
  BY <1>1, <1>2, <1>3, <1>4 DEF Puts2

LEMMA PlacedAlready ==
  ASSUME NEW T \in Seq(Methods), NEW slot \in DOMAIN T, NEW m, T[slot] = m,
         NEW c, NEW D, NEW vi, NEW iv, NEW vt, Entries(c, T, D, vi, iv, vt)
  PROVE  Puts2(T, T, slot, m, c, vi, iv, vi, iv)
<1>1. Unique(T) /\ m \in iv /\ (m.class = c => vi[m] = slot)
  BY DEF Entries, Entry
<1>2. Puts(T, T, slot, m)
  BY <1>1, PutsSame
<1>3. Numbers(m, slot, vi, iv, vi, iv) /\ Beside(c, vi, iv, vi, iv)
  BY <1>1 DEF Numbers, Beside
<1> QED
  BY <1>1, <1>2, <1>3 DEF Puts2

LEMMA NestedRow ==
  ASSUME NEW row, NEW i, NEW n, NEW slot, NEW row2, row2 = [row EXCEPT ![i][n] = slot]
  PROVE  RowFilled(row, i, n, slot, row2)
<1>1. DOMAIN row2 = DOMAIN row
  OBVIOUS
<1>2. ASSUME NEW j \in DOMAIN row
      PROVE  /\ DOMAIN row2[j] = DOMAIN row[j]
             /\ \A k \in DOMAIN row[j] : row2[j][k] = IF j = i /\ k = n THEN slot ELSE row[j][k]
  <2>1. row2[j] = IF j = i THEN [row[j] EXCEPT ![n] = slot] ELSE row[j]
    BY <1>2
  <2> QED
    BY <2>1
<1> QED
  BY <1>1, <1>2 DEF RowFilled

SlotIn(T, m) ==
  LET same == {i \in DOMAIN T : T[i] = m}
  IN  IF same # {} THEN CHOOSE i \in same : \A j \in same : i <= j
      ELSE IF Missing(T, m) THEN Len(T) + 1 ELSE FirstSlot(T, m.signature)

LEMMA SlotFor ==
  ASSUME NEW T \in Seq(Methods), NEW m, NEW slot,
         slot = SlotIn(T, m)
  PROVE  \/ slot \in DOMAIN T /\ T[slot] = m
         \/ (~ \E p \in DOMAIN T : T[p] = m) /\
            ((slot = Len(T) + 1 /\ Missing(T, m)) \/ (slot \in DOMAIN T /\ T[slot].signature = m.signature))
<1> DEFINE same == {i \in DOMAIN T : T[i] = m}
<1>1. CASE same # {}
  <2>1. same \in SUBSET Nat
    OBVIOUS
  <2>2. \E x \in same : \A y \in same : x <= y
    BY <1>1, <2>1, Least
  <2>3. slot \in same
    BY <1>1, <2>2 DEF SlotIn
  <2> QED
    BY <2>3
<1>2. CASE same = {} /\ Missing(T, m)
  BY <1>2 DEF SlotIn
<1>3. CASE same = {} /\ ~Missing(T, m)
  <2>1. slot = FirstSlot(T, m.signature)
    BY <1>3 DEF SlotIn
  <2>2. Slots(T, m.signature) # {}
    BY <1>3 DEF Missing
  <2>3. slot \in DOMAIN T /\ T[slot].signature = m.signature
    BY <2>1, <2>2, FirstSlotIn
  <2> QED
    BY <1>3, <2>3
<1> QED
  BY <1>1, <1>2, <1>3

LEMMA Put2Facts ==
  ASSUME NEW T, NEW U, NEW slot, NEW m, NEW c, NEW vi, NEW iv, NEW vi2, NEW iv2,
         Puts2(T, U, slot, m, c, vi, iv, vi2, iv2)
  PROVE  /\ Puts(T, U, slot, m) /\ U \in Seq(Methods) /\ Numbers(m, slot, vi, iv, vi2, iv2)
         /\ (m.class = c => vi2[m] = slot) /\ Beside(c, vi, iv, vi2, iv2)
         /\ (Chosen(iv) /\ (m.class \notin Interfaces => ByObject(m, m.class)) => Chosen(iv2))
BY DEF Puts2, Chosen

LEMMA ImplementDispatch ==
  ASSUME TInv, PInv, GInv, phase \in {"interfaces", "classes"}, Implement
  PROVE  GInv'
<1>1. PICK t : t = Top
  OBVIOUS
<1>2. PICK h : h = Head(t.todo)
  OBVIOUS
<1>3. calls # <<>> /\ t.todo # <<>> /\ h.op = "implement"
  BY <1>1, <1>2 DEF Implement, Doing
<1>4. PICK c, w, T, row, i, n : c = t.class /\ w = Wanted /\ T = t.table /\ row = itables[c] /\ i = h.interface /\ n = h.index
  OBVIOUS
<1>5. PICK m, slot : m = [class |-> Implementing(c), signature |-> w] /\ slot = ImplementationSlot(m)
  OBVIOUS
<1>6. PICK row2 : row2 = [row EXCEPT ![i][n] = slot]
  OBVIOUS
<1>7. /\ Implementing(c) # None /\ itables' = [itables EXCEPT ![c][i][n] = slot]
      /\ UNCHANGED <<program, phase, calculated, vtables, errors>>
  BY <1>1, <1>2, <1>4, <1>5 DEF Implement, Implementation, Item
<1>8. IF slot \in DOMAIN T /\ T[slot] = m
      THEN calls' = Advance(T) /\ vtable_index' = vtable_index /\ is_virtual' = is_virtual
      ELSE calls' = Advance(Placed(T, slot, m)) /\ vtable_index' = [vtable_index EXCEPT ![m] = slot] /\ is_virtual' = is_virtual \cup {m}
  BY <1>1, <1>4, <1>5 DEF Implement, Implementation, Place
<1>9. PICK U : /\ calls' = Advance(U)
               /\ \/ slot \in DOMAIN T /\ T[slot] = m /\ U = T /\ vtable_index' = vtable_index /\ is_virtual' = is_virtual
                  \/ /\ ~(slot \in DOMAIN T /\ T[slot] = m) /\ U = Placed(T, slot, m)
                     /\ vtable_index' = [vtable_index EXCEPT ![m] = slot] /\ is_virtual' = is_virtual \cup {m}
  BY <1>8
<1>10. /\ c \in Classes /\ ActivationOK(t) /\ program \in Programs /\ T \in Seq(Methods)
       /\ vtable_index \in [Methods -> Nat] /\ DOMAIN itables = Classes
  BY <1>1, <1>3, <1>4, TopFacts DEF TInv, TypesOK, GInv
<1>11. c \notin Interfaces
  BY <1>2, <1>3, <1>4, <1>10, TodoNext DEF ActivationOK
<1>12. DOMAIN itables' = Classes /\ itables'[c] = row2 /\ \A x \in Classes : x # c => itables'[x] = itables[x]
  BY <1>4, <1>6, <1>7, <1>10
<1>13. PICK z : Advances(z, t, U)
  BY DEF Advances
<1>14. ASSUME Tame, errors' = {}
       PROVE  /\ errors = {} /\ Chosen(is_virtual') /\ Beside(c, vtable_index, is_virtual, vtable_index', is_virtual')
              /\ Busy(z, vtables, itables', vtable_index', is_virtual')
  <2>1. errors = {}
    BY <1>7, <1>14
  <2>2. ClassAt(t)
    BY <1>1, <1>3, <1>4, <1>11, <1>14, <2>1, ClassNext
  <2>3. PICK D, E, vi2, iv2, it : D = Listed(t.todo) /\ E = Listed(Tail(t.todo)) /\ vi2 = vtable_index' /\ iv2 = is_virtual' /\ it = itables'
    OBVIOUS
  <2>4. ClassOK(c, T, D, row, vtable_index, is_virtual, vtables) /\ Leaves(D, h, E) /\ Straight(c)
    BY <1>2, <1>4, <2>2, <2>3 DEF ClassAt
  <2>5. Entries(c, T, D, vtable_index, is_virtual, vtables)
    BY <2>4 DEF ClassOK
  <2>6. /\ m \in Methods /\ m.signature = w /\ w = vtables[h.interface][h.index].signature /\ Wins(c, m)
        /\ ByObject(m, m.class)
        /\ m.class # c => \E p \in DOMAIN t.table : t.table[p] = m
    BY <1>1, <1>2, <1>3, <1>4, <1>5, <1>7, <1>11, <1>14, <2>1, ImplementWins
  <2>7. Puts2(T, U, slot, m, c, vtable_index, is_virtual, vi2, iv2)
    <3>1. CASE slot \in DOMAIN T /\ T[slot] = m
      <4>1. U = T /\ vi2 = vtable_index /\ iv2 = is_virtual
        BY <1>9, <2>3, <3>1
      <4>2. Puts2(T, T, slot, m, c, vtable_index, is_virtual, vtable_index, is_virtual)
        BY <1>10, <2>5, <3>1, PlacedAlready
      <4> QED
        BY <4>1, <4>2
    <3>2. CASE ~(slot \in DOMAIN T /\ T[slot] = m)
      <4>1. U = Placed(T, slot, m) /\ vi2 = [vtable_index EXCEPT ![m] = slot] /\ iv2 = is_virtual \cup {m}
        BY <1>9, <2>3, <3>2
      <4>2. slot = SlotIn(T, m)
        BY <1>1, <1>4, <1>5 DEF ImplementationSlot, Free, SlotIn
      <4>3. /\ ~ \E p \in DOMAIN T : T[p] = m
            /\ (slot = Len(T) + 1 /\ Missing(T, m)) \/ (slot \in DOMAIN T /\ T[slot].signature = m.signature)
        BY <1>10, <3>2, <4>2, SlotFor
      <4>4. m.class = c
        BY <1>4, <2>6, <4>3
      <4>5. Unique(T)
        BY <2>5 DEF Entries
      <4> QED
        BY <1>10, <2>6, <4>1, <4>3, <4>4, <4>5, PlacedAnew
    <3> QED
      BY <3>1, <3>2
  <2>8. /\ Puts(T, U, slot, m) /\ U \in Seq(Methods) /\ Numbers(m, slot, vtable_index, is_virtual, vi2, iv2)
        /\ (m.class = c => vi2[m] = slot) /\ Beside(c, vtable_index, is_virtual, vi2, iv2)
        /\ (Chosen(is_virtual) /\ (m.class \notin Interfaces => ByObject(m, m.class)) => Chosen(iv2))
    BY <2>7, Put2Facts
  <2>9. RowFilled(row, h.interface, h.index, slot, row2)
    BY <1>4, <1>6, NestedRow
  <2>10. m.signature = vtables[h.interface][h.index].signature
    BY <2>6
  <2>11. ClassOK(c, U, E, row2, vi2, iv2, vtables)
    BY <1>3, <1>10, <2>4, <2>6, <2>8, <2>9, <2>10, Implemented
  <2>12. ClassOK(t.class, U, Listed(Tail(t.todo)), it[t.class], vi2, iv2, vtables)
    BY <1>4, <1>12, <2>3, <2>11
  <2>13. Busy(z, vtables, it, vi2, iv2)
    BY <1>13, <2>2, <2>12, ClassGoesOn
  <2>14. Chosen(is_virtual)
    BY <1>14, <2>1 DEF GInv, Good
  <2> QED
    BY <2>1, <2>3, <2>6, <2>8, <2>13, <2>14
<1> QED
  BY <1>1, <1>3, <1>4, <1>7, <1>9, <1>12, <1>13, <1>14, DispatchAdvances

(* A declared method. *)
LEMMA DeclareLeaves ==
  ASSUME NEW D, NEW h, NEW E, Leaves(D, h, E), h.op = "declare"
  PROVE  /\ \A i : Opens(i) \in D => Opens(i) \in E
         /\ \A i, n : Fills(i, n) \in D => Fills(i, n) \in E
BY DEF Leaves, Opens, Fills

LEMMA DeclareDone ==
  ASSUME NEW D, NEW h, NEW E, Leaves(D, h, E), h.op = "declare", NEW c, NEW vt, NEW s, Due(c, s, D, vt),
         h.method = Own(c, s) => Modifier(Own(c, s)) = "plain"
  PROVE  Due(c, s, E, vt)
<1>1. D \subseteq {h} \cup E
  BY DEF Leaves
<1>2. h = Declare(Own(c, s)) => Modifier(Own(c, s)) = "plain"
  BY DEF Declare
<1>3. Modifier(Own(c, s)) = "plain" => \A i, n : h = Fills(i, n) => vt[i][n].signature # s
  BY DEF Fills
<1> QED
  BY <1>1, <1>2, <1>3, DueLater

LEMMA DeclaredPlain ==
  ASSUME NEW c, NEW T, NEW D, NEW E, NEW h, Leaves(D, h, E), h.op = "declare", Modifier(h.method) = "plain",
         NEW row, NEW vi, NEW iv, NEW vt, ClassOK(c, T, D, row, vi, iv, vt)
  PROVE  ClassOK(c, T, E, row, vi, iv, vt)
<1>1. ASSUME NEW s, Due(c, s, D, vt) PROVE Due(c, s, E, vt)
  <2>1. h.method = Own(c, s) => Modifier(Own(c, s)) = "plain"
    OBVIOUS
  <2> QED
    BY <1>1, <2>1, DeclareDone
<1>2. Entries(c, T, E, vi, iv, vt)
  BY <1>1 DEF ClassOK, Entries, Entry
<1>3. Covered(c, T, E, vt)
  BY <1>1 DEF ClassOK, Covered
<1>4. /\ \A i : Opens(i) \in D => Opens(i) \in E
      /\ \A i, n : Fills(i, n) \in D => Fills(i, n) \in E
  BY DeclareLeaves
<1>5. Full(c, row, E, vt)
  BY <1>4 DEF ClassOK, Full
<1>6. Fits(c, T, E, row, vt)
  BY DEF ClassOK, Fits, Leaves
<1>7. Leads(row, T, vt)
  BY DEF ClassOK
<1> QED
  BY <1>2, <1>3, <1>5, <1>6, <1>7 DEF ClassOK

LEMMA DeclaredPlaced ==
  ASSUME program \in Programs, NEW c, Straight(c), NEW T \in Seq(Methods), NEW D, NEW E, NEW h,
         Leaves(D, h, E), h.op = "declare",
         NEW row, NEW vi, NEW iv, NEW vt, ClassOK(c, T, D, row, vi, iv, vt),
         NEW m, m = h.method,
         NEW U \in Seq(Methods), NEW slot, Puts(T, U, slot, m), Wins(c, m),
         NEW vi2, NEW iv2, Numbers(m, slot, vi, iv, vi2, iv2), m.class = c => vi2[m] = slot
  PROVE  ClassOK(c, U, E, row, vi2, iv2, vt)
<1>1. Goes(c, m, D, E, vt)
  <2> SUFFICES ASSUME NEW s, s # m.signature, Due(c, s, D, vt) PROVE Due(c, s, E, vt)
    BY DEF Goes
  <2>1. h.method = Own(c, s) => Modifier(Own(c, s)) = "plain"
    BY DEF Own
  <2> QED
    BY <2>1, DeclareDone
<1>2. Entries(c, U, E, vi2, iv2, vt)
  <2>1. Entries(c, T, D, vi, iv, vt)
    BY DEF ClassOK
  <2> QED
    BY <1>1, <2>1, PutEntries
<1>3. Covered(c, U, E, vt)
  <2>1. Covered(c, T, D, vt)
    BY DEF ClassOK
  <2> QED
    BY <1>1, <2>1, PutCovered
<1>4. Leads(row, U, vt)
  <2>1. Leads(row, T, vt)
    BY DEF ClassOK
  <2> QED
    BY <2>1, PutLeads
<1>5. /\ \A i : Opens(i) \in D => Opens(i) \in E
      /\ \A i, n : Fills(i, n) \in D => Fills(i, n) \in E
  BY DeclareLeaves
<1>6. Full(c, row, E, vt)
  BY <1>5 DEF ClassOK, Full
<1>7. ASSUME NEW x \in E, x.op = "declare", NEW p \in DOMAIN U PROVE U[p] # x.method
  <2>1. x \in D /\ x.method # m
    BY <1>7 DEF Leaves
  <2>2. CASE p = slot
    BY <2>1, <2>2 DEF Puts
  <2>3. CASE p \in DOMAIN T /\ U[p] = T[p]
    BY <1>7, <2>1, <2>3 DEF ClassOK, Fits
  <2> QED
    BY <2>2, <2>3 DEF Puts
<1>8. Fits(c, U, E, row, vt)
  BY <1>7 DEF ClassOK, Fits, Leaves
<1> QED
  BY <1>2, <1>3, <1>4, <1>6, <1>8 DEF ClassOK

(* Where the position of a new method is. *)
LEMMA NewIsMissing ==
  ASSUME program \in Programs, ~Hides, NEW c \in Classes, c \notin Interfaces, Straight(c), NEW m \in Methods, m.class = c,
         Modifier(m) \notin {"plain", "override"},
         NEW T \in Seq(Methods), NEW D, NEW vi, NEW iv, NEW vt, Entries(c, T, D, vi, iv, vt),
         \A p \in DOMAIN T : T[p] # m
  PROVE  Missing(T, m)
<1> SUFFICES ASSUME NEW p \in DOMAIN T, T[p].signature = m.signature PROVE FALSE
  BY DEF Missing, Slots
<1>1. T[p] \in Methods
  OBVIOUS
<1>2. T[p].class # c
  <2>1. T[p] = Own(T[p].class, T[p].signature) /\ m = Own(m.class, m.signature)
    BY <1>1, MethodParts
  <2> QED
    BY <2>1
<1>3. Replaceable(program[c].base, m.signature)
  BY <1>2 DEF Entries, Entry
<1> QED
  BY <1>3, NoHiding

LEMMA DeclaredWins ==
  ASSUME program \in Programs, NEW c \in Classes, c \notin Interfaces, Straight(c), NEW m \in Methods, m.class = c
  PROVE  Wins(c, m)
<1>1. m = Own(c, m.signature) /\ Declares(c, m.signature)
  BY MethodParts
<1>2. Declaring(c, m.signature) = Own(c, m.signature)
  BY <1>1, DeclaringFacts
<1> QED
  BY <1>1, <1>2 DEF Wins

LEMMA DeclareClass ==
  ASSUME TInv, GInv, phase # "thrown", Tame, errors = {}, DeclareMethod, NEW t, t = Top, NEW c, c = t.class, c \notin Interfaces,
         NEW U, calls' = Advance(U), NEW vi2, vi2 = vtable_index', NEW iv2, iv2 = is_virtual',
         NEW m, m = Item.method, NEW slot, slot = DeclaredSlot(m),
         IF slot = 0 THEN U = t.table /\ vi2 = vtable_index /\ iv2 = is_virtual
         ELSE U = Placed(t.table, slot, m) /\ vi2 = [vtable_index EXCEPT ![m] = slot] /\ iv2 = is_virtual \cup {m}
  PROVE  /\ Chosen(iv2) /\ Beside(c, vtable_index, is_virtual, vi2, iv2)
         /\ ClassOK(c, U, Listed(Tail(t.todo)), itables[c], vi2, iv2, vtables) /\ ClassAt(t)
<1>1. PICK h : h = Head(t.todo)
  OBVIOUS
<1>2. calls # <<>> /\ t.todo # <<>> /\ h.op = "declare" /\ m = h.method
      /\ ~(Modifier(m) = "override" /\ Missing(t.table, m))
  BY <1>1 DEF DeclareMethod, Doing, Item
<1>3. ClassAt(t)
  BY <1>2, ClassNext
<1>4. /\ c \in Classes /\ Straight(c) /\ t.table \in Seq(Methods) /\ ActivationOK(t) /\ program \in Programs
      /\ vtable_index \in [Methods -> Nat] /\ ~Hides
  BY <1>2, <1>3, TopFacts DEF ClassAt, TInv, TypesOK, Tame
<1>5. m \in Methods /\ m.class = c
  BY <1>1, <1>2, <1>4, TodoNext DEF ActivationOK
<1>6. PICK D, E, T, row : D = Listed(t.todo) /\ E = Listed(Tail(t.todo)) /\ T = t.table /\ row = itables[c]
  OBVIOUS
<1>7. ClassOK(c, T, D, row, vtable_index, is_virtual, vtables) /\ Leaves(D, h, E)
  BY <1>1, <1>3, <1>6 DEF ClassAt
<1>8. Chosen(is_virtual)
  BY DEF GInv, Good
<1>9. slot = IF Modifier(m) = "override" /\ ~Missing(T, m) THEN FirstSlot(T, m.signature)
             ELSE IF Modifier(m) = "plain" THEN 0 ELSE Len(T) + 1
  BY <1>6 DEF DeclaredSlot, Free
<1>10. CASE Modifier(m) = "plain"
  <2>1. U = T /\ vi2 = vtable_index /\ iv2 = is_virtual
    BY <1>6, <1>9, <1>10
  <2>2. ClassOK(c, T, E, row, vtable_index, is_virtual, vtables)
    BY <1>2, <1>7, <1>10, DeclaredPlain
  <2>3. Beside(c, vtable_index, is_virtual, vtable_index, is_virtual)
    BY DEF Beside
  <2> QED
    BY <1>3, <1>6, <1>8, <2>1, <2>2, <2>3
<1>11. CASE Modifier(m) # "plain"
  <2>1. Entries(c, T, D, vtable_index, is_virtual, vtables) /\ \A p \in DOMAIN T : T[p] # m
    BY <1>2, <1>7 DEF ClassOK, Fits, Leaves
  <2>2. T \in Seq(Methods)
    BY <1>4, <1>6
  <2>3. (slot = Len(T) + 1 /\ Missing(T, m)) \/ (slot \in DOMAIN T /\ T[slot].signature = m.signature)
    <3>1. CASE Modifier(m) = "override"
      <4>1. Slots(T, m.signature) # {} /\ slot = FirstSlot(T, m.signature)
        BY <1>2, <1>6, <1>9, <3>1 DEF Missing
      <4> QED
        BY <2>2, <4>1, FirstSlotIn
    <3>2. CASE Modifier(m) # "override"
      <4>1. slot = Len(T) + 1
        BY <1>9, <1>11, <3>2
      <4>2. Modifier(m) \notin {"plain", "override"}
        BY <1>11, <3>2
      <4>3. Missing(T, m)
        BY <1>4, <1>5, <2>1, <2>2, <4>2, NewIsMissing
      <4> QED
        BY <4>1, <4>3
    <3> QED
      BY <3>1, <3>2
  <2>4. slot # 0
    BY <2>2, <2>3
  <2>5. U = Placed(T, slot, m) /\ vi2 = [vtable_index EXCEPT ![m] = slot] /\ iv2 = is_virtual \cup {m}
    BY <1>6, <2>4
  <2>6. Unique(T)
    BY <2>1 DEF Entries
  <2>7. Puts2(T, U, slot, m, c, vtable_index, is_virtual, vi2, iv2)
    BY <1>4, <1>5, <2>2, <2>3, <2>5, <2>6, PlacedAnew
  <2>8. /\ Puts(T, U, slot, m) /\ U \in Seq(Methods) /\ Numbers(m, slot, vtable_index, is_virtual, vi2, iv2)
        /\ (m.class = c => vi2[m] = slot) /\ Beside(c, vtable_index, is_virtual, vi2, iv2)
        /\ (Chosen(is_virtual) /\ (m.class \notin Interfaces => ByObject(m, m.class)) => Chosen(iv2))
    BY <2>7, Put2Facts
  <2>9. ByObject(m, m.class)
    BY <1>11 DEF ByObject
  <2>10. Wins(c, m)
    BY <1>4, <1>5, DeclaredWins
  <2>11. ClassOK(c, U, E, row, vi2, iv2, vtables)
    BY <1>2, <1>4, <1>7, <2>2, <2>8, <2>10, DeclaredPlaced
  <2> QED
    BY <1>3, <1>6, <1>8, <2>8, <2>9, <2>11
<1> QED
  BY <1>10, <1>11

LEMMA InterfaceNext ==
  ASSUME TInv, GInv, phase # "thrown", Tame, errors = {}, calls # <<>>, NEW t, t = Top, t.todo # <<>>,
         t.class \in Interfaces
  PROVE  /\ InterfaceOK(t.class, t.table, Listed(t.todo), vtable_index, is_virtual)
         /\ Listed(t.todo) = {Head(t.todo)} \cup Listed(Tail(t.todo)) /\ Unique(t.table)
<1>1. t.todo \in Seq(Items) /\ ActivationOK(t)
  BY TopFacts
<1>2. PICK n \in DOMAIN calls : t = calls[n]
  BY TopFacts
<1>3. Busy(t, vtables, itables, vtable_index, is_virtual)
  BY <1>2 DEF GInv, Good
<1>4. PICK h, s, r : h = Head(t.todo) /\ s = t.todo /\ r = Tail(t.todo)
  OBVIOUS
<1>5. Splits(s, h, r) /\ s \in Seq(Items)
  BY <1>1, <1>4 DEF Splits
<1>6. Listed(s) = {h} \cup Listed(r)
  BY <1>5, RestListed
<1> QED
  BY <1>1, <1>3, <1>4, <1>6 DEF Busy, ActivationOK

LEMMA InterfaceDeclares ==
  ASSUME NEW c, NEW T, NEW D, NEW E, NEW h, D = {h} \cup E, h.op = "declare",
         NEW vi, NEW iv, InterfaceOK(c, T, D, vi, iv), NEW m, m = h.method, m.class = c,
         NEW U, NEW slot, NEW vi2, NEW iv2, Puts2(T, U, slot, m, c, vi, iv, vi2, iv2)
  PROVE  InterfaceOK(c, U, E, vi2, iv2)
<1>1. /\ Puts(T, U, slot, m) /\ Numbers(m, slot, vi, iv, vi2, iv2) /\ vi2[m] = slot
  BY DEF Puts2
<1>2. ASSUME NEW p \in DOMAIN U PROVE U[p].class \in {c} \cup Gathered(c)
  <2>1. U[p] = m \/ (p \in DOMAIN T /\ U[p] = T[p])
    BY <1>1 DEF Puts
  <2> QED
    BY <2>1 DEF InterfaceOK
<1>3. ASSUME NEW x \in Methods, x.class = c, Declare(x) \notin E
      PROVE  x \in iv2 /\ vi2[x] \in DOMAIN U /\ U[vi2[x]].signature = x.signature
  <2>1. CASE x = m
    BY <1>1, <2>1 DEF Puts, Numbers
  <2>2. CASE x # m
    <3>1. Declare(x) \notin D
      BY <1>3, <2>2 DEF Declare
    <3>2. x \in iv /\ vi[x] \in DOMAIN T /\ T[vi[x]].signature = x.signature
      BY <1>3, <3>1 DEF InterfaceOK
    <3>3. x \in iv2 /\ vi2[x] = vi[x]
      BY <1>1, <2>2, <3>2 DEF Numbers
    <3> QED
      BY <1>1, <3>2, <3>3 DEF Puts
  <2> QED
    BY <2>1, <2>2
<1>4. \A x \in E : x.op = "inherit" => x.from \in Gathered(c)
  BY DEF InterfaceOK
<1> QED
  BY <1>2, <1>3, <1>4 DEF InterfaceOK

LEMMA DeclareInterface ==
  ASSUME TInv, GInv, phase # "thrown", Tame, errors = {}, DeclareMethod, NEW t, t = Top, NEW c, c = t.class, c \in Interfaces,
         NEW U, NEW vi2, NEW iv2, NEW m, m = Item.method, NEW slot, slot = DeclaredSlot(m),
         IF slot = 0 THEN U = t.table /\ vi2 = vtable_index /\ iv2 = is_virtual
         ELSE U = Placed(t.table, slot, m) /\ vi2 = [vtable_index EXCEPT ![m] = slot] /\ iv2 = is_virtual \cup {m}
  PROVE  /\ Chosen(iv2) /\ Beside(c, vtable_index, is_virtual, vi2, iv2)
         /\ InterfaceOK(c, U, Listed(Tail(t.todo)), vi2, iv2)
<1>1. PICK h : h = Head(t.todo)
  OBVIOUS
<1>2. calls # <<>> /\ t.todo # <<>> /\ h.op = "declare" /\ m = h.method
  BY <1>1 DEF DeclareMethod, Doing, Item
<1>3. /\ InterfaceOK(c, t.table, Listed(t.todo), vtable_index, is_virtual)
      /\ Listed(t.todo) = {h} \cup Listed(Tail(t.todo)) /\ Unique(t.table)
  BY <1>1, <1>2, InterfaceNext
<1>4. /\ c \in Classes /\ t.table \in Seq(Methods) /\ ActivationOK(t) /\ program \in Programs
      /\ vtable_index \in [Methods -> Nat]
  BY <1>2, TopFacts DEF TInv, TypesOK
<1>5. m \in Methods /\ m.class = c
  BY <1>1, <1>2, <1>4, TodoNext DEF ActivationOK
<1>6. PICK D, E, T : D = Listed(t.todo) /\ E = Listed(Tail(t.todo)) /\ T = t.table
  OBVIOUS
<1>7. T \in Seq(Methods) /\ Unique(T)
  BY <1>3, <1>4, <1>6
<1>8. (slot = Len(T) + 1 /\ Missing(T, m)) \/ (slot \in DOMAIN T /\ T[slot].signature = m.signature)
  <2>1. slot = IF ~Missing(T, m) THEN FirstSlot(T, m.signature) ELSE Len(T) + 1
    BY <1>6 DEF DeclaredSlot, Free
  <2>2. CASE Missing(T, m)
    BY <2>1, <2>2
  <2>3. CASE ~Missing(T, m)
    <3>1. Slots(T, m.signature) # {} /\ slot = FirstSlot(T, m.signature)
      BY <2>1, <2>3 DEF Missing
    <3> QED
      BY <1>7, <3>1, FirstSlotIn
  <2> QED
    BY <2>2, <2>3
<1>9. slot # 0
  BY <1>7, <1>8
<1>10. U = Placed(T, slot, m) /\ vi2 = [vtable_index EXCEPT ![m] = slot] /\ iv2 = is_virtual \cup {m}
  BY <1>6, <1>9
<1>11. Puts2(T, U, slot, m, c, vtable_index, is_virtual, vi2, iv2)
  BY <1>4, <1>5, <1>7, <1>8, <1>10, PlacedAnew
<1>12. D = {h} \cup E /\ InterfaceOK(c, T, D, vtable_index, is_virtual)
  BY <1>3, <1>6
<1>13. InterfaceOK(c, U, E, vi2, iv2)
  BY <1>2, <1>5, <1>11, <1>12, InterfaceDeclares
<1>14. Chosen(is_virtual)
  BY DEF GInv, Good
<1>15. Chosen(iv2) /\ Beside(c, vtable_index, is_virtual, vi2, iv2)
  BY <1>5, <1>11, <1>14, Put2Facts
<1> QED
  BY <1>6, <1>13, <1>15

LEMMA DeclareMethodDispatch ==
  ASSUME TInv, GInv, phase # "thrown", DeclareMethod
  PROVE  GInv'
<1>1. PICK t, c, m, slot : t = Top /\ c = t.class /\ m = Item.method /\ slot = DeclaredSlot(m)
  OBVIOUS
<1>2. PICK vi2, iv2 : vi2 = vtable_index' /\ iv2 = is_virtual'
  OBVIOUS
<1>3. PICK U : /\ calls' = Advance(U)
               /\ IF slot = 0 THEN U = t.table /\ vi2 = vtable_index /\ iv2 = is_virtual
                  ELSE U = Placed(t.table, slot, m) /\ vi2 = [vtable_index EXCEPT ![m] = slot] /\ iv2 = is_virtual \cup {m}
  <2>1. CASE slot = 0
    BY <1>1, <1>2, <2>1 DEF DeclareMethod
  <2>2. CASE slot # 0
    BY <1>1, <1>2, <2>2 DEF DeclareMethod, Place
  <2> QED
    BY <2>1, <2>2
<1>4. /\ calls # <<>> /\ t.todo # <<>>
      /\ UNCHANGED <<program, phase, calculated, vtables, itables, errors>>
  BY <1>1 DEF DeclareMethod, Doing
<1>5. PICK z : Advances(z, t, U)
  BY DEF Advances
<1>6. ASSUME Tame, errors' = {}
      PROVE  /\ errors = {} /\ Chosen(is_virtual') /\ Beside(c, vtable_index, is_virtual, vtable_index', is_virtual')
             /\ Busy(z, vtables, itables', vtable_index', is_virtual')
  <2>1. errors = {}
    BY <1>4, <1>6
  <2>2. CASE c \in Interfaces
    <3>1. /\ Chosen(iv2) /\ Beside(c, vtable_index, is_virtual, vi2, iv2)
          /\ InterfaceOK(c, U, Listed(Tail(t.todo)), vi2, iv2)
      BY <1>1, <1>3, <1>6, <2>1, <2>2, DeclareInterface
    <3>2. Busy(z, vtables, itables, vi2, iv2)
      BY <1>1, <1>5, <2>2, <3>1 DEF Advances, Busy
    <3> QED
      BY <1>2, <1>4, <2>1, <3>1, <3>2
  <2>3. CASE c \notin Interfaces
    <3>1. /\ Chosen(iv2) /\ Beside(c, vtable_index, is_virtual, vi2, iv2)
          /\ ClassOK(c, U, Listed(Tail(t.todo)), itables[c], vi2, iv2, vtables) /\ ClassAt(t)
      BY <1>1, <1>2, <1>3, <1>6, <2>1, <2>3, DeclareClass
    <3>2. Busy(z, vtables, itables, vi2, iv2)
      BY <1>1, <1>5, <3>1, ClassGoesOn
    <3> QED
      BY <1>2, <1>4, <2>1, <3>1, <3>2
  <2> QED
    BY <2>2, <2>3
<1>7. DOMAIN itables' = Classes /\ \A x \in Classes : x # c => itables'[x] = itables[x]
  BY <1>4 DEF GInv
<1> QED
  BY <1>1, <1>3, <1>4, <1>5, <1>6, <1>7, DispatchAdvances

(* A class takes over the tables of its base. *)
LEMMA InheritDone ==
  ASSUME NEW D, NEW h, NEW E, Leaves(D, h, E), h.op = "inherit", NEW c, NEW vt
  PROVE  /\ \A s : Due(c, s, D, vt) => Due(c, s, E, vt)
         /\ \A i : Opens(i) \in D => Opens(i) \in E
<1>1. \A i : Opens(i) \in D => Opens(i) \in E
  BY DEF Leaves, Opens
<1>2. ASSUME NEW s, Due(c, s, D, vt) PROVE Due(c, s, E, vt)
  <2>1. D \subseteq {h} \cup E
    BY DEF Leaves
  <2>2. h = Declare(Own(c, s)) => Modifier(Own(c, s)) = "plain"
    BY DEF Declare
  <2>3. Modifier(Own(c, s)) = "plain" => \A i, n : h = Fills(i, n) => vt[i][n].signature # s
    BY DEF Fills
  <2> QED
    BY <1>2, <2>1, <2>2, <2>3, DueLater
<1> QED
  BY <1>1, <1>2

LEMMA OverriddenIsDue ==
  ASSUME program \in Programs, ~Hides, NEW c \in Classes, c \notin Interfaces, Straight(c), NEW m \in Methods, m.class = c,
         Replaceable(program[c].base, m.signature), NEW D, NEW vt, Covered(c, <<>>, D, vt)
  PROVE  Due(c, m.signature, D, vt)
<1>1. ByObject(m, c)
  <2>1. CASE Modifier(m) # "plain"
    BY <2>1 DEF ByObject
  <2>2. CASE Modifier(m) = "plain"
    <3>1. m.signature \in InterfaceSignatures(c)
      BY <2>2, NoHiding
    <3> QED
      BY <2>2, <3>1, PlainByObject
  <2> QED
    BY <2>1, <2>2
<1> QED
  BY <1>1 DEF Covered

LEMMA ClassInherits ==
  ASSUME program \in Programs, Saturated, ~Hides, NEW c \in Classes, c \notin Interfaces, Straight(c),
         program[c].base # None, NEW base, base = program[c].base,
         NEW D, NEW h, NEW E, Leaves(D, h, E), h.op = "inherit", \A x \in E : x.op = "declare" => x.method.class = c,
         NEW T, NEW row, NEW vi, NEW iv, NEW vt, ClassOK(c, T, D, row, vi, iv, vt), Chosen(iv),
         NEW B \in Seq(Methods), NEW rowB, ClassOK(base, B, {}, rowB, vi, iv, vt)
  PROVE  ClassOK(c, B, E, rowB, vi, iv, vt)
<1>1. T = <<>> /\ row = <<>> /\ h \in D
  BY DEF ClassOK, Fits, Leaves
<1>2. /\ \A s : Due(c, s, D, vt) => Due(c, s, E, vt)
      /\ \A i : Opens(i) \in D => Opens(i) \in E
  BY InheritDone
<1>3. Straight(base) /\ c \notin Lineage(base) /\ base \in Classes /\ base \notin Interfaces
  <2>1. Straight(base) /\ c \notin Lineage(base)
    BY LineUp
  <2> QED
    BY <2>1, ProgramFacts DEF Straight
<1>4. Gathered(base) \subseteq Gathered(c)
  BY GatheredOf
<1>5. Covered(c, <<>>, D, vt)
  BY <1>1 DEF ClassOK
<1>6. ASSUME NEW p \in DOMAIN B
      PROVE  /\ B[p] \in Methods /\ B[p] \in iv /\ B[p].class \notin Interfaces
             /\ B[p] = Declaring(base, B[p].signature) /\ B[p].class \in Lineage(base) /\ B[p].class # c
             /\ Replaceable(base, B[p].signature)
  <2>1. B[p] \in Methods
    BY <1>6
  <2>2. B[p] \in iv /\ B[p].class \notin Interfaces
    BY <1>6 DEF ClassOK, Entries, Entry
  <2>3. B[p] = Declaring(base, B[p].signature)
    BY <1>6 DEF ClassOK, Entries, Entry, Due
  <2>4. B[p].class # None
    BY <2>1, MethodParts, ProgramFacts
  <2>5. PICK d, s : d = B[p] /\ s = B[p].signature
    OBVIOUS
  <2>6. d.class \in Lineage(base)
    BY <1>3, <2>3, <2>4, <2>5, DeclaringFacts
  <2>7. ByObject(d, d.class)
    BY <2>2, <2>5 DEF Chosen
  <2>8. Replaceable(base, d.signature)
    BY <1>3, <2>1, <2>5, <2>6, <2>7, CanBeReplaced
  <2> QED
    BY <1>3, <2>1, <2>2, <2>3, <2>5, <2>6, <2>8
<1>7. ASSUME NEW p \in DOMAIN B PROVE Entry(c, B, p, E, vi, iv, vt)
  <2>1. PICK d, s : d = B[p] /\ s = B[p].signature
    OBVIOUS
  <2>2. d = Declaring(c, s) \/ Due(c, s, E, vt)
    <3>1. CASE Declares(c, s)
      <4>1. Own(c, s) \in Methods /\ Own(c, s).class = c /\ Own(c, s).signature = s
        BY <3>1, DeclaredOne DEF Own
      <4>2. PICK m : m = Own(c, s)
        OBVIOUS
      <4>3. m \in Methods /\ m.class = c /\ m.signature = s /\ Replaceable(program[c].base, m.signature)
        BY <1>6, <1>7, <2>1, <4>1, <4>2
      <4>4. Due(c, m.signature, D, vt)
        BY <1>5, <4>3, OverriddenIsDue
      <4> QED
        BY <1>2, <4>3, <4>4
    <3>2. CASE ~Declares(c, s)
      <4>1. Declaring(c, s) = Declaring(base, s)
        BY <3>2, DeclaringFacts
      <4> QED
        BY <1>6, <2>1, <4>1
    <3> QED
      BY <3>1, <3>2
  <2> QED
    BY <1>6, <2>1, <2>2 DEF Entry
<1>8. Entries(c, B, E, vi, iv, vt)
  BY <1>7 DEF Entries, ClassOK
<1>9. Covered(c, B, E, vt)
  <2> SUFFICES ASSUME NEW m \in Methods, m.class = c, ByObject(m, c) PROVE Due(c, m.signature, E, vt)
    BY DEF Covered
  <2>1. Due(c, m.signature, D, vt)
    BY <1>5 DEF Covered
  <2> QED
    BY <1>2, <2>1
<1>10. Leads(rowB, B, vt)
  BY DEF ClassOK
<1>11. \A i \in Gathered(c) : Opens(i) \in E
  BY <1>1, <1>2 DEF ClassOK, Full
<1>12. Full(c, rowB, E, vt)
  BY <1>4, <1>11 DEF ClassOK, Full
<1>13. ASSUME NEW x \in E
       PROVE  /\ x.op # "inherit" /\ (x.op = "declare" => \A p \in DOMAIN B : B[p] # x.method)
              /\ (x.op \in {"interface", "implement"} => x.interface \in Gathered(c))
              /\ (x.op = "implement" => x.index \in DOMAIN vt[x.interface])
  <2>1. x \in D /\ x.op # "inherit"
    BY DEF Leaves
  <2> QED
    BY <1>6, <2>1 DEF ClassOK, Fits
<1>14. Fits(c, B, E, rowB, vt)
  BY <1>13 DEF Fits
<1> QED
  BY <1>8, <1>9, <1>10, <1>12, <1>14 DEF ClassOK

(* An interface takes over the signatures of another. *)
LEMMA InterfaceInherits ==
  ASSUME program \in Programs, Saturated, NEW c \in Classes, NEW D, NEW h, NEW E, D = {h} \cup E, h.op = "inherit",
         NEW T \in Seq(Methods), NEW vi, NEW iv, InterfaceOK(c, T, D, vi, iv),
         NEW d, d = h.from, NEW B \in Seq(Methods), InterfaceOK(d, B, {}, vi, iv), NEW U, U = Merged(T, B)
  PROVE  InterfaceOK(c, U, E, vi, iv)
<1>1. d \in Gathered(c)
  BY DEF InterfaceOK
<1>2. Gathered(d) \subseteq Gathered(c)
  BY <1>1, GatheredWithin
<1>3. U \in Seq(Methods) /\ Extended(U, T, B, Len(B))
  BY MergedFacts
<1>4. /\ Len(T) <= Len(U) /\ \A i \in 1 .. Len(T) : U[i] = T[i]
      /\ \A i \in DOMAIN U : i <= Len(T) \/ \E j \in DOMAIN B : U[i] = B[j]
  BY <1>3 DEF Extended
<1>5. DOMAIN T = 1 .. Len(T) /\ Len(T) \in Nat /\ DOMAIN U = 1 .. Len(U) /\ Len(U) \in Nat
  BY <1>3, LenProperties
<1>6. \A p \in DOMAIN T : p \in DOMAIN U /\ U[p] = T[p]
  BY <1>4, <1>5
<1>7. \A p \in DOMAIN U : (p \in DOMAIN T /\ U[p] = T[p]) \/ \E j \in DOMAIN B : U[p] = B[j]
  BY <1>4, <1>5
<1>8. ASSUME NEW p \in DOMAIN U PROVE U[p].class \in {c} \cup Gathered(c)
  <2>1. CASE p \in DOMAIN T /\ U[p] = T[p]
    BY <2>1 DEF InterfaceOK
  <2>2. CASE \E j \in DOMAIN B : U[p] = B[j]
    <3>1. U[p].class \in {d} \cup Gathered(d)
      BY <2>2 DEF InterfaceOK
    <3> QED
      BY <1>1, <1>2, <3>1
  <2> QED
    BY <1>7, <2>1, <2>2
<1>9. ASSUME NEW x \in Methods, x.class = c, Declare(x) \notin E
      PROVE  x \in iv /\ vi[x] \in DOMAIN U /\ U[vi[x]].signature = x.signature
  <2>1. Declare(x) \notin D
    BY <1>9 DEF Declare
  <2> QED
    BY <1>6, <1>9, <2>1 DEF InterfaceOK
<1>10. \A x \in E : x.op = "inherit" => x.from \in Gathered(c)
  BY DEF InterfaceOK
<1> QED
  BY <1>8, <1>9, <1>10 DEF InterfaceOK

LEMMA InheritDispatch ==
  ASSUME TInv, GInv, phase # "thrown", Inherit
  PROVE  GInv'
<1>1. PICK t, c, h : t = Top /\ c = t.class /\ h = Head(t.todo)
  OBVIOUS
<1>2. PICK d, U, it : d = h.from /\ U = Inherited(d) /\ it = itables'
  OBVIOUS
<1>3. /\ calls # <<>> /\ t.todo # <<>> /\ h.op = "inherit" /\ calls' = Advance(U)
      /\ it = (IF c \in Interfaces THEN itables ELSE [itables EXCEPT ![c] = itables[d]])
      /\ errors' = {} => errors = {} /\ d \in calculated
      /\ UNCHANGED <<program, phase, calculated, vtables, vtable_index, is_virtual>>
  BY <1>1, <1>2 DEF Inherit, Doing, Item
<1>4. /\ c \in Classes /\ t.table \in Seq(Methods) /\ ActivationOK(t) /\ program \in Programs
      /\ DOMAIN itables = Classes /\ calculated \in SUBSET Classes /\ vtables \in [Classes -> Seq(Methods)]
  BY <1>1, <1>3, TopFacts DEF TInv, TypesOK, TablesOK, GInv
<1>5. PICK z : Advances(z, t, U)
  BY DEF Advances
<1>6. DOMAIN it = Classes /\ \A x \in Classes : x # c => it[x] = itables[x]
  BY <1>3, <1>4
<1>7. ASSUME Tame, errors' = {}
      PROVE  /\ errors = {} /\ Chosen(is_virtual) /\ Beside(c, vtable_index, is_virtual, vtable_index, is_virtual)
             /\ Busy(z, vtables, it, vtable_index, is_virtual)
  <2>1. errors = {} /\ d \in calculated
    BY <1>3, <1>7
  <2>2. Chosen(is_virtual) /\ Ready(d, vtables, itables, vtable_index, is_virtual)
    BY <1>7, <2>1 DEF GInv, Good
  <2>3. Beside(c, vtable_index, is_virtual, vtable_index, is_virtual)
    BY DEF Beside
  <2>4. Saturated /\ ~Hides /\ Straight(c)
    BY <1>4, <1>7 DEF Tame
  <2>5. PICK B, D, E, T : B = vtables[d] /\ D = Listed(t.todo) /\ E = Listed(Tail(t.todo)) /\ T = t.table
    OBVIOUS
  <2>6. B \in Seq(Methods) /\ T \in Seq(Methods)
    BY <1>4, <2>1, <2>5
  <2>7. CASE c \in Interfaces
    <3>1. d \in Interfaces
      BY <1>1, <1>2, <1>3, <1>4, <2>7, TodoNext DEF ActivationOK
    <3>2. InterfaceOK(d, B, {}, vtable_index, is_virtual)
      BY <2>2, <2>5, <3>1 DEF Ready
    <3>3. InterfaceOK(c, T, D, vtable_index, is_virtual) /\ D = {h} \cup E
      BY <1>1, <1>3, <1>7, <2>1, <2>5, <2>7, InterfaceNext
    <3>4. U = Merged(T, B)
      BY <1>1, <1>2, <2>5, <2>7 DEF Inherited
    <3>5. InterfaceOK(c, U, E, vtable_index, is_virtual)
      BY <1>2, <1>3, <1>4, <2>4, <2>6, <3>2, <3>3, <3>4, InterfaceInherits
    <3>6. Busy(z, vtables, it, vtable_index, is_virtual)
      BY <1>1, <1>5, <2>5, <2>7, <3>5 DEF Advances, Busy
    <3> QED
      BY <2>1, <2>2, <2>3, <3>6
  <2>8. CASE c \notin Interfaces
    <3>1. program[c].base = d /\ program[c].base # None
      BY <1>1, <1>2, <1>3, <1>4, <2>8, TodoNext, ProgramFacts DEF ActivationOK
    <3>2. d \notin Interfaces
      BY <1>4, <2>8, <3>1, ProgramFacts
    <3>3. ClassAt(t)
      BY <1>1, <1>3, <1>7, <2>1, <2>8, ClassNext
    <3>4. PICK row, rowB : row = itables[c] /\ rowB = itables[d]
      OBVIOUS
    <3>5. /\ ClassOK(c, T, D, row, vtable_index, is_virtual, vtables) /\ Leaves(D, h, E)
          /\ \A x \in E : x.op = "declare" => x.method.class = c
      BY <1>1, <2>5, <3>3, <3>4 DEF ClassAt
    <3>6. ClassOK(d, B, {}, rowB, vtable_index, is_virtual, vtables)
      BY <2>2, <2>5, <3>2, <3>4 DEF Ready
    <3>7. ClassOK(c, B, E, rowB, vtable_index, is_virtual, vtables)
      BY <1>3, <1>4, <2>2, <2>4, <2>6, <2>8, <3>1, <3>5, <3>6, ClassInherits
    <3>8. U = B /\ it[c] = rowB
      BY <1>1, <1>2, <1>3, <1>4, <2>5, <2>8, <3>4 DEF Inherited
    <3>9. ClassOK(t.class, U, Listed(Tail(t.todo)), it[t.class], vtable_index, is_virtual, vtables)
      BY <1>1, <2>5, <3>7, <3>8
    <3>10. Busy(z, vtables, it, vtable_index, is_virtual)
      BY <1>5, <3>3, <3>9, ClassGoesOn
    <3> QED
      BY <2>1, <2>2, <2>3, <3>10
  <2> QED
    BY <2>7, <2>8
<1>8. Tame /\ errors' = {} => /\ errors = {} /\ Chosen(is_virtual')
                              /\ Beside(c, vtable_index, is_virtual, vtable_index', is_virtual')
                              /\ Busy(z, vtables, itables', vtable_index', is_virtual')
  BY <1>2, <1>3, <1>7
<1>9. DOMAIN itables' = Classes /\ \A x \in Classes : x # c => itables'[x] = itables[x]
  BY <1>2, <1>6
<1> QED
  BY <1>1, <1>3, <1>5, <1>8, <1>9, DispatchAdvances

LEMMA DispatchInductive ==
  TInv /\ LInv /\ DInv /\ PInv /\ SInv /\ GInv /\ [Next]_vars => GInv'
<1> SUFFICES ASSUME TInv, LInv, DInv, PInv, SInv, GInv, [Next]_vars PROVE GInv'
  OBVIOUS
<1>1. ASSUME NEW c \in Classes, RegisterMembers(c) PROVE GInv'
  BY <1>1, DispatchStays DEF RegisterMembers
<1>2. ASSUME NEW c \in Classes, LayOut(c) PROVE GInv'
  BY <1>2, DispatchStays DEF LayOut
<1>3. ASSUME NextPass PROVE GInv'
  <2>1. phase # "thrown"
    <3>1. PICK to \in {Passes[i] : i \in 2..5} : Comes(phase, to)
      BY <1>3 DEF NextPass
    <3> QED
      BY <3>1 DEF Comes, Passes
  <2> QED
    BY <1>3, <2>1, DispatchStays DEF NextPass
<1>4. ASSUME UNCHANGED vars PROVE GInv'
  BY <1>4, DispatchStays DEF vars
<1>5. ASSUME phase # "thrown", Table PROVE GInv'
  <2>1. phase \in {"interfaces", "classes"}
    BY <1>5, TablePasses
  <2>2. ASSUME NEW c \in Classes, Begin(c) PROVE GInv'
    BY <2>2, BeginDispatch
  <2>3. CASE Recur
    BY <2>1, <2>3, RecurDispatch
  <2>4. CASE Inherit
    BY <1>5, <2>4, InheritDispatch
  <2>5. CASE DeclareMethod
    BY <1>5, <2>5, DeclareMethodDispatch
  <2>6. CASE OverridesNothing
    BY <1>5, <2>6, DispatchStays DEF OverridesNothing
  <2>7. CASE OpenInterface
    BY <1>5, <2>7, OpenInterfaceDispatch
  <2>8. CASE Implement
    BY <2>1, <2>8, ImplementDispatch
  <2>9. CASE DoesNotImplement
    BY <1>5, <2>9, DoesNotImplementDispatch
  <2>10. CASE Finish
    BY <2>1, <2>10, FinishDispatch
  <2> QED
    BY <1>5, <2>2, <2>3, <2>4, <2>5, <2>6, <2>7, <2>8, <2>9, <2>10 DEF Table
<1> QED
  BY <1>1, <1>2, <1>3, <1>4, <1>5 DEF Next

LEMMA DispatchInvariant ==
  Spec => [](TInv /\ LInv /\ DInv /\ PInv /\ SInv /\ GInv)
<1>1. Init => TInv /\ LInv /\ DInv /\ PInv /\ SInv /\ GInv
  BY InitTables, LayoutStarts, DestructorsStart, PassesStart, SettlingStarts, DispatchStarts
<1>2. TInv /\ LInv /\ DInv /\ PInv /\ SInv /\ GInv /\ [Next]_vars
        => (TInv /\ LInv /\ DInv /\ PInv /\ SInv /\ GInv)'
  BY TablesInductive, LayoutInductive, DestructorsInductive, PassesInductive, SettlingInductive, DispatchInductive
<1> QED
  BY <1>1, <1>2, PTL DEF Spec

-----------------------------------------------------------------------------
(* A program that is accepted: all tables are ready. *)
AllBound ==
  /\ Tame /\ AbstractsAreDeclared /\ program \in Programs /\ vtables \in [Classes -> Seq(Methods)]
  /\ \A c \in Classes : Ready(c, vtables, itables, vtable_index, is_virtual)
  /\ Chosen(is_virtual)
  /\ \A b \in Classes : \A x \in Lineage(b) : x \in Classes /\ ExtendsTable(vtables[x], vtables[b])

LEMMA BoundFacts ==
  ASSUME TInv, LInv, DInv, PInv, SInv, GInv, phase = "bound", ~Hides, ~InheritsImplementation
  PROVE  AllBound
<1>1. program \in Programs /\ vtables \in [Classes -> Seq(Methods)]
  BY DEF TInv, TypesOK, TablesOK
<1>2. errors = {} /\ calculated = Classes /\ AbstractsAreDeclared
  BY DEF PInv, Passing
<1>3. DOMAIN layout = Classes
  BY DEF LInv, DInv
<1>4. ASSUME NEW c \in Classes PROVE Straight(c)
  BY <1>3 DEF LInv, Laid, Straight
<1>5. Saturated
  <2>1. AllSettle(Classes)
    BY <1>2 DEF SInv
  <2> QED
    BY <1>1, <2>1, AllSettled
<1>6. Tame
  BY <1>4, <1>5 DEF Tame
<1>7. Good(calls, calculated, vtables, itables, vtable_index, is_virtual)
  BY <1>2, <1>6 DEF GInv
<1>8. \A c \in Classes : Ready(c, vtables, itables, vtable_index, is_virtual)
  BY <1>2, <1>7 DEF Good
<1>9. Chosen(is_virtual)
  BY <1>7 DEF Good
<1>10. ASSUME NEW b \in Classes PROVE \A x \in Lineage(b) : x \in Classes /\ ExtendsTable(vtables[x], vtables[b])
  <2>1. b \in calculated /\ Straight(b)
    BY <1>2, <1>4
  <2>2. \A x \in Lineage(b) : x \in calculated /\ ExtendsTable(vtables[x], vtables[b])
    BY <1>2, <2>1, LineExtends
  <2> QED
    BY <1>2, <2>2
<1> QED
  BY <1>1, <1>2, <1>6, <1>8, <1>9, <1>10 DEF AllBound

LEMMA BoundClass ==
  ASSUME AllBound, NEW c \in Classes, c \notin Interfaces
  PROVE  /\ Entries(c, vtables[c], {}, vtable_index, is_virtual, vtables)
         /\ Covered(c, vtables[c], {}, vtables)
         /\ Leads(itables[c], vtables[c], vtables)
         /\ Full(c, itables[c], {}, vtables)
         /\ Instantiable(c, vtables[c])
BY DEF AllBound, Ready, ClassOK

LEMMA BoundTame ==
  ASSUME AllBound
  PROVE  /\ program \in Programs /\ Saturated /\ \A c \in Classes : Straight(c)
         /\ vtables \in [Classes -> Seq(Methods)] /\ Interfaces \subseteq Classes
BY ProgramFacts DEF AllBound, Tame

(* The interface tables of a class are those of its interfaces. *)
LEMMA RowsOf ==
  ASSUME AllBound, NEW c \in Classes, c \notin Interfaces
  PROVE  DOMAIN itables[c] = Gathered(c)
<1>1. Full(c, itables[c], {}, vtables)
  BY BoundClass
<1> QED
  BY <1>1 DEF Full

LEMMA ImplementsGathered ==
  ASSUME NEW c, NEW i
  PROVE  Implements(c, i) <=> i \in Gathered(c)
BY DEF Implements, Gathered, Listed

LEMMA InstancesAreAssignable ==
  ASSUME AllBound, NEW object \in Classes, object \notin Interfaces, NEW type \in Classes
  PROVE  InstanceOf(object, type) <=> IsAssignable(type, object)
<1>1. program \in Programs /\ Saturated /\ Straight(object)
  BY BoundTame
<1>2. \A x \in Lineage(object) : x \in Classes /\ x \notin Interfaces /\ Gathered(x) \subseteq Gathered(object)
  BY <1>1, GatheredAbove
<1>3. \A x \in Lineage(object) : DOMAIN itables[x] = Gathered(x)
  BY <1>2, RowsOf
<1>4. object \in Lineage(object)
  BY <1>1, LineUp
<1>5. IsAssignable(type, object) <=> type \in Lineage(object) \/ type \in Gathered(object)
  BY ImplementsGathered DEF IsAssignable
<1>6. InstanceOf(object, type) <=> \E x \in Lineage(object) : x = type \/ type \in Gathered(x)
  BY <1>3 DEF InstanceOf
<1> QED
  BY <1>2, <1>4, <1>5, <1>6

(* What a call finds is declared by a class or interface above the type. *)
LEMMA LookupFacts ==
  ASSUME program \in Programs, NEW type \in Classes, Straight(type), NEW s, NEW m, m = Lookup(type, s), m.class # None
  PROVE  /\ m \in Methods /\ m.signature = s
         /\ m.class \in Lineage(type) \/ (type \in Interfaces /\ m.class \in Gathered(type))
<1> DEFINE above == AllInterfaces(type)
           in == {i \in DOMAIN above : Declares(above[i], s)}
<1>1. m = Declaring(type, s) \/ (type \in Interfaces /\ in # {} /\ m = Own(above[CHOOSE i \in in : \A j \in in : i <= j], s))
  BY DEF Lookup, Declaring, Own
<1>2. CASE m = Declaring(type, s)
  BY <1>2, DeclaringFacts
<1>3. CASE type \in Interfaces /\ in # {} /\ m = Own(above[CHOOSE i \in in : \A j \in in : i <= j], s)
  <2>1. above \in Seq(Interfaces)
    BY AllInterfacesType
  <2>2. in \in SUBSET Nat
    BY <2>1
  <2>3. \E i \in in : \A j \in in : i <= j
    BY <1>3, <2>2, Least
  <2>4. PICK i \in in : m = Own(above[i], s)
    BY <1>3, <2>3
  <2>5. Declares(above[i], s) /\ above[i] \in Gathered(type)
    BY <2>4 DEF Gathered, Listed
  <2>6. m \in Methods
    BY <2>4, <2>5, DeclaredOne
  <2> QED
    BY <1>3, <2>4, <2>5, <2>6 DEF Own
<1> QED
  BY <1>1, <1>2, <1>3

(* A position of an object that can be made. *)
LEMMA SlotReaches ==
  ASSUME AllBound, NEW object \in Concrete, NEW p \in DOMAIN vtables[object]
  PROVE  CallVirtual(object, p) = Declaring(object, vtables[object][p].signature)
<1>1. object \in Classes /\ object \notin Interfaces /\ program[object].kind = "class"
  BY DEF Concrete, Interfaces
<1>2. /\ Entries(object, vtables[object], {}, vtable_index, is_virtual, vtables)
      /\ Instantiable(object, vtables[object])
  BY <1>1, BoundClass
<1>3. PICK d : d = vtables[object][p]
  OBVIOUS
<1>4. d \in Methods
  BY <1>1, <1>3, BoundTame
<1>5. d.class \notin Interfaces /\ d = Declaring(object, d.signature)
  BY <1>2, <1>3 DEF Entries, Entry, Due
<1>6. Modifier(d) # "abstract"
  BY <1>1, <1>2, <1>3 DEF Instantiable
<1>7. d \notin is_abstract
  BY <1>4, <1>5, <1>6 DEF AllBound, AbstractsAreDeclared
<1> QED
  BY <1>3, <1>5, <1>7 DEF CallVirtual, Code

LEMMA InterfaceCallReaches ==
  ASSUME AllBound, NEW object \in Concrete, NEW m \in Methods, m.class \in Interfaces, m.class \in Gathered(object)
  PROVE  Call(object, m) = Promised(object, m)
<1>1. object \in Classes /\ object \notin Interfaces /\ program[object].kind = "class"
  BY DEF Concrete, Interfaces
<1>2. PICK i, n : i = m.class /\ n = vtable_index[m]
  OBVIOUS
<1>3. i \in Classes /\ i \in Interfaces /\ i \in Gathered(object)
  BY <1>2, BoundTame
<1>4. InterfaceOK(i, vtables[i], {}, vtable_index, is_virtual)
  BY <1>3 DEF AllBound, Ready
<1>5. m \in is_virtual /\ n \in DOMAIN vtables[i] /\ vtables[i][n].signature = m.signature
  BY <1>2, <1>4 DEF InterfaceOK
<1>6. Leads(itables[object], vtables[object], vtables) /\ Full(object, itables[object], {}, vtables)
  BY <1>1, BoundClass
<1>7. PICK slot : slot = itables[object][i][n]
  OBVIOUS
<1>8. i \in DOMAIN itables[object] /\ slot # 0
  BY <1>1, <1>3, <1>5, <1>6, <1>7 DEF Full
<1>9. n \in DOMAIN itables[object][i] /\ slot \in DOMAIN vtables[object] /\ vtables[object][slot].signature = m.signature
  BY <1>5, <1>6, <1>7, <1>8 DEF Leads
<1>10. Call(object, m) = CallVirtual(object, slot)
  BY <1>2, <1>3, <1>5, <1>7, <1>8, <1>9 DEF Call, CallInterface
<1>11. CallVirtual(object, slot) = Declaring(object, m.signature)
  BY <1>9, SlotReaches
<1>12. Promised(object, m) = Declaring(object, m.signature)
  BY DEF Promised, ByObject
<1> QED
  BY <1>10, <1>11, <1>12

LEMMA ClassCallReaches ==
  ASSUME AllBound, NEW object \in Concrete, NEW m \in Methods, m.class \in Lineage(object)
  PROVE  Call(object, m) = Promised(object, m)
<1>1. object \in Classes /\ object \notin Interfaces
  BY DEF Concrete, Interfaces
<1>2. PICK b : b = m.class
  OBVIOUS
<1>3. /\ program \in Programs /\ Saturated /\ Straight(object) /\ vtables \in [Classes -> Seq(Methods)]
  BY <1>1, BoundTame
<1>4. b \in Classes /\ b \notin Interfaces
  BY <1>1, <1>2, <1>3, ClassLine
<1>5. /\ Entries(b, vtables[b], {}, vtable_index, is_virtual, vtables)
      /\ Covered(b, vtables[b], {}, vtables)
  BY <1>4, BoundClass
<1>6. CASE ByObject(m, b)
  <2>1. ~Due(b, m.signature, {}, vtables)
    BY DEF Due
  <2>2. PICK p \in DOMAIN vtables[b] : vtables[b][p] = m
    BY <1>2, <1>5, <1>6, <2>1 DEF Covered
  <2>3. m \in is_virtual /\ vtable_index[m] = p
    BY <1>2, <1>5, <2>2 DEF Entries, Entry
  <2>4. ExtendsTable(vtables[b], vtables[object])
    BY <1>1, <1>2 DEF AllBound
  <2>5. p \in DOMAIN vtables[object] /\ vtables[object][p].signature = m.signature
    <3>1. PICK B, T : B = vtables[b] /\ T = vtables[object]
      OBVIOUS
    <3>2. B \in Seq(Methods) /\ T \in Seq(Methods)
      BY <1>1, <1>3, <1>4, <3>1
    <3>3. DOMAIN B = 1 .. Len(B) /\ Len(B) \in Nat /\ DOMAIN T = 1 .. Len(T) /\ Len(T) \in Nat
      BY <3>2, LenProperties
    <3>4. Len(B) <= Len(T) /\ \A k \in 1 .. Len(B) : T[k].signature = B[k].signature
      BY <2>4, <3>1 DEF ExtendsTable
    <3>5. p \in DOMAIN B /\ B[p] = m
      BY <2>2, <3>1
    <3>6. p \in DOMAIN T /\ T[p].signature = m.signature
      BY <3>3, <3>4, <3>5
    <3> QED
      BY <3>1, <3>6
  <2>6. Call(object, m) = CallVirtual(object, p)
    BY <1>2, <1>4, <2>3 DEF Call
  <2>7. CallVirtual(object, p) = Declaring(object, m.signature)
    BY <2>5, SlotReaches
  <2>8. Promised(object, m) = Declaring(object, m.signature)
    BY <1>2, <1>6 DEF Promised
  <2> QED
    BY <2>6, <2>7, <2>8
<1>7. CASE ~ByObject(m, b)
  <2>1. m \notin is_virtual
    BY <1>2, <1>4, <1>7 DEF AllBound, Chosen
  <2>2. Modifier(m) # "abstract"
    BY <1>7 DEF ByObject
  <2>3. m \notin is_abstract
    BY <1>2, <1>4, <2>2 DEF AllBound, AbstractsAreDeclared
  <2> QED
    BY <1>2, <1>7, <2>1, <2>3 DEF Call, Code, Promised
<1> QED
  BY <1>6, <1>7

LEMMA CallsReach ==
  ASSUME AllBound, NEW object \in Concrete, NEW type \in Classes, IsAssignable(type, object),
         NEW s, NEW m, m = Lookup(type, s), m.class # None
  PROVE  Call(object, m) = Promised(object, m)
<1>1. object \in Classes /\ object \notin Interfaces
  BY DEF Concrete, Interfaces
<1>2. program \in Programs /\ Saturated /\ Straight(object) /\ Straight(type)
  BY <1>1, BoundTame
<1>3. /\ m \in Methods
      /\ m.class \in Lineage(type) \/ (type \in Interfaces /\ m.class \in Gathered(type))
  BY <1>2, LookupFacts
<1>4. type \in Lineage(object) \/ type \in Gathered(object)
  BY ImplementsGathered DEF IsAssignable
<1>5. CASE type \in Lineage(object)
  <2>1. type \notin Interfaces
    BY <1>1, <1>2, <1>5, ClassLine
  <2>2. Lineage(type) \subseteq Lineage(object)
    BY <1>2, <1>5, LineageWithin
  <2>3. m.class \in Lineage(object)
    BY <1>3, <2>1, <2>2
  <2> QED
    BY <1>3, <2>3, ClassCallReaches
<1>6. CASE type \in Gathered(object)
  <2>1. type \in Interfaces
    BY <1>1, <1>2, <1>6, GatheredType
  <2>2. Lineage(type) \subseteq {type} \cup Gathered(type)
    BY <1>2, <2>1, LineageGathered
  <2>3. Gathered(type) \subseteq Gathered(object)
    BY <1>1, <1>2, <1>6, GatheredWithin
  <2>4. m.class \in Gathered(object)
    BY <1>3, <1>6, <2>2, <2>3
  <2>5. m.class \in Interfaces
    BY <1>1, <1>2, <2>4, GatheredType
  <2> QED
    BY <1>3, <2>4, <2>5, InterfaceCallReaches
<1> QED
  BY <1>4, <1>5, <1>6

LEMMA InvariantDispatch ==
  TInv /\ LInv /\ DInv /\ PInv /\ SInv /\ GInv => DispatchReachesNearest
<1> SUFFICES ASSUME TInv, LInv, DInv, PInv, SInv, GInv, phase = "bound", ~Hides, ~InheritsImplementation,
                    NEW object \in Concrete, NEW type \in Classes
             PROVE  /\ InstanceOf(object, type) <=> IsAssignable(type, object)
                    /\ IsAssignable(type, object) =>
                         \A s \in Signatures :
                           LET m == Lookup(type, s)
                           IN  m.class # None => Call(object, m) = Promised(object, m)
  BY DEF DispatchReachesNearest
<1>1. AllBound
  BY BoundFacts
<1>2. object \in Classes /\ object \notin Interfaces
  BY DEF Concrete, Interfaces
<1>3. InstanceOf(object, type) <=> IsAssignable(type, object)
  BY <1>1, <1>2, InstancesAreAssignable
<1>4. ASSUME IsAssignable(type, object), NEW s \in Signatures, NEW m, m = Lookup(type, s), m.class # None
      PROVE  Call(object, m) = Promised(object, m)
  BY <1>1, <1>4, CallsReach
<1> QED
  BY <1>3, <1>4

(* However many classes and interfaces there are, in whatever order their
   tables are computed: in a program that is accepted, a call through any type
   an object may be assigned to runs the method the class of the object
   promises, through the table of virtual methods or that of the interface,
   and a cast or instanceof finds exactly these types; if no method hides one
   it does not override and no inherited method called directly implements an
   interface of a class below. *)
THEOREM DispatchAlwaysReachesNearest ==
  Spec => []DispatchReachesNearest
<1>1. Spec => [](TInv /\ LInv /\ DInv /\ PInv /\ SInv /\ GInv)
  BY DispatchInvariant
<1>2. TInv /\ LInv /\ DInv /\ PInv /\ SInv /\ GInv => DispatchReachesNearest
  BY InvariantDispatch
<1> QED
  BY <1>1, <1>2, PTL

=============================================================================
