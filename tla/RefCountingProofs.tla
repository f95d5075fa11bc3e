------------------------- MODULE RefCountingProofs -------------------------
(***************************************************************************)
(* Proofs about RefCounting: for any blocks and any programs, what the     *)
(* headers count is what owns a reference, at every instruction and inside *)
(* every destructor, so nothing is freed too early, twice or never.        *)
(***************************************************************************)
EXTENDS RefCounting, SequenceTheorems, FiniteSetTheorems, TLAPS

(* No destructor assigns the slot whose assignment runs it, nothing loads an
   object whose destructor has returned, and no death writes into memory where
   a weak field was and something else is: programs that do are not safe. *)
Careful == \A p \in Programs : p.habits = {}

-----------------------------------------------------------------------------
(* Stacks.  What a stack s says about a block: how often it holds it, whether
   it holds a frame of a kind about it, and whether an assignment to a field
   of it waits for which nothing below holds it (that of a path). *)

Times(s, a) == Cardinality({i \in 1..Len(s) : Holds(s[i], a)})
Waits(s, op, a) == \E i \in 1..Len(s) : s[i].op = op /\ s[i].obj = a
WaitsStatic(s) == \E i \in 1..Len(s) : s[i].op = "SET_GLOBAL"
PathHeld(s, a) ==
  \E i \in 1..Len(s) :
    /\ s[i].op = "SET_PROPERTY" /\ s[i].obj = a
    /\ \A k \in 1..(i - 1) : ~Holds(s[k], a)

Number(condition) == IF condition THEN 1 ELSE 0

Kinds == {"SET_PROPERTY", "after invoke_destructor", "after object_destructor"}

(* t is s with f on top. *)
Grows(s, t, f) ==
  /\ \A a \in Addr :
       /\ Times(t, a) = Times(s, a) + Number(Holds(f, a))
       /\ PathHeld(t, a) <=> PathHeld(s, a) \/ (f.op = "SET_PROPERTY" /\ f.obj = a
                                                /\ Times(s, a) = 0)
       /\ \A op \in Kinds : Waits(t, op, a) <=> Waits(s, op, a) \/ (f.op = op /\ f.obj = a)
  /\ WaitsStatic(t) <=> WaitsStatic(s) \/ f.op = "SET_GLOBAL"

(* Which frame may be on top of which. *)
On(f, g) ==
  CASE g.op = "run" -> f.op = "after invoke_destructor" /\ f.obj = g.this
    [] g.op = "value" -> f.op = "run"
    [] g.op = "after invoke_destructor" -> f.op = "after object_destructor" /\ f.obj = g.obj
    [] OTHER -> f.op # "value"

Framed(s) ==
  /\ s[1].op = "run" /\ s[1].this = Null
  /\ \A i \in 1..(Len(s) - 1) : On(s[i], s[i + 1])

(* Of these frames there is one for a block, or for the static field. *)
Same(f, g) ==
  /\ f.op = g.op
  /\ f.op \in {"SET_PROPERTY", "SET_GLOBAL", "after object_destructor"}
  /\ f.op # "SET_GLOBAL" => f.obj = g.obj
Once(s) == \A i, j \in 1..Len(s) : Same(s[i], s[j]) => i = j

(* A block whose release is under way is in L; when its destructor has
   returned, and while its children are released, it is in Z. *)
Checks(s, L, Z) ==
  \A i \in 1..Len(s) : s[i].op = "after object_destructor" =>
    /\ s[i].obj \in L
    /\ i = Len(s) \/ s[i + 1].op = "after invoke_destructor" \/ s[i].obj \in Z

Stack(s, L, Z) ==
  /\ s \in Seq(Frames) /\ Len(s) \in Nat \ {0}
  /\ Framed(s) /\ Once(s) /\ Checks(s, L, Z)

(* A release or an assignment may be pushed. *)
Open(s, Z) ==
  /\ s[Len(s)].op # "value"
  /\ s[Len(s)].op = "after object_destructor" => s[Len(s)].obj \in Z

(* Frame f may be pushed. *)
Fits(s, L, Z, f) ==
  /\ On(s[Len(s)], f)
  /\ \A i \in 1..Len(s) : ~Same(s[i], f)
  /\ f.op = "after object_destructor" => f.obj \in L
  /\ s[Len(s)].op = "after object_destructor" =>
       f.op = "after invoke_destructor" \/ s[Len(s)].obj \in Z

-----------------------------------------------------------------------------
(* Frames. *)

LEMMA FrameFields ==
  ASSUME NEW f \in Frames
  PROVE  /\ f.op \in {"run", "value", "SET_GLOBAL", "decrease_reference",
                      "after invoke_destructor", "after object_destructor", "SET_PROPERTY"}
         /\ f.op = "run" => f.this \in Refs /\ f.local \in Refs
         /\ f.op \in {"value", "SET_GLOBAL", "SET_PROPERTY"} => f.val \in Refs
         /\ f.op \in Kinds \cup {"decrease_reference"} => f.obj \in Addr
BY DEF Frames, Kinds

LEMMA Constructed ==
  ASSUME NEW this \in Refs, NEW v \in Refs, NEW a \in Addr
  PROVE  /\ /\ Activation(this, v) \in Frames /\ Activation(this, v).op = "run"
            /\ Activation(this, v).this = this /\ Activation(this, v).local = v
         /\ Value(v) \in Frames /\ Value(v).op = "value" /\ Value(v).val = v
         /\ /\ Decrease(a) \in Frames
         /\ Decrease(a).op = "decrease_reference" /\ Decrease(a).obj = a
         /\ /\ Finish(a) \in Frames
         /\ Finish(a).op = "after invoke_destructor" /\ Finish(a).obj = a
         /\ Check(a) \in Frames /\ Check(a).op = "after object_destructor" /\ Check(a).obj = a
         /\ /\ SetProperty(a, v) \in Frames /\ SetProperty(a, v).op = "SET_PROPERTY"
            /\ SetProperty(a, v).obj = a /\ SetProperty(a, v).val = v
         /\ SetGlobal(v) \in Frames /\ SetGlobal(v).op = "SET_GLOBAL" /\ SetGlobal(v).val = v
BY DEF Frames, Activation, Value, Decrease, Finish, Check, SetProperty, SetGlobal

LEMMA WhatHolds ==
  ASSUME NEW f \in Frames, NEW a \in Addr
  PROVE  /\ f.op = "run" => (Holds(f, a) <=> f.local = a)
         /\ f.op \in {"value", "SET_GLOBAL", "SET_PROPERTY"} => (Holds(f, a) <=> f.val = a)
         /\ f.op \in {"decrease_reference", "after invoke_destructor"} =>
              (Holds(f, a) <=> f.obj = a)
         /\ f.op = "after object_destructor" => ~Holds(f, a)
BY FrameFields DEF Holds

-----------------------------------------------------------------------------
(* Pushing and popping. *)

LEMMA TimesFinite ==
  ASSUME NEW s \in Seq(Frames), NEW a
  PROVE  /\ IsFiniteSet({i \in 1..Len(s) : Holds(s[i], a)})
         /\ Times(s, a) \in Nat
         /\ Times(s, a) = 0 <=> \A i \in 1..Len(s) : ~Holds(s[i], a)
<1> DEFINE T == {i \in 1..Len(s) : Holds(s[i], a)}
<1>1. Len(s) \in Nat
  BY LenProperties
<1>2. IsFiniteSet(1..Len(s))
  BY <1>1, FS_Interval
<1>3. T \in SUBSET (1..Len(s))
  OBVIOUS
<1>4. IsFiniteSet(T)
  BY <1>2, <1>3, FS_Subset
<1>5. Cardinality(T) \in Nat /\ (Cardinality(T) = 0 <=> T = {})
  BY <1>4, FS_CardinalityType, FS_EmptySet
<1> QED
  BY <1>4, <1>5 DEF Times

LEMMA AppendGrows ==
  ASSUME NEW s \in Seq(Frames), NEW f \in Frames
  PROVE  Grows(s, Append(s, f), f)
<1> DEFINE t == Append(s, f)
           n == Len(s) + 1
<1>1. /\ Len(s) \in Nat /\ Len(t) = n /\ t[n] = f
      /\ \A i \in 1..Len(s) : t[i] = s[i]
  BY AppendProperties, LenProperties
<1>0. n \in Nat /\ n - 1 = Len(s) /\ 1..(n - 1) = 1..Len(s)
  BY <1>1
<1> HIDE DEF t, n
<1>2. 1..Len(t) = 1..Len(s) \cup {n} /\ n \notin 1..Len(s)
  BY <1>0, <1>1
<1>3. ASSUME NEW a \in Addr
      PROVE  Times(t, a) = Times(s, a) + Number(Holds(f, a))
  <2> DEFINE T == {i \in 1..Len(s) : Holds(s[i], a)}
             U == {i \in 1..Len(t) : Holds(t[i], a)}
  <2>1. IsFiniteSet(T) /\ Cardinality(T) \in Nat /\ n \notin T
    BY <1>2, TimesFinite DEF Times
  <2>2. U = IF Holds(f, a) THEN T \cup {n} ELSE T
    BY <1>1, <1>2
  <2>3. Cardinality(T \cup {n}) = Cardinality(T) + 1
    BY <2>1, FS_AddElement
  <2>4. Times(t, a) = Cardinality(U) /\ Times(s, a) = Cardinality(T)
    BY DEF Times
  <2> HIDE DEF T, U
  <2> QED
    BY <2>1, <2>2, <2>3, <2>4 DEF Number
<1>4. ASSUME NEW a \in Addr
      PROVE  PathHeld(t, a) <=> PathHeld(s, a) \/ (f.op = "SET_PROPERTY" /\ f.obj = a
                                                   /\ Times(s, a) = 0)
  <2>1. \A i \in 1..Len(s) : \A k \in 1..(i - 1) : t[k] = s[k]
    BY <1>1
  <2>2. (\A k \in 1..(n - 1) : ~Holds(s[k], a)) <=> Times(s, a) = 0
    BY <1>0, TimesFinite
  <2>3. \A k \in 1..(n - 1) : t[k] = s[k]
    BY <1>0, <1>1
  <2> QED
    BY <1>0, <1>1, <1>2, <2>1, <2>2, <2>3 DEF PathHeld
<1>5. ASSUME NEW a \in Addr, NEW op \in Kinds
      PROVE  Waits(t, op, a) <=> Waits(s, op, a) \/ (f.op = op /\ f.obj = a)
  BY <1>1, <1>2 DEF Waits
<1>6. WaitsStatic(t) <=> WaitsStatic(s) \/ f.op = "SET_GLOBAL"
  BY <1>1, <1>2 DEF WaitsStatic
<1> QED
  BY <1>3, <1>4, <1>5, <1>6 DEF Grows, t

LEMMA Pushed ==
  ASSUME NEW L, NEW Z, NEW s, Stack(s, L, Z), NEW f \in Frames, Fits(s, L, Z, f)
  PROVE  /\ Stack(Append(s, f), L, Z) /\ Grows(s, Append(s, f), f)
         /\ Append(s, f)[Len(Append(s, f))] = f
<1> DEFINE t == Append(s, f)
<1>0. s \in Seq(Frames) /\ Len(s) \in Nat \ {0}
  BY DEF Stack
<1>a. PICK n \in Nat : n = Len(s) /\ n > 0
  BY <1>0
<1>1. /\ Len(t) = n + 1 /\ t[n + 1] = f /\ t \in Seq(Frames)
      /\ \A i \in 1..n : t[i] = s[i]
  BY <1>0, <1>a, AppendProperties
<1>2. Grows(s, t, f)
  BY AppendGrows DEF Stack
<1> HIDE DEF t
<1>3. Framed(s) /\ Once(s) /\ Checks(s, L, Z)
  BY DEF Stack
<1>4. Framed(t)
  <2>1. ASSUME NEW i \in 1..n PROVE On(t[i], t[i + 1])
    <3>1. CASE i = n
      BY <1>a, <1>1, <3>1 DEF Fits
    <3>2. CASE i # n
      <4>1. i \in 1..(n - 1) /\ i + 1 \in 1..n
        BY <1>a, <3>2
      <4> QED
        BY <1>a, <1>1, <1>3, <4>1 DEF Framed
    <3> QED
      BY <3>1, <3>2
  <2> QED
    BY <1>a, <1>1, <1>3, <2>1 DEF Framed
<1>5. Once(t)
  <2>1. ASSUME NEW i \in 1..n, NEW j \in 1..n, Same(t[i], t[j]) PROVE i = j
    BY <1>a, <1>1, <1>3, <2>1 DEF Once
  <2>2. ASSUME NEW i \in 1..n PROVE ~Same(t[i], t[n + 1]) /\ ~Same(t[n + 1], t[i])
    <3>1. ~Same(s[i], f)
      BY <1>a DEF Fits
    <3> QED
      BY <1>1, <3>1 DEF Same
  <2>3. 1..Len(t) = 1..n \cup {n + 1}
    BY <1>a, <1>1
  <2> QED
    BY <2>1, <2>2, <2>3 DEF Once
<1>6. Checks(t, L, Z)
  <2>1. \A i \in 1..Len(t) : i = n + 1 \/ i = n \/ (i \in 1..n /\ i + 1 \in 1..n /\ i # n)
    BY <1>a, <1>1
  <2>2. /\ t[n] = s[n] /\ n = Len(s)
        /\ s[n].op = "after object_destructor" =>
             s[n].obj \in L /\ (f.op = "after invoke_destructor" \/ s[n].obj \in Z)
    <3>1. n \in 1..n
      BY <1>a
    <3>2. s[n].op = "after object_destructor" => s[n].obj \in L
      BY <1>a, <1>3, <3>1 DEF Checks
    <3>3. s[n].op = "after object_destructor" =>
            f.op = "after invoke_destructor" \/ s[n].obj \in Z
      BY <1>a DEF Fits
    <3> QED
      BY <1>a, <1>1, <3>1, <3>2, <3>3
  <2>3. ASSUME NEW i \in 1..n, i + 1 \in 1..n, i # n
        PROVE  /\ t[i] = s[i] /\ t[i + 1] = s[i + 1]
               /\ s[i].op = "after object_destructor" =>
                    /\ s[i].obj \in L
                    /\ s[i + 1].op = "after invoke_destructor" \/ s[i].obj \in Z
    BY <1>a, <1>1, <1>3, <2>3 DEF Checks
  <2>4. f.op = "after object_destructor" => f.obj \in L
    BY DEF Fits
  <2> QED
    BY <1>1, <2>1, <2>2, <2>3, <2>4 DEF Checks
<1>7. Stack(t, L, Z)
  BY <1>a, <1>1, <1>4, <1>5, <1>6 DEF Stack
<1> QED
  BY <1>a, <1>1, <1>2, <1>7 DEF t

Below(s) == SubSeq(s, 1, Len(s) - 1)

LEMMA Popped ==
  ASSUME NEW L, NEW Z, NEW s, Stack(s, L, Z), Len(s) > 1
  PROVE  /\ Stack(Below(s), L, Z) /\ Grows(Below(s), s, s[Len(s)])
         /\ Len(Below(s)) = Len(s) - 1 /\ On(Below(s)[Len(Below(s))], s[Len(s)])
         /\ \A i \in 1..Len(Below(s)) :
              Below(s)[i] = s[i] /\ ~Same(Below(s)[i], s[Len(s)])
<1> DEFINE r == Below(s)
<1>0. s \in Seq(Frames)
  BY DEF Stack
<1>a. PICK n \in Nat : n = Len(s)
  BY <1>0, LenProperties
<1>1. n > 1 /\ \A i \in 1..n : s[i] \in Frames
  BY <1>0, <1>a, LenProperties
<1>2. r \in Seq(Frames) /\ Len(r) = n - 1 /\ \A i \in 1..(n - 1) : r[i] = s[i]
  <2>1. \A i \in 1..(n - 1) : s[i] \in Frames
    BY <1>1
  <2>2. (n - 1) - 1 + 1 = n - 1 /\ 1 <= n - 1 /\ \A i \in 1..(n - 1) : 1 + i - 1 = i
    BY <1>1
  <2> QED
    BY <1>a, <1>1, <2>1, <2>2, SubSeqProperties DEF Below
<1> HIDE DEF r
<1>3. s = Append(r, s[n])
  <2>1. /\ Append(r, s[n]) \in Seq(Frames) /\ Len(Append(r, s[n])) = n
        /\ \A i \in 1..(n - 1) : Append(r, s[n])[i] = r[i]
        /\ Append(r, s[n])[n] = s[n]
    BY <1>0, <1>1, <1>2, AppendProperties
  <2> QED
    BY <1>0, <1>a, <1>1, <1>2, <2>1, SeqEqual
<1>4. Grows(r, s, s[n])
  <2>1. s[n] \in Frames
    BY <1>1
  <2>2. Grows(r, Append(r, s[n]), s[n])
    BY <1>2, <2>1, AppendGrows
  <2> QED
    BY <1>3, <2>2
<1>5. Framed(s) /\ Once(s) /\ Checks(s, L, Z) /\ n = Len(s)
  BY <1>a DEF Stack
<1>6. Framed(r)
  <2>1. \A i \in 1..(Len(r) - 1) : i \in 1..(n - 1) /\ i + 1 \in 1..(n - 1)
    BY <1>1, <1>2
  <2> QED
    BY <1>1, <1>2, <1>5, <2>1 DEF Framed
<1>7. Once(r)
  BY <1>1, <1>2, <1>5 DEF Once
<1>8. Checks(r, L, Z)
  <2>1. ASSUME NEW i \in 1..Len(r), r[i].op = "after object_destructor"
        PROVE  /\ r[i].obj \in L
               /\ i = Len(r) \/ r[i + 1].op = "after invoke_destructor" \/ r[i].obj \in Z
    <3>1. i \in 1..n /\ i # n /\ s[i] = r[i]
      BY <1>1, <1>2
    <3>2. i # Len(r) => r[i + 1] = s[i + 1]
      BY <1>1, <1>2
    <3> QED
      BY <1>5, <2>1, <3>1, <3>2 DEF Checks
  <2> QED
    BY <2>1 DEF Checks
<1>9. On(r[Len(r)], s[n])
  <2>1. n - 1 \in 1..(n - 1) /\ (n - 1) + 1 = n
    BY <1>1
  <2> QED
    BY <1>2, <1>5, <2>1 DEF Framed
<1>10. \A i \in 1..Len(r) : ~Same(r[i], s[n])
  <2>1. \A i \in 1..Len(r) : i \in 1..n /\ n \in 1..n /\ i # n /\ r[i] = s[i]
    BY <1>1, <1>2
  <2> QED
    BY <1>5, <2>1 DEF Once
<1>11. Stack(r, L, Z)
  BY <1>1, <1>2, <1>6, <1>7, <1>8 DEF Stack
<1> QED
  BY <1>a, <1>2, <1>4, <1>9, <1>10, <1>11 DEF r

LEMMA Rechecked ==
  ASSUME NEW L, NEW Z, NEW M, NEW Y, NEW s, Stack(s, L, Z),
         \A a \in Addr : Waits(s, "after object_destructor", a) =>
           /\ a \in L => a \in M
           /\ a \in Z => a \in Y
  PROVE  Stack(s, M, Y)
<1>1. ASSUME NEW i \in 1..Len(s), s[i].op = "after object_destructor"
      PROVE  /\ s[i].obj \in Addr
             /\ s[i].obj \in L => s[i].obj \in M
             /\ s[i].obj \in Z => s[i].obj \in Y
  <2>1. s[i] \in Frames
    BY ElementOfSeq DEF Stack
  <2>2. s[i].obj \in Addr
    BY <1>1, <2>1, FrameFields DEF Kinds
  <2>3. Waits(s, "after object_destructor", s[i].obj)
    BY <1>1 DEF Waits
  <2> QED
    BY <2>2, <2>3
<1>2. Checks(s, L, Z)
  BY DEF Stack
<1>3. Checks(s, M, Y)
  BY <1>1, <1>2 DEF Checks
<1> QED
  BY <1>3 DEF Stack

(* So does a stack that needs fewer objects to be settled. *)
LEMMA MoreSettled ==
  ASSUME NEW L, NEW Z, NEW Y, NEW s, Stack(s, L, Z), \A a \in Addr : a \in Z => a \in Y
  PROVE  Stack(s, L, Y)
<1>1. \A a \in Addr : Waits(s, "after object_destructor", a) =>
        /\ a \in L => a \in L
        /\ a \in Z => a \in Y
  OBVIOUS
<1> QED
  BY <1>1, Rechecked

(* Releasing a reference. *)
Released(s, v) == s \o Release(v)

LEMMA ReleasePushed ==
  ASSUME NEW L, NEW Z, NEW s, Stack(s, L, Z), Open(s, Z), NEW v \in Refs,
         NEW t, t = Released(s, v)
  PROVE  /\ Stack(t, L, Z) /\ Open(t, Z)
         /\ \A a \in Addr : /\ Times(t, a) = Times(s, a) + Number(v = a)
                            /\ PathHeld(t, a) <=> PathHeld(s, a)
                            /\ \A op \in Kinds : Waits(t, op, a) <=> Waits(s, op, a)
         /\ WaitsStatic(t) <=> WaitsStatic(s)
<1>1. s \in Seq(Frames) /\ \A a \in Addr : Times(s, a) \in Nat
  BY TimesFinite DEF Stack
<1>2. CASE v = Null
  <2>1. t = s
    BY <1>1, <1>2, ConcatEmptySeq DEF Release, Released
  <2>2. \A a \in Addr : Number(v = a) = 0
    BY <1>2, NullAssumption DEF Number
  <2> QED
    BY <1>1, <2>1, <2>2
<1>3. CASE v # Null
  <2>1. v \in Addr
    BY <1>3 DEF Refs
  <2> DEFINE f == Decrease(v)
  <2>2. f \in Frames /\ f.op = "decrease_reference" /\ f.obj = v
    BY <2>1, Constructed
  <2>3. t = Append(s, f)
    BY <1>1, <1>3, <2>2, AppendIsConcat DEF Release, Released
  <2> HIDE DEF f
  <2>4. Fits(s, L, Z, f)
    BY <2>2 DEF Fits, On, Open, Same
  <2>5. Stack(t, L, Z) /\ Grows(s, t, f) /\ t[Len(t)] = f
    BY <2>2, <2>3, <2>4, Pushed
  <2>6. \A a \in Addr : Holds(f, a) <=> v = a
    BY <2>2, WhatHolds
  <2>7. Open(t, Z)
    BY <2>2, <2>5 DEF Open
  <2>8. f.op \notin Kinds /\ f.op # "SET_GLOBAL" /\ f.op # "SET_PROPERTY"
    BY <2>2 DEF Kinds
  <2> QED
    BY <2>5, <2>6, <2>7, <2>8 DEF Grows, Number
<1> QED
  BY <1>2, <1>3

-----------------------------------------------------------------------------
(* The invariant. *)

SlotSet(L, slots, s, a) == {h \in L : slots[h] = a /\ ~Waits(s, "SET_PROPERTY", h)}
StaticCount(v, s, a) == Number(v = a /\ ~WaitsStatic(s))
OwnerCount(a) ==
  Times(work, a) + Cardinality(SlotSet(live, strong, work, a)) + StaticCount(static, work, a)

(* The reference that loading the path of an assignment retains for good. *)
PathClaim(a) == Number(PathHeld(work, a))

CountedAt(a) ==
  IF a \in live
    THEN /\ OwnerCount(a) + PathClaim(a) <= ref_count[a]
         /\ ~Leaky => ref_count[a] = OwnerCount(a)
    ELSE ref_count[a] = 0 /\ OwnerCount(a) = 0 /\ PathClaim(a) = 0
Counted == \A a \in Addr : CountedAt(a)

(* Blocks whose owners may go without taking the count to zero again. *)
Settled == {a \in Addr : ref_count[a] = 0 \/ OwnerCount(a) < ref_count[a]}

(* A block without references is being released, its slot is clear. *)
Dead == \A a \in live : ref_count[a] = 0 =>
          strong[a] = Null /\ Waits(work, "after object_destructor", a)
Tagged == IsFiniteSet(live) /\ \A a \in Addr : a \in live <=> tag[a] # "RAW"
Active == \A a \in active_destructors : Waits(work, "after invoke_destructor", a)
Stores == \A h \in Addr : Waits(work, "SET_PROPERTY", h) => tag[h] = "OBJECT"

IInv ==
  /\ TypeOK /\ Stack(work, live, Settled)
  /\ Counted /\ Dead /\ Tagged /\ Active /\ Stores /\ WeakSafe /\ FreedOnce

-----------------------------------------------------------------------------
(* Counting. *)

LEMMA NumberType == \A c \in BOOLEAN : Number(c) \in {0, 1} /\ (Number(c) = 1 <=> c)
BY DEF Number

LEMMA SlotsFinite ==
  ASSUME NEW L, IsFiniteSet(L), NEW slots, NEW s, NEW a
  PROVE  /\ IsFiniteSet(SlotSet(L, slots, s, a))
         /\ Cardinality(SlotSet(L, slots, s, a)) \in Nat
<1>1. SlotSet(L, slots, s, a) \in SUBSET L
  BY DEF SlotSet
<1> QED
  BY <1>1, FS_Subset, FS_CardinalityType

LEMMA OneChanged ==
  ASSUME NEW A, NEW B, NEW x, IsFiniteSet(A), IsFiniteSet(B), A \ {x} = B \ {x}
  PROVE  Cardinality(B) + Number(x \in A) = Cardinality(A) + Number(x \in B)
<1>1. /\ Cardinality(A) \in Nat /\ Cardinality(B) \in Nat
      /\ Cardinality(A \ {x}) = Cardinality(A) - Number(x \in A)
      /\ Cardinality(B \ {x}) = Cardinality(B) - Number(x \in B)
  BY FS_CardinalityType, FS_RemoveElement DEF Number
<1>2. Number(x \in A) \in Nat /\ Number(x \in B) \in Nat
  BY DEF Number
<1>3. Cardinality(A \ {x}) = Cardinality(B \ {x})
  OBVIOUS
<1>4. Cardinality(A) - Number(x \in A) = Cardinality(B) - Number(x \in B)
  BY <1>1, <1>3
<1>5. \A m, n, i, j \in Nat : m - i = n - j => n + i = m + j
  OBVIOUS
<1> QED
  BY <1>1, <1>2, <1>4, <1>5

LEMMA OwnerType ==
  ASSUME IInv, NEW a \in Addr
  PROVE  /\ OwnerCount(a) \in Nat /\ PathClaim(a) \in {0, 1} /\ ref_count[a] \in Nat
         /\ Times(work, a) \in Nat /\ StaticCount(static, work, a) \in {0, 1}
         /\ Cardinality(SlotSet(live, strong, work, a)) \in Nat
         /\ Times(work, a) <= OwnerCount(a)
         /\ Cardinality(SlotSet(live, strong, work, a)) <= OwnerCount(a)
         /\ StaticCount(static, work, a) <= OwnerCount(a)
<1>1. work \in Seq(Frames) /\ IsFiniteSet(live) /\ ref_count[a] \in Nat
  BY DEF IInv, TypeOK, Tagged
<1>2. Times(work, a) \in Nat
  BY <1>1, TimesFinite
<1>3. Cardinality(SlotSet(live, strong, work, a)) \in Nat
  BY <1>1, SlotsFinite
<1>4. StaticCount(static, work, a) \in {0, 1} /\ PathClaim(a) \in {0, 1}
  BY DEF StaticCount, PathClaim, Number
<1> QED
  BY <1>1, <1>2, <1>3, <1>4 DEF OwnerCount

(* What is owned is allocated, and its count is not zero. *)
LEMMA OwnedIsLive ==
  ASSUME IInv, NEW a \in Addr, OwnerCount(a) > 0
  PROVE  a \in live /\ ref_count[a] > 0 /\ OwnerCount(a) <= ref_count[a]
<1>1. CountedAt(a)
  BY DEF IInv, Counted
<1> QED
  BY <1>1, OwnerType DEF CountedAt

LEMMA HeldIsLive ==
  ASSUME IInv, NEW i \in 1..Len(work), NEW a \in Addr, Holds(work[i], a)
  PROVE  Times(work, a) > 0 /\ a \in live /\ ref_count[a] > 0
<1>1. work \in Seq(Frames)
  BY DEF IInv, TypeOK
<1>2. Times(work, a) \in Nat /\ Times(work, a) # 0
  BY <1>1, TimesFinite
<1>3. OwnerCount(a) > 0
  BY <1>2, OwnerType
<1> QED
  BY <1>2, <1>3, OwnedIsLive

(* A slot that no assignment is about to overwrite. *)
LEMMA SlotIsLive ==
  ASSUME IInv, NEW h \in live, ~Waits(work, "SET_PROPERTY", h), strong[h] # Null
  PROVE  strong[h] \in live /\ ref_count[strong[h]] > 0
<1>1. h \in Addr /\ strong[h] \in Addr
  BY DEF IInv, TypeOK, Refs
<1>2. h \in SlotSet(live, strong, work, strong[h])
  BY DEF SlotSet
<1>3. IsFiniteSet(SlotSet(live, strong, work, strong[h]))
  BY SlotsFinite DEF IInv, Tagged
<1>4. Cardinality(SlotSet(live, strong, work, strong[h])) # 0
  BY <1>2, <1>3, FS_EmptySet
<1>5. OwnerCount(strong[h]) > 0
  BY <1>1, <1>4, OwnerType
<1> QED
  BY <1>1, <1>5, OwnedIsLive

(* An object that an assignment waits for is owned. *)
LEMMA StoredIsLive ==
  ASSUME IInv, NEW h \in Addr, Waits(work, "SET_PROPERTY", h)
  PROVE  h \in live /\ ref_count[h] > 0 /\ (Times(work, h) = 0 => PathClaim(h) = 1)
<1>1. PICK i \in 1..Len(work) : work[i].op = "SET_PROPERTY" /\ work[i].obj = h
  BY DEF Waits
<1>2. CASE \E k \in 1..(i - 1) : Holds(work[k], h)
  <2>1. PICK k \in 1..(i - 1) : Holds(work[k], h)
    BY <1>2
  <2>2. Len(work) \in Nat
    BY DEF IInv, Stack
  <2>3. k \in 1..Len(work)
    BY <2>2
  <2> QED
    BY <2>1, <2>3, HeldIsLive
<1>3. CASE ~\E k \in 1..(i - 1) : Holds(work[k], h)
  <2>1. PathHeld(work, h)
    BY <1>1, <1>3 DEF PathHeld
  <2>2. PathClaim(h) = 1
    BY <2>1 DEF PathClaim, Number
  <2>3. CountedAt(h)
    BY DEF IInv, Counted
  <2>4. OwnerCount(h) \in Nat /\ ref_count[h] \in Nat
    BY OwnerType
  <2> QED
    BY <2>2, <2>3, <2>4 DEF CountedAt
<1> QED
  BY <1>2, <1>3

LEMMA SlotsKept ==
  ASSUME NEW L, NEW slots, NEW s, NEW t, NEW a,
         \A h \in L : Waits(t, "SET_PROPERTY", h) <=> Waits(s, "SET_PROPERTY", h)
  PROVE  SlotSet(L, slots, t, a) = SlotSet(L, slots, s, a)
BY DEF SlotSet

(* The stack below its top. *)
LEMMA RestFacts ==
  ASSUME IInv, Top.op # "run" \/ Len(work) > 1
  PROVE  /\ Stack(Rest, live, Settled) /\ Grows(Rest, work, Top)
         /\ Top \in Frames /\ On(Rest[Len(Rest)], Top)
         /\ Len(work) > 1 /\ Len(Rest) = Len(work) - 1
         /\ \A i \in 1..Len(Rest) : Rest[i] = work[i] /\ ~Same(Rest[i], Top)
         /\ Top.op # "after invoke_destructor" => Open(Rest, Settled)
<1>1. Stack(work, live, Settled) /\ work \in Seq(Frames)
  BY DEF IInv, Stack
<1>2. Len(work) \in Nat /\ Len(work) > 1
  <2>1. Len(work) \in Nat \ {0} /\ work[1].op = "run"
    BY <1>1 DEF Stack, Framed
  <2> QED
    BY <2>1 DEF Top
<1>3. /\ Stack(Rest, live, Settled) /\ Grows(Rest, work, work[Len(work)])
      /\ Len(Rest) = Len(work) - 1 /\ On(Rest[Len(Rest)], work[Len(work)])
      /\ \A i \in 1..Len(Rest) : Rest[i] = work[i] /\ ~Same(Rest[i], work[Len(work)])
  <2>1. Rest = Below(work)
    BY DEF Rest, Below
  <2> QED
    BY <1>1, <1>2, <2>1, Popped
<1>4. Top \in Frames
  BY <1>1, <1>2, ElementOfSeq DEF Top
<1>5. ASSUME Top.op # "after invoke_destructor" PROVE Open(Rest, Settled)
  <2> DEFINE f == work[Len(work) - 1]
  <2>1. Rest[Len(Rest)] = f
    BY <1>2, <1>3
  <2>2. f.op # "value"
    BY <1>3, <1>5, <2>1 DEF On, Top
  <2>3. f.op = "after object_destructor" => f.obj \in Settled
    <3>1. /\ Len(work) - 1 \in 1..Len(work) /\ Len(work) - 1 # Len(work)
          /\ (Len(work) - 1) + 1 = Len(work)
      BY <1>2
    <3> QED
      BY <1>1, <1>5, <3>1 DEF Stack, Checks, Top
  <2> QED
    BY <2>1, <2>2, <2>3 DEF Open
<1> QED
  BY <1>2, <1>3, <1>4, <1>5 DEF Top

LEMMA TopHeld ==
  ASSUME IInv, NEW a \in Addr, Holds(Top, a)
  PROVE  a \in live /\ ref_count[a] > 0 /\ Times(work, a) > 0
<1>1. Len(work) \in 1..Len(work)
  BY DEF IInv, Stack
<1> QED
  BY <1>1, HeldIsLive DEF Top

(* The activation that evaluates, and what it can select a field of. *)
LEMMA ActFacts ==
  ASSUME IInv, Top.op = "value"
  PROVE  /\ Top.val \in Refs /\ Act = Rest[Len(Rest)] /\ Act.op = "run"
         /\ Act.this \in Refs /\ Act.local \in Refs
         /\ Top.val # Null => Top.val \in live /\ ref_count[Top.val] > 0
         /\ \A o \in Bases : /\ o \in Addr /\ o \in live /\ ref_count[o] > 0
                             /\ Times(Rest, o) > 0
<1>1. /\ Stack(Rest, live, Settled) /\ Top \in Frames /\ On(Rest[Len(Rest)], Top)
      /\ Len(Rest) = Len(work) - 1 /\ \A i \in 1..Len(Rest) : Rest[i] = work[i]
  BY RestFacts
<1>a. Rest \in Seq(Frames)
  BY <1>1 DEF Stack
<1>2. PICK m \in Nat : m = Len(Rest) /\ m > 0 /\ Len(work) = m + 1
  <2>1. Len(Rest) \in Nat \ {0} /\ Len(work) \in Nat
    BY <1>1 DEF Stack, IInv
  <2> QED
    BY <1>1, <2>1
<1>3. Act = Rest[m] /\ Act \in Frames /\ Act.op = "run" /\ Act = work[m]
  <2>1. Act = work[m]
    BY <1>2 DEF Act
  <2>2. m \in 1..Len(Rest)
    BY <1>2
  <2>3. Rest[m] = work[m]
    BY <1>1, <2>2
  <2>4. Rest[m] \in Frames
    BY <1>a, <2>2, ElementOfSeq
  <2>5. Rest[m].op = "run"
    BY <1>1, <1>2 DEF On
  <2> QED
    BY <2>1, <2>3, <2>4, <2>5
<1>4. Act.this \in Refs /\ Act.local \in Refs /\ Top.val \in Refs
  BY <1>1, <1>3, FrameFields
<1>5. Top.val # Null => Top.val \in live /\ ref_count[Top.val] > 0
  <2>1. ASSUME Top.val # Null PROVE Top.val \in Addr /\ Holds(Top, Top.val)
    BY <1>1, <1>4, <2>1, WhatHolds DEF Refs
  <2> QED
    BY <2>1, TopHeld
<1>6. ASSUME NEW o \in Bases
      PROVE  o \in Addr /\ \E k \in 1..m : Holds(Rest[k], o)
  <2>1. o \in Addr /\ (o = Act.local \/ o = Act.this)
    BY <1>4 DEF Bases, Refs
  <2>2. CASE o = Act.local
    <3>1. Holds(Act, o)
      BY <1>3, <2>1, <2>2, WhatHolds
    <3>2. m \in 1..m /\ Holds(Rest[m], o)
      BY <1>2, <1>3, <3>1
    <3> QED
      BY <2>1, <3>2
  <2>3. CASE o = Act.this
    <3>1. m # 1
      <4>1. Act = Rest[1] => Act.this = Null
        BY <1>1 DEF Stack, Framed
      <4> QED
        BY <1>3, <2>1, <2>3, <4>1, NullAssumption
    <3>2. /\ m - 1 \in 1..(Len(Rest) - 1) /\ (m - 1) + 1 = m
          /\ m - 1 \in 1..m /\ m - 1 \in 1..Len(Rest)
      BY <1>2, <3>1
    <3>3. On(Rest[m - 1], Rest[m])
      BY <1>1, <3>2 DEF Stack, Framed
    <3>4. Rest[m - 1].op = "after invoke_destructor" /\ Rest[m - 1].obj = o
      BY <1>3, <2>3, <3>3 DEF On
    <3>5. Rest[m - 1] \in Frames
      BY <1>a, <3>2, ElementOfSeq
    <3>6. Holds(Rest[m - 1], o)
      BY <2>1, <3>4, <3>5, WhatHolds
    <3> QED
      BY <2>1, <3>2, <3>6
  <2> QED
    BY <2>1, <2>2, <2>3
<1>7. ASSUME NEW o \in Bases
      PROVE  o \in Addr /\ o \in live /\ ref_count[o] > 0 /\ Times(Rest, o) > 0
  <2>1. o \in Addr
    BY <1>6
  <2>2. PICK k \in 1..m : Holds(Rest[k], o)
    BY <1>6
  <2>3. k \in 1..Len(work) /\ k \in 1..Len(Rest) /\ Rest[k] = work[k]
    BY <1>1, <1>2
  <2>4. Times(Rest, o) \in Nat /\ Times(Rest, o) # 0
    BY <1>a, <2>2, <2>3, TimesFinite
  <2>5. o \in live /\ ref_count[o] > 0
    BY <2>1, <2>2, <2>3, HeldIsLive
  <2> QED
    BY <2>1, <2>4, <2>5
<1> QED
  BY <1>2, <1>3, <1>4, <1>5, <1>7

-----------------------------------------------------------------------------
(* Steps. *)

LEMMA OwnersMoved ==
  ASSUME IInv, UNCHANGED <<live, strong, static>>, WaitsStatic(work') <=> WaitsStatic(work),
         \A h \in Addr : Waits(work', "SET_PROPERTY", h) <=> Waits(work, "SET_PROPERTY", h),
         NEW a \in Addr, Times(work', a) \in Nat
  PROVE  OwnerCount(a)' = OwnerCount(a) + (Times(work', a) - Times(work, a))
<1>1. live \subseteq Addr
  BY DEF IInv, TypeOK
<1>2. SlotSet(live', strong', work', a) = SlotSet(live, strong, work, a)
  BY <1>1 DEF SlotSet
<1>3. StaticCount(static', work', a) = StaticCount(static, work, a)
  BY DEF StaticCount
<1>4. /\ OwnerCount(a)' = Times(work', a) + Cardinality(SlotSet(live', strong', work', a))
                          + StaticCount(static', work', a)
      /\ OwnerCount(a) = Times(work, a) + Cardinality(SlotSet(live, strong, work, a))
                         + StaticCount(static, work, a)
  BY DEF OwnerCount
<1>5. /\ Times(work, a) \in Nat /\ StaticCount(static, work, a) \in {0, 1}
      /\ Cardinality(SlotSet(live, strong, work, a)) \in Nat
  BY OwnerType
<1> QED
  BY <1>2, <1>3, <1>4, <1>5

(* A reference to v is retained for a new owner, or to none. *)
LEMMA Gained ==
  ASSUME IInv, NEW v \in Refs, v # Null => ref_count[v] > 0,
         UNCHANGED <<program, live>>, ref_count' = Retained(v),
         \A a \in Addr : /\ OwnerCount(a)' \in Nat /\ PathClaim(a)' \in {0, 1}
                         /\ OwnerCount(a)' <= OwnerCount(a) + Number(v = a)
                         /\ ~Leaky => OwnerCount(a)' = OwnerCount(a) + Number(v = a)
                         /\ PathClaim(a)' <= PathClaim(a)
  PROVE  /\ Counted' /\ \A a \in Settled : a \in Settled'
         /\ \A a \in Addr : ref_count'[a] \in Nat /\ (ref_count'[a] = 0 => ref_count[a] = 0)
         /\ ref_count' \in [Addr -> Nat]
<1>1. ASSUME NEW a \in Addr
      PROVE  /\ ref_count'[a] = ref_count[a] + Number(v = a)
             /\ v = a => ref_count[a] > 0
             /\ ref_count[a] \in Nat /\ OwnerCount(a) \in Nat /\ PathClaim(a) \in {0, 1}
             /\ Number(v = a) \in {0, 1} /\ (Number(v = a) = 1 => v = a)
             /\ CountedAt(a)
  <2>1. ref_count \in [Addr -> Nat]
    BY DEF IInv, TypeOK
  <2>2. ref_count'[a] = ref_count[a] + Number(v = a)
    BY <2>1, NullAssumption DEF Retained, Refs, Number
  <2> QED
    BY <2>1, <2>2, OwnerType, NullAssumption DEF IInv, Counted, Number
<1>2. Leaky' = Leaky
  BY DEF Leaky
<1>3. ASSUME NEW a \in Addr PROVE CountedAt(a)'
  <2>1. a \in live' <=> a \in live
    OBVIOUS
  <2>2. CASE a \in live
    BY <1>1, <1>2, <2>1, <2>2 DEF CountedAt
  <2>3. CASE a \notin live
    BY <1>1, <1>2, <2>1, <2>3 DEF CountedAt
  <2> QED
    BY <2>2, <2>3
<1>4. ASSUME NEW a \in Settled PROVE a \in Settled'
  BY <1>1 DEF Settled
<1>5. ref_count' \in [Addr -> Nat]
  BY DEF Retained, IInv, TypeOK, Refs
<1>6. \A a \in Addr : ref_count'[a] \in Nat /\ (ref_count'[a] = 0 => ref_count[a] = 0)
  BY <1>1
<1> QED
  BY <1>3, <1>4, <1>5, <1>6 DEF Counted

(* An owner of x is gone. *)
LEMMA Lost ==
  ASSUME IInv, NEW x \in Addr, OwnerCount(x) > 0,
         UNCHANGED <<program, live>>, ref_count' = [ref_count EXCEPT ![x] = @ - 1],
         \A a \in Addr : /\ OwnerCount(a)' = OwnerCount(a) - Number(x = a)
                         /\ PathClaim(a)' \in {0, 1} /\ PathClaim(a)' <= PathClaim(a)
  PROVE  /\ Counted' /\ \A a \in Settled : a \in Settled'
         /\ \A a \in Addr : ref_count'[a] \in Nat /\ (a # x => ref_count'[a] = ref_count[a])
         /\ ref_count' \in [Addr -> Nat]
<1>1. ASSUME NEW a \in Addr
      PROVE  /\ ref_count'[a] = ref_count[a] - Number(x = a)
             /\ ref_count[a] \in Nat /\ OwnerCount(a) \in Nat /\ PathClaim(a) \in {0, 1}
             /\ Number(x = a) \in {0, 1} /\ (Number(x = a) = 1 <=> x = a)
             /\ CountedAt(a)
             /\ x = a => ref_count[a] > 0 /\ OwnerCount(a) > 0
  <2>1. ref_count \in [Addr -> Nat]
    BY DEF IInv, TypeOK
  <2>2. ref_count'[a] = ref_count[a] - Number(x = a)
    BY <2>1 DEF Number
  <2> QED
    BY <2>1, <2>2, OwnerType, OwnedIsLive DEF IInv, Counted, Number
<1>2. Leaky' = Leaky
  BY DEF Leaky
<1>3. ASSUME NEW a \in Addr PROVE CountedAt(a)'
  <2>1. a \in live' <=> a \in live
    OBVIOUS
  <2>2. CASE a \in live
    BY <1>1, <1>2, <2>1, <2>2 DEF CountedAt
  <2>3. CASE a \notin live
    BY <1>1, <1>2, <2>1, <2>3 DEF CountedAt
  <2> QED
    BY <2>2, <2>3
<1>4. ASSUME NEW a \in Settled PROVE a \in Settled'
  BY <1>1 DEF Settled
<1>6. \A a \in Addr : ref_count'[a] \in Nat /\ (a # x => ref_count'[a] = ref_count[a])
  BY <1>1, NumberType
<1>5. ref_count' \in [Addr -> Nat]
  <2>1. ref_count \in [Addr -> Nat]
    BY DEF IInv, TypeOK
  <2>2. ref_count[x] - 1 \in Nat
    BY <1>1, <2>1
  <2> QED
    BY <2>1, <2>2
<1> QED
  BY <1>3, <1>4, <1>5, <1>6 DEF Counted

(* Only counts, the static field and the stack change. *)
LEMMA QuietKeeps ==
  ASSUME IInv, UNCHANGED <<program, live, tag, strong, weaks, active_destructors, freed_twice>>,
         Stack(work', live, Settled), Counted', static' \in Refs,
         \A a \in Settled : a \in Settled',
         \A a \in Addr : ref_count'[a] = 0 => ref_count[a] = 0,
         ref_count' \in [Addr -> Nat],
         \A op \in Kinds, a \in Addr : Waits(work', op, a) <=> Waits(work, op, a)
  PROVE  IInv'
<1>1. TypeOK /\ Dead /\ Tagged /\ Active /\ Stores /\ WeakSafe /\ FreedOnce
  BY DEF IInv
<1>2. UNCHANGED <<program, live, tag, strong, weak, weak_references, at_slot,
                  active_destructors, freed_twice>>
  BY DEF weaks
<1>3. live \subseteq Addr /\ active_destructors \subseteq Addr
  BY <1>1 DEF TypeOK
<1>4. Stack(work', live', Settled')
  BY <1>2, Rechecked
<1>5. TypeOK'
  BY <1>1, <1>2, <1>4 DEF TypeOK, Stack, Framed
<1>6. Dead'
  BY <1>1, <1>2, <1>3 DEF Dead, Kinds
<1>7. Active' /\ Stores'
  BY <1>1, <1>2, <1>3 DEF Active, Stores, Kinds
<1>8. Tagged' /\ WeakSafe' /\ FreedOnce'
  BY <1>1, <1>2 DEF Tagged, WeakSafe, FreedOnce
<1> QED
  BY <1>4, <1>5, <1>6, <1>7, <1>8 DEF IInv

(* A variable, the slot of a block or its registrations may change. *)
LEMMA Kept ==
  ASSUME IInv, UNCHANGED <<program, live, tag, weaks, freed_twice>>,
         Stack(work', live, Settled'), Counted', Dead', Active', Stores',
         static' \in Refs, strong' \in [Addr -> Refs], ref_count' \in [Addr -> Nat],
         active_destructors' \subseteq Addr
  PROVE  IInv'
<1>1. TypeOK /\ Tagged /\ WeakSafe /\ FreedOnce
  BY DEF IInv
<1>2. UNCHANGED <<program, live, tag, weak, weak_references, at_slot, freed_twice>>
  BY DEF weaks
<1>3. Stack(work', live', Settled')
  BY <1>2
<1>4. TypeOK'
  BY <1>1, <1>2, <1>3 DEF TypeOK, Stack, Framed
<1>5. Tagged' /\ WeakSafe' /\ FreedOnce'
  BY <1>1, <1>2 DEF Tagged, WeakSafe, FreedOnce
<1> QED
  BY <1>3, <1>4, <1>5 DEF IInv

(* One slot, or what is waiting to be assigned to it, changes. *)
LEMMA SlotMoved ==
  ASSUME NEW L, IsFiniteSet(L), NEW o \in L, NEW p, NEW q, NEW s, NEW t, NEW a,
         \A h \in L \ {o} : /\ p[h] = q[h]
                            /\ Waits(s, "SET_PROPERTY", h) <=> Waits(t, "SET_PROPERTY", h)
  PROVE  Cardinality(SlotSet(L, q, t, a)) + Number(p[o] = a /\ ~Waits(s, "SET_PROPERTY", o))
         = Cardinality(SlotSet(L, p, s, a)) + Number(q[o] = a /\ ~Waits(t, "SET_PROPERTY", o))
<1> DEFINE A == SlotSet(L, p, s, a)
           B == SlotSet(L, q, t, a)
<1>1. IsFiniteSet(A) /\ IsFiniteSet(B)
  BY SlotsFinite
<1>2. A \ {o} = B \ {o}
  BY DEF SlotSet
<1>3. /\ o \in A <=> p[o] = a /\ ~Waits(s, "SET_PROPERTY", o)
      /\ o \in B <=> q[o] = a /\ ~Waits(t, "SET_PROPERTY", o)
  BY DEF SlotSet
<1> HIDE DEF A, B
<1>4. Cardinality(B) + Number(o \in A) = Cardinality(A) + Number(o \in B)
  BY <1>1, <1>2, OneChanged
<1>5. /\ Number(o \in A) = Number(p[o] = a /\ ~Waits(s, "SET_PROPERTY", o))
      /\ Number(o \in B) = Number(q[o] = a /\ ~Waits(t, "SET_PROPERTY", o))
  BY <1>3 DEF Number
<1> QED
  BY <1>4, <1>5 DEF A, B

(* A local variable of the innermost activation is assigned. *)
LocalSet(s, v) == Append(Below(s), Activation(s[Len(s)].this, v))

LEMMA LocalAssigned ==
  ASSUME NEW L, NEW Z, NEW s, Stack(s, L, Z), s[Len(s)].op = "run", NEW v \in Refs,
         NEW t, t = LocalSet(s, v)
  PROVE  /\ Stack(t, L, Z) /\ Open(t, Z)
         /\ \A a \in Addr :
              /\ Times(t, a) + Number(s[Len(s)].local = a) = Times(s, a) + Number(v = a)
              /\ PathHeld(t, a) <=> PathHeld(s, a)
              /\ \A op \in Kinds : Waits(t, op, a) <=> Waits(s, op, a)
         /\ WaitsStatic(t) <=> WaitsStatic(s)
<1>0. s \in Seq(Frames) /\ Framed(s) /\ Once(s) /\ Checks(s, L, Z)
  BY DEF Stack
<1>a. PICK n \in Nat : n = Len(s) /\ n > 0
  BY DEF Stack
<1> DEFINE g == s[n]
           f == Activation(g.this, v)
<1>b. n \in 1..n /\ \A i \in 1..n : s[i] \in Frames
  BY <1>0, <1>a, ElementOfSeq
<1>1. /\ g \in Frames /\ f \in Frames /\ g.op = "run" /\ f.op = "run"
      /\ f.this = g.this /\ f.local = v
  <2>1. g \in Frames /\ g.op = "run"
    BY <1>a, <1>b
  <2> HIDE DEF g
  <2>2. g.this \in Refs
    BY <2>1, FrameFields
  <2> QED
    BY <2>1, <2>2 DEF Frames, Activation
<1>2. /\ Below(s) \in Seq(Frames) /\ Len(Below(s)) = n - 1
      /\ \A i \in 1..(n - 1) : Below(s)[i] = s[i]
  <2>1. CASE n = 1
    <3>1. Below(s) = <<>>
      BY <1>a, <2>1 DEF Below
    <3> QED
      BY <1>0, <2>1, <3>1
  <2>2. CASE n > 1
    <3>1. \A i \in 1..(n - 1) : s[i] \in Frames
      BY <1>b
    <3>2. (n - 1) - 1 + 1 = n - 1 /\ 1 <= n - 1 /\ \A i \in 1..(n - 1) : 1 + i - 1 = i
      BY <2>2
    <3> QED
      BY <1>a, <2>2, <3>1, <3>2, SubSeqProperties DEF Below
  <2> QED
    BY <1>a, <2>1, <2>2
<1> HIDE DEF f, g
<1>3. /\ t \in Seq(Frames) /\ Len(t) = n /\ t[n] = f
      /\ \A i \in 1..(n - 1) : t[i] = s[i]
  <2>1. t = Append(Below(s), f)
    BY <1>a DEF f, g, LocalSet
  <2> QED
    BY <1>a, <1>1, <1>2, <2>1, AppendProperties
<1>4. s[n] = g
  BY DEF g
<1>c. \A i \in 1..n : i = n \/ (i \in 1..(n - 1) /\ i + 1 \in 1..n)
  BY <1>a
<1>5. Framed(t)
  <2>1. ASSUME NEW i \in 1..(n - 1) PROVE On(t[i], t[i + 1])
    <3>1. On(s[i], s[i + 1])
      BY <1>0, <1>a DEF Framed
    <3>2. t[i] = s[i] /\ (i + 1 \in 1..(n - 1) \/ i + 1 = n)
      BY <1>a, <1>3
    <3> QED
      BY <1>1, <1>3, <1>4, <3>1, <3>2 DEF On
  <2>2. t[1].op = "run" /\ t[1].this = Null
    <3>1. s[1].op = "run" /\ s[1].this = Null
      BY <1>0 DEF Framed
    <3>2. n = 1 \/ 1 \in 1..(n - 1)
      BY <1>a
    <3> QED
      BY <1>1, <1>3, <1>4, <3>1, <3>2
  <2> QED
    BY <1>a, <1>3, <2>1, <2>2 DEF Framed
<1>6. Once(t)
  <2>1. ASSUME NEW i \in 1..n, NEW j \in 1..n, Same(t[i], t[j]) PROVE i = j
    <3>1. i # n /\ j # n
      BY <1>1, <1>3, <2>1 DEF Same
    <3>2. t[i] = s[i] /\ t[j] = s[j]
      BY <1>c, <1>3, <3>1
    <3> QED
      BY <1>0, <1>a, <2>1, <3>2 DEF Once
  <2> QED
    BY <1>3, <2>1 DEF Once
<1>7. Checks(t, L, Z)
  <2>1. ASSUME NEW i \in 1..n, t[i].op = "after object_destructor"
        PROVE  /\ t[i].obj \in L
               /\ i = n \/ t[i + 1].op = "after invoke_destructor" \/ t[i].obj \in Z
    <3>1. i # n
      BY <1>1, <1>3, <2>1
    <3>2. i \in 1..(n - 1) /\ t[i] = s[i] /\ (i + 1 \in 1..(n - 1) \/ i + 1 = n)
      BY <1>c, <1>3, <3>1
    <3>3. t[i + 1].op = s[i + 1].op
      BY <1>1, <1>3, <1>4, <3>2
    <3> QED
      BY <1>0, <1>a, <2>1, <3>1, <3>2, <3>3 DEF Checks
  <2> QED
    BY <1>3, <2>1 DEF Checks
<1>8. Stack(t, L, Z) /\ Open(t, Z)
  BY <1>a, <1>1, <1>3, <1>5, <1>6, <1>7 DEF Stack, Open
<1>9. ASSUME NEW a \in Addr
      PROVE  Times(t, a) + Number(g.local = a) = Times(s, a) + Number(v = a)
  <2> DEFINE A == {i \in 1..n : Holds(s[i], a)}
             B == {i \in 1..n : Holds(t[i], a)}
  <2>1. /\ IsFiniteSet(A) /\ IsFiniteSet(B)
        /\ Times(s, a) = Cardinality(A) /\ Times(t, a) = Cardinality(B)
    BY <1>0, <1>a, <1>3, TimesFinite DEF Times
  <2>2. A \ {n} = B \ {n}
    BY <1>c, <1>3
  <2>3. n \in A <=> g.local = a
    <3>1. Holds(g, a) <=> g.local = a
      BY <1>1, WhatHolds
    <3> QED
      BY <1>b, <1>4, <3>1
  <2>4. n \in B <=> v = a
    <3>1. Holds(f, a) <=> v = a
      BY <1>1, WhatHolds
    <3> QED
      BY <1>b, <1>3, <3>1
  <2> HIDE DEF A, B
  <2>5. Cardinality(B) + Number(n \in A) = Cardinality(A) + Number(n \in B)
    BY <2>1, <2>2, OneChanged
  <2> QED
    BY <2>1, <2>3, <2>4, <2>5 DEF Number
<1>10. ASSUME NEW a \in Addr PROVE PathHeld(t, a) <=> PathHeld(s, a)
  <2>1. \A i \in 1..n : \A k \in 1..(i - 1) : k \in 1..(n - 1) /\ t[k] = s[k]
    BY <1>a, <1>3
  <2>2. \A i \in 1..n : t[i].op = "SET_PROPERTY" \/ s[i].op = "SET_PROPERTY" => t[i] = s[i]
    BY <1>c, <1>1, <1>3, <1>4
  <2> QED
    BY <1>a, <1>3, <2>1, <2>2 DEF PathHeld
<1>11. ASSUME NEW op, op # "run"
       PROVE  \A i \in 1..n : t[i].op = op \/ s[i].op = op => t[i] = s[i]
  BY <1>c, <1>1, <1>3, <1>4, <1>11
<1>12. ASSUME NEW op \in Kinds, NEW a \in Addr PROVE Waits(t, op, a) <=> Waits(s, op, a)
  <2>1. op # "run"
    BY DEF Kinds
  <2> QED
    BY <1>a, <1>3, <1>11, <2>1 DEF Waits
<1>13. WaitsStatic(t) <=> WaitsStatic(s)
  BY <1>a, <1>3, <1>11 DEF WaitsStatic
<1> QED
  BY <1>a, <1>8, <1>9, <1>10, <1>12, <1>13 DEF g

(* An assignment to a field of o, as DEC_REF finds it. *)
Stored(s, o, v, x) == s \o (Release(v) \o <<SetProperty(o, v)>> \o Release(x))
MayStore(s, L, Z, o) == Stack(s, L, Z) /\ Open(s, Z) /\ ~Waits(s, "SET_PROPERTY", o)

LEMMA StorePushed ==
  ASSUME NEW L, NEW Z, NEW s, NEW o \in Addr, MayStore(s, L, Z, o),
         NEW v \in Refs, NEW x \in Refs, NEW t, t = Stored(s, o, v, x)
  PROVE  /\ Stack(t, L, Z)
         /\ \A a \in Addr :
              /\ Times(t, a) = Times(s, a) + Number(v = a) + Number(v = a) + Number(x = a)
              /\ PathHeld(t, a) <=> PathHeld(s, a) \/ (a = o /\ Times(s, a) + Number(v = a) = 0)
              /\ \A op \in Kinds :
                   Waits(t, op, a) <=> Waits(s, op, a) \/ (op = "SET_PROPERTY" /\ a = o)
         /\ WaitsStatic(t) <=> WaitsStatic(s)
<1> DEFINE f == SetProperty(o, v)
           r == Released(s, v)
           u == Append(r, f)
<1>1. f \in Frames /\ f.op = "SET_PROPERTY" /\ f.obj = o /\ f.val = v
  BY DEF Frames, SetProperty
<1>2. s \in Seq(Frames) /\ \A y \in Refs : Release(y) \in Seq(Frames)
  <2>1. ASSUME NEW y \in Refs PROVE Release(y) \in Seq(Frames)
    <3>1. CASE y = Null
      <4>1. Release(y) = <<>>
        BY <3>1 DEF Release
      <4> QED
        BY <4>1
    <3>2. CASE y # Null
      <4>1. Release(y) = <<Decrease(y)>> /\ Decrease(y) \in Frames
        BY <3>2 DEF Release, Refs, Frames, Decrease
      <4> QED
        BY <4>1
    <3> QED
      BY <3>1, <3>2
  <2> QED
    BY <2>1 DEF MayStore, Stack
<1>3. r \in Seq(Frames)
  BY <1>2, ConcatProperties DEF Released
<1>4. t = Released(u, x)
  <2> DEFINE p == Release(v) \o <<f>>
  <2> HIDE DEF f
  <2>1. t = s \o (p \o Release(x))
    BY DEF f, Stored
  <2>2. <<f>> \in Seq(Frames)
    BY <1>1
  <2>3. p \in Seq(Frames)
    BY <1>2, <2>2, ConcatProperties
  <2>4. s \o p = r \o <<f>>
    BY <1>2, <2>2, ConcatAssociative DEF Released
  <2>5. r \o <<f>> = u
    BY <1>1, <1>3, AppendIsConcat
  <2> HIDE DEF p, r, u
  <2>6. t = (s \o p) \o Release(x)
    <3>1. s \in Seq(Frames) /\ Release(x) \in Seq(Frames)
      BY <1>2
    <3>2. (s \o p) \o Release(x) = s \o (p \o Release(x))
      BY <2>3, <3>1, ConcatAssociative
    <3> QED
      BY <2>1, <3>2
  <2> QED
    BY <2>4, <2>5, <2>6 DEF Released
<1>5. /\ Stack(r, L, Z) /\ Open(r, Z)
      /\ \A a \in Addr : /\ Times(r, a) = Times(s, a) + Number(v = a)
                         /\ PathHeld(r, a) <=> PathHeld(s, a)
                         /\ \A op \in Kinds : Waits(r, op, a) <=> Waits(s, op, a)
      /\ WaitsStatic(r) <=> WaitsStatic(s)
  BY ReleasePushed DEF MayStore
<1> HIDE DEF f, r
<1>6. Fits(r, L, Z, f)
  <2>1. ~Waits(r, "SET_PROPERTY", o)
    BY <1>5 DEF Kinds, MayStore
  <2>2. \A i \in 1..Len(r) : ~Same(r[i], f)
    BY <1>1, <2>1 DEF Waits, Same
  <2> QED
    BY <1>1, <1>5, <2>2 DEF Fits, On, Open
<1>7. Stack(u, L, Z) /\ Grows(r, u, f) /\ u[Len(u)] = f
  BY <1>1, <1>5, <1>6, Pushed
<1> HIDE DEF u
<1>8. Open(u, Z)
  BY <1>1, <1>7 DEF Open
<1>9. /\ Stack(t, L, Z)
      /\ \A a \in Addr : /\ Times(t, a) = Times(u, a) + Number(x = a)
                         /\ PathHeld(t, a) <=> PathHeld(u, a)
                         /\ \A op \in Kinds : Waits(t, op, a) <=> Waits(u, op, a)
      /\ WaitsStatic(t) <=> WaitsStatic(u)
  <2>1. Stack(u, L, Z) /\ Open(u, Z) /\ x \in Refs
    BY <1>7, <1>8
  <2> QED
    BY <1>4, <2>1, ReleasePushed
<1>10. ASSUME NEW a \in Addr
       PROVE  /\ Times(t, a) = Times(s, a) + Number(v = a) + Number(v = a) + Number(x = a)
              /\ PathHeld(t, a) <=> PathHeld(s, a) \/ (a = o /\ Times(s, a) + Number(v = a) = 0)
  <2>1. Holds(f, a) <=> v = a
    BY <1>1, WhatHolds
  <2>2. Number(Holds(f, a)) = Number(v = a)
    BY <2>1 DEF Number
  <2> QED
    BY <1>1, <1>5, <1>7, <1>9, <2>2 DEF Grows
<1>11. ASSUME NEW a \in Addr, NEW op \in Kinds
       PROVE  Waits(t, op, a) <=> Waits(s, op, a) \/ (op = "SET_PROPERTY" /\ a = o)
  BY <1>1, <1>5, <1>7, <1>9 DEF Grows
<1>12. WaitsStatic(t) <=> WaitsStatic(s)
  BY <1>1, <1>5, <1>7, <1>9 DEF Grows
<1> QED
  BY <1>9, <1>10, <1>11, <1>12

(* The stack changes from s to t, where v has one owner more. *)
Moved(s, t, v) ==
  /\ \A a \in Addr : /\ Times(t, a) = Times(s, a) + Number(v = a)
                     /\ PathHeld(t, a) <=> PathHeld(s, a)
                     /\ \A op \in Kinds : Waits(t, op, a) <=> Waits(s, op, a)
  /\ WaitsStatic(t) <=> WaitsStatic(s)

LEMMA NullOwnsNothing == \A a \in Addr : Number(Null = a) = 0
BY NullAssumption DEF Number

LEMMA QuietGain ==
  ASSUME IInv, NEW v \in Refs, v # Null => ref_count[v] > 0, ref_count' = Retained(v),
         UNCHANGED <<program, live, tag, strong, weaks, static, active_destructors,
                     freed_twice>>,
         Stack(work', live, Settled), Moved(work, work', v)
  PROVE  IInv'
<1>1. work' \in Seq(Frames)
  BY DEF Stack
<1>2. ASSUME NEW a \in Addr
      PROVE  /\ OwnerCount(a)' = OwnerCount(a) + Number(v = a)
             /\ /\ OwnerCount(a)' \in Nat
             /\ PathClaim(a)' \in {0, 1} /\ PathClaim(a)' = PathClaim(a)
  <2>1. Times(work', a) \in Nat /\ Times(work, a) \in Nat /\ OwnerCount(a) \in Nat
    BY <1>1, TimesFinite, OwnerType
  <2>2. Number(v = a) \in {0, 1}
    BY DEF Number
  <2>3. OwnerCount(a)' = OwnerCount(a) + (Times(work', a) - Times(work, a))
    BY <2>1, OwnersMoved DEF Moved, Kinds
  <2>4. Times(work', a) = Times(work, a) + Number(v = a)
    BY DEF Moved
  <2>5. PathClaim(a)' = PathClaim(a) /\ PathClaim(a)' \in {0, 1}
    BY DEF Moved, PathClaim, Number
  <2> QED
    BY <2>1, <2>2, <2>3, <2>4, <2>5
<1>3. UNCHANGED <<program, live>>
  OBVIOUS
<1>4. /\ Counted' /\ \A a \in Settled : a \in Settled'
      /\ \A a \in Addr : ref_count'[a] \in Nat /\ (ref_count'[a] = 0 => ref_count[a] = 0)
      /\ ref_count' \in [Addr -> Nat]
  <2>1. \A a \in Addr : PathClaim(a)' <= PathClaim(a) /\ OwnerCount(a)' <= OwnerCount(a) + Number(v = a)
    BY <1>2
  <2> QED
    BY <1>2, <1>3, <2>1, Gained
<1>5. \A op \in Kinds, a \in Addr : Waits(work', op, a) <=> Waits(work, op, a)
  BY DEF Moved
<1>6. static' \in Refs
  BY DEF IInv, TypeOK
<1> QED
  BY <1>4, <1>5, <1>6, QuietKeeps

-----------------------------------------------------------------------------
(* Every step. *)

LEMMA NoHabits == ASSUME Careful, IInv PROVE program.habits = {}
BY DEF Careful, IInv, TypeOK

LEMMA LoadKeeps ==
  ASSUME Careful, IInv, NEW v \in Refs, Load(v)
  PROVE  IInv'
<1>1. v # Null => ref_count[v] > 0
  <2>1. v # Null => ref_count[v] # 0
    <3> DEFINE habit == IF \E i \in DOMAIN work : work[i] = Check(v) THEN "dying" ELSE "stray"
    <3>1. v # Null /\ ref_count[v] = 0 => habit \in program.habits
      BY DEF Load
    <3> HIDE DEF habit
    <3> QED
      BY <3>1, NoHabits
  <2>2. v # Null => ref_count[v] \in Nat
    BY DEF IInv, TypeOK, Refs
  <2> QED
    BY <2>1, <2>2
<1>2. /\ Top.op = "run" /\ ref_count' = Retained(v) /\ work' = Append(work, Value(v))
      /\ UNCHANGED <<program, live, tag, strong, weaks, static, active_destructors,
                     freed_twice>>
  BY DEF Load, At
<1>3. Value(v) \in Frames /\ Value(v).op = "value" /\ Value(v).val = v
  BY DEF Value, Frames
<1> DEFINE f == Value(v)
<1> HIDE DEF f
<1>4. Stack(work, live, Settled)
  BY DEF IInv
<1>5. Fits(work, live, Settled, f)
  BY <1>2, <1>3 DEF Fits, On, Same, Top, f
<1>6. Stack(work', live, Settled) /\ Grows(work, work', f)
  BY <1>2, <1>3, <1>4, <1>5, Pushed DEF f
<1>7. f.op \notin Kinds /\ f.op # "SET_PROPERTY" /\ f.op # "SET_GLOBAL"
  BY <1>3 DEF Kinds, f
<1>8. \A a \in Addr : Holds(f, a) <=> v = a
  BY <1>3, WhatHolds DEF f
<1>9. Moved(work, work', v)
  BY <1>6, <1>7, <1>8 DEF Grows, Moved, Number
<1> QED
  BY <1>1, <1>2, <1>6, <1>9, QuietGain

(* The counts when the top is gone. *)
LEMMA RestCounts ==
  ASSUME IInv, Top.op # "run" \/ Len(work) > 1
  PROVE  /\ \A a \in Addr :
              /\ Times(work, a) = Times(Rest, a) + Number(Holds(Top, a))
              /\ Times(Rest, a) \in Nat /\ Times(work, a) \in Nat
              /\ PathHeld(Rest, a) => PathHeld(work, a)
              /\ \A op \in Kinds : Waits(work, op, a) <=> Waits(Rest, op, a)
                                                          \/ (Top.op = op /\ Top.obj = a)
         /\ WaitsStatic(work) <=> WaitsStatic(Rest) \/ Top.op = "SET_GLOBAL"
         /\ Top.op # "SET_PROPERTY" => \A a \in Addr : PathHeld(Rest, a) <=> PathHeld(work, a)
<1>1. Rest \in Seq(Frames) /\ work \in Seq(Frames)
  BY RestFacts DEF Stack, IInv, TypeOK
<1>2. Grows(Rest, work, Top)
  BY RestFacts
<1> QED
  BY <1>1, <1>2, TimesFinite DEF Grows

LEMMA AssignLocalKeeps ==
  ASSUME Careful, IInv, AssignLocal
  PROVE  IInv'
<1>1. /\ Top.op = "value" /\ ref_count' = Retained(Top.val)
      /\ work' = SubSeq(work, 1, Len(work) - 2) \o <<Activation(Act.this, Top.val)>>
                 \o Release(Top.val) \o Release(Act.local)
      /\ UNCHANGED <<program, live, tag, strong, weaks, static, active_destructors,
                     freed_twice>>
  BY DEF AssignLocal, At
<1>2. /\ Top.val \in Refs /\ Act = Rest[Len(Rest)] /\ Act.op = "run"
      /\ Act.this \in Refs /\ Act.local \in Refs
      /\ Top.val # Null => ref_count[Top.val] > 0
  BY <1>1, ActFacts
<1>3. Stack(Rest, live, Settled) /\ Len(Rest) = Len(work) - 1 /\ Len(work) > 1 /\ Top \in Frames
  BY <1>1, RestFacts
<1> DEFINE v == Top.val
           f == Activation(Act.this, v)
           r == LocalSet(Rest, v)
           u == Released(r, v)
<1>4. work' = Released(u, Act.local)
  <2>1. Rest \in Seq(Frames) /\ work \in Seq(Frames) /\ Len(work) \in Nat
    BY <1>3 DEF Stack, IInv
  <2>2. f \in Frames
    BY <1>2 DEF Frames, Activation
  <2> HIDE DEF f
  <2>3. Below(Rest) = SubSeq(work, 1, Len(work) - 2) /\ Below(Rest) \in Seq(Frames)
    <3> DEFINE n == Len(work)
    <3>1. n \in Nat /\ n > 1 /\ \A i \in 1..n : work[i] \in Frames
      BY <1>3, <2>1, ElementOfSeq
    <3>2. Rest = SubSeq(work, 1, n - 1) /\ Len(Rest) = n - 1
      BY <1>3 DEF Rest
    <3> HIDE DEF n
    <3>3. \A i \in 1..(n - 1) : work[i] \in Frames /\ Rest[i] = work[i]
      BY <1>1, <3>1, <3>2, RestFacts
    <3>4. CASE n = 2
      <4>1. SubSeq(Rest, 1, 0) = <<>> /\ SubSeq(work, 1, 0) = <<>>
        OBVIOUS
      <4> QED
        BY <3>2, <3>4, <4>1 DEF Below, n
    <3>5. CASE n > 2
      <4>1. \A i \in 1..(n - 2) : Rest[i] \in Frames /\ work[i] = Rest[i]
        BY <3>1, <3>3
      <4>2. /\ Below(Rest) \in Seq(Frames) /\ Len(Below(Rest)) = n - 2
            /\ \A i \in 1..(n - 2) : Below(Rest)[i] = Rest[i]
        BY <3>1, <3>2, <3>5, <4>1, SubSeqProperties DEF Below
      <4>3. /\ SubSeq(work, 1, n - 2) \in Seq(Frames) /\ Len(SubSeq(work, 1, n - 2)) = n - 2
            /\ \A i \in 1..(n - 2) : SubSeq(work, 1, n - 2)[i] = work[i]
        BY <3>1, <3>5, <4>1, SubSeqProperties
      <4>4. Below(Rest) = SubSeq(work, 1, n - 2)
        BY <3>1, <4>1, <4>2, <4>3, SeqEqual
      <4> QED
        BY <4>2, <4>4 DEF n
    <3> QED
      BY <3>1, <3>4, <3>5
  <2>4. Append(Below(Rest), f) = Below(Rest) \o <<f>>
    BY <2>2, <2>3, AppendIsConcat
  <2>5. r = Append(Below(Rest), f)
    BY <1>2 DEF LocalSet, f
  <2> QED
    BY <1>1, <2>3, <2>4, <2>5 DEF Released, f
<1>5. /\ Stack(r, live, Settled) /\ Open(r, Settled)
      /\ \A a \in Addr : /\ Times(r, a) + Number(Act.local = a) = Times(Rest, a) + Number(v = a)
                         /\ PathHeld(r, a) <=> PathHeld(Rest, a)
                         /\ \A op \in Kinds : Waits(r, op, a) <=> Waits(Rest, op, a)
      /\ WaitsStatic(r) <=> WaitsStatic(Rest)
  BY <1>2, <1>3, LocalAssigned
<1> HIDE DEF r, v
<1>6. /\ Stack(u, live, Settled) /\ Open(u, Settled)
      /\ \A a \in Addr : /\ Times(u, a) = Times(r, a) + Number(v = a)
                         /\ PathHeld(u, a) <=> PathHeld(r, a)
                         /\ \A op \in Kinds : Waits(u, op, a) <=> Waits(r, op, a)
      /\ WaitsStatic(u) <=> WaitsStatic(r)
  BY <1>2, <1>5, ReleasePushed DEF v
<1> HIDE DEF u
<1>7. /\ Stack(work', live, Settled)
      /\ \A a \in Addr : /\ Times(work', a) = Times(u, a) + Number(Act.local = a)
                         /\ PathHeld(work', a) <=> PathHeld(u, a)
                         /\ \A op \in Kinds : Waits(work', op, a) <=> Waits(u, op, a)
      /\ WaitsStatic(work') <=> WaitsStatic(u)
  BY <1>2, <1>4, <1>6, ReleasePushed
<1>8. Moved(work, work', v)
  <2>1. \A a \in Addr : Holds(Top, a) <=> v = a
    BY <1>1, <1>3, WhatHolds DEF v
  <2>2. ASSUME NEW a \in Addr PROVE Times(work', a) = Times(work, a) + Number(v = a)
    <3>1. Times(work, a) = Times(Rest, a) + Number(v = a) /\ Times(Rest, a) \in Nat
      BY <1>1, <2>1, RestCounts DEF Number
    <3>2. Times(r, a) \in Nat /\ Number(v = a) \in {0, 1} /\ Number(Act.local = a) \in {0, 1}
      BY <1>5, TimesFinite DEF Stack, Number
    <3> QED
      BY <1>5, <1>6, <1>7, <3>1, <3>2
  <2>3. \A a \in Addr : PathHeld(work', a) <=> PathHeld(work, a)
    BY <1>1, <1>5, <1>6, <1>7, RestCounts
  <2>4. ASSUME NEW a \in Addr, NEW op \in Kinds
        PROVE  Waits(work', op, a) <=> Waits(work, op, a)
    <3>1. Top.op # op
      BY <1>1 DEF Kinds
    <3>2. Waits(work, op, a) <=> Waits(Rest, op, a)
      BY <1>1, <3>1, RestCounts
    <3> QED
      BY <1>5, <1>6, <1>7, <3>2
  <2>5. WaitsStatic(work') <=> WaitsStatic(work)
    BY <1>1, <1>5, <1>6, <1>7, RestCounts
  <2> QED
    BY <2>2, <2>3, <2>4, <2>5 DEF Moved
<1> QED
  BY <1>1, <1>2, <1>7, <1>8, QuietGain DEF v

LEMMA RetainedNull == Retained(Null) = ref_count
BY DEF Retained

LEMMA ReturnKeeps ==
  ASSUME IInv, Return
  PROVE  IInv'
<1>1. /\ Top.op = "run" /\ Len(work) > 1 /\ work' = Released(Rest, Top.local)
      /\ UNCHANGED <<program, live, tag, ref_count, strong, weaks, static,
                     active_destructors, freed_twice>>
  BY DEF Return, At, Released
<1>2. /\ Stack(Rest, live, Settled) /\ Open(Rest, Settled) /\ Top \in Frames
  BY <1>1, RestFacts
<1>3. Top.local \in Refs
  BY <1>1, <1>2, FrameFields
<1>4. /\ Stack(work', live, Settled)
      /\ \A a \in Addr : /\ Times(work', a) = Times(Rest, a) + Number(Top.local = a)
                         /\ PathHeld(work', a) <=> PathHeld(Rest, a)
                         /\ \A op \in Kinds : Waits(work', op, a) <=> Waits(Rest, op, a)
      /\ WaitsStatic(work') <=> WaitsStatic(Rest)
  BY <1>1, <1>2, <1>3, ReleasePushed
<1>5. Moved(work, work', Null)
  <2>1. \A a \in Addr : Holds(Top, a) <=> Top.local = a
    BY <1>1, <1>2, WhatHolds
  <2>2. ASSUME NEW a \in Addr PROVE Times(work', a) = Times(work, a) + Number(Null = a)
    BY <1>1, <1>4, <2>1, RestCounts, NullOwnsNothing DEF Number
  <2>3. ASSUME NEW a \in Addr, NEW op \in Kinds
        PROVE  Waits(work', op, a) <=> Waits(work, op, a)
    <3>1. Top.op # op
      BY <1>1 DEF Kinds
    <3>2. Waits(work, op, a) <=> Waits(Rest, op, a)
      BY <1>1, <3>1, RestCounts
    <3> QED
      BY <1>4, <3>2
  <2> QED
    BY <1>1, <1>4, <2>2, <2>3, RestCounts DEF Moved
<1> QED
  BY <1>1, <1>4, <1>5, QuietGain, RetainedNull DEF Refs

LEMMA DecrementKeeps ==
  ASSUME IInv, Decrement
  PROVE  IInv'
<1> DEFINE x == Top.obj
<1>1. /\ Top.op = "decrease_reference" /\ ref_count[x] # 1 /\ work' = Rest
      /\ ref_count' = [ref_count EXCEPT ![x] = IF @ > 0 THEN @ - 1 ELSE 0]
      /\ UNCHANGED <<program, live, tag, strong, weaks, static, active_destructors,
                     freed_twice>>
  BY DEF Decrement, At
<1>2. Stack(Rest, live, Settled) /\ Top \in Frames
  BY <1>1, RestFacts
<1>3. x \in Addr /\ \A a \in Addr : Holds(Top, a) <=> x = a
  BY <1>1, <1>2, FrameFields, WhatHolds
<1> HIDE DEF x
<1>4. ref_count[x] > 0 /\ Times(work, x) > 0 /\ OwnerCount(x) > 0
  BY <1>3, TopHeld, OwnerType
<1>5. ref_count' = [ref_count EXCEPT ![x] = @ - 1] /\ ref_count \in [Addr -> Nat]
  BY <1>1, <1>4 DEF IInv, TypeOK
<1>6. ASSUME NEW a \in Addr
      PROVE  /\ OwnerCount(a)' = OwnerCount(a) - Number(x = a)
             /\ PathClaim(a)' \in {0, 1} /\ PathClaim(a)' <= PathClaim(a)
             /\ \A op \in Kinds : Waits(work', op, a) <=> Waits(work, op, a)
  <2>1. Times(work, a) = Times(Rest, a) + Number(x = a) /\ Times(Rest, a) \in Nat
    BY <1>1, <1>3, RestCounts DEF Number
  <2>2. \A op \in Kinds, h \in Addr : Waits(work', op, h) <=> Waits(work, op, h)
    BY <1>1, RestCounts DEF Kinds
  <2>3. WaitsStatic(work') <=> WaitsStatic(work)
    BY <1>1, RestCounts
  <2>4. OwnerCount(a)' = OwnerCount(a) + (Times(work', a) - Times(work, a))
    BY <1>1, <2>1, <2>2, <2>3, OwnersMoved DEF Kinds
  <2>5. OwnerCount(a) \in Nat /\ Number(x = a) \in {0, 1}
    BY OwnerType DEF Number
  <2>6. PathClaim(a)' = PathClaim(a) /\ PathClaim(a) \in {0, 1}
    BY <1>1, RestCounts DEF PathClaim, Number
  <2> QED
    BY <1>1, <2>1, <2>2, <2>4, <2>5, <2>6
<1>7. /\ Counted' /\ \A a \in Settled : a \in Settled'
      /\ \A a \in Addr : ref_count'[a] \in Nat /\ (a # x => ref_count'[a] = ref_count[a])
      /\ ref_count' \in [Addr -> Nat]
  <2>1. UNCHANGED <<program, live>>
    BY <1>1
  <2>2. \A a \in Addr : /\ OwnerCount(a)' = OwnerCount(a) - Number(x = a)
                        /\ PathClaim(a)' \in {0, 1} /\ PathClaim(a)' <= PathClaim(a)
    BY <1>6
  <2>3. x \in Addr /\ OwnerCount(x) > 0 /\ ref_count' = [ref_count EXCEPT ![x] = @ - 1]
    BY <1>3, <1>4, <1>5
  <2> QED
    BY <2>1, <2>2, <2>3, Lost
<1>8. \A a \in Addr : ref_count'[a] = 0 => ref_count[a] = 0
  BY <1>1, <1>3, <1>4, <1>5, <1>7
<1>9. static' \in Refs
  BY <1>1 DEF IInv, TypeOK
<1> QED
  BY <1>1, <1>2, <1>6, <1>7, <1>8, <1>9, QuietKeeps

LEMMA StackStays ==
  ASSUME Stack(work', live, Settled), \A a \in Settled : a \in Settled'
  PROVE  Stack(work', live, Settled')
BY Rechecked

(* Where the owners are. *)
LEMMA OwnersAre ==
  ASSUME IInv, NEW a \in Addr
  PROVE  /\ OwnerCount(a) = Times(work, a) + Cardinality(SlotSet(live, strong, work, a))
                            + StaticCount(static, work, a)
         /\ OwnerCount(a)' = Times(work', a) + Cardinality(SlotSet(live', strong', work', a))
                             + StaticCount(static', work', a)
         /\ Times(work, a) \in Nat /\ StaticCount(static, work, a) \in {0, 1}
         /\ Cardinality(SlotSet(live, strong, work, a)) \in Nat
BY OwnerType DEF OwnerCount

LEMMA PathClaimFalls ==
  ASSUME NEW a \in Addr, PathHeld(work', a) => PathHeld(work, a)
  PROVE  PathClaim(a)' \in {0, 1} /\ PathClaim(a)' <= PathClaim(a)
<1>1. PathClaim(a)' = Number(PathHeld(work', a)) /\ PathClaim(a) = Number(PathHeld(work, a))
  BY DEF PathClaim
<1> QED
  BY <1>1 DEF Number

LEMMA RestWaits ==
  ASSUME IInv, Top.op # "run" \/ Len(work) > 1, NEW a \in Addr
  PROVE  /\ Waits(work, "SET_PROPERTY", a)
              <=> Waits(Rest, "SET_PROPERTY", a) \/ (Top.op = "SET_PROPERTY" /\ Top.obj = a)
         /\ Waits(work, "after invoke_destructor", a)
              <=> Waits(Rest, "after invoke_destructor", a)
                  \/ (Top.op = "after invoke_destructor" /\ Top.obj = a)
         /\ Waits(work, "after object_destructor", a)
              <=> Waits(Rest, "after object_destructor", a)
                  \/ (Top.op = "after object_destructor" /\ Top.obj = a)
<1>1. \A op \in Kinds : Waits(work, op, a) <=> Waits(Rest, op, a) \/ (Top.op = op /\ Top.obj = a)
  BY RestCounts
<1> QED
  BY <1>1 DEF Kinds

LEMMA SurviveKeeps ==
  ASSUME IInv, Survive
  PROVE  IInv'
<1> DEFINE x == Top.obj
<1>1. /\ Top.op = "after object_destructor" /\ ref_count[x] > 0 /\ work' = Rest
      /\ UNCHANGED <<program, live, tag, ref_count, strong, weaks, static,
                     active_destructors, freed_twice>>
  BY DEF Survive, At
<1>2. Stack(Rest, live, Settled) /\ Top \in Frames
  BY <1>1, RestFacts
<1>3. x \in Addr /\ \A a \in Addr : ~Holds(Top, a)
  <2>1. Top.obj \in Addr
    BY <1>1, <1>2, FrameFields DEF Kinds
  <2> QED
    BY <1>1, <1>2, <2>1, WhatHolds
<1> HIDE DEF x
<1>4. ASSUME NEW a \in Addr
      PROVE  /\ Times(work', a) = Times(work, a) /\ Times(work, a) \in Nat
             /\ PathHeld(work', a) <=> PathHeld(work, a)
  <2>1. Times(work, a) = Times(Rest, a) /\ Times(Rest, a) \in Nat
    <3>1. Times(work, a) = Times(Rest, a) + Number(Holds(Top, a)) /\ Times(Rest, a) \in Nat
      BY <1>1, RestCounts
    <3>2. ~Holds(Top, a)
      BY <1>3
    <3> QED
      BY <3>1, <3>2 DEF Number
  <2>2. PathHeld(Rest, a) <=> PathHeld(work, a)
    BY <1>1, RestCounts
  <2> QED
    BY <1>1, <2>1, <2>2
<1>w. WaitsStatic(work') <=> WaitsStatic(work)
  BY <1>1, RestCounts
<1>k. ASSUME NEW a \in Addr
      PROVE  /\ Waits(work', "SET_PROPERTY", a) <=> Waits(work, "SET_PROPERTY", a)
             /\ Waits(work', "after invoke_destructor", a)
                  <=> Waits(work, "after invoke_destructor", a)
             /\ a # x => (Waits(work', "after object_destructor", a)
                            <=> Waits(work, "after object_destructor", a))
  BY <1>1, RestWaits DEF x
<1>5. ASSUME NEW a \in Addr
      PROVE  /\ OwnerCount(a)' = OwnerCount(a) + Number(Null = a) /\ OwnerCount(a)' \in Nat
             /\ PathClaim(a)' \in {0, 1} /\ PathClaim(a)' <= PathClaim(a)
  <2>1. SlotSet(live', strong', work', a) = SlotSet(live, strong, work, a)
    BY <1>1, <1>k DEF SlotSet, IInv, TypeOK
  <2>2. StaticCount(static', work', a) = StaticCount(static, work, a)
    BY <1>1, <1>w DEF StaticCount
  <2>3. Times(work', a) = Times(work, a)
    BY <1>4
  <2>4. OwnerCount(a)' = OwnerCount(a) /\ OwnerCount(a) \in Nat
    BY <2>1, <2>2, <2>3, OwnersAre
  <2> QED
    BY <1>4, <2>4, NullOwnsNothing, PathClaimFalls
<1>6. UNCHANGED <<program, live>> /\ ref_count' = Retained(Null) /\ Null \in Refs
  BY <1>1, RetainedNull DEF Refs
<1>7. /\ Counted' /\ \A a \in Settled : a \in Settled'
      /\ ref_count' \in [Addr -> Nat]
  <2>1. \A a \in Addr : OwnerCount(a)' <= OwnerCount(a) + Number(Null = a)
    BY <1>5
  <2> QED
    BY <1>5, <1>6, <2>1, Gained
<1>8. Stack(work', live, Settled')
  BY <1>1, <1>2, <1>7, StackStays
<1>9. live \subseteq Addr /\ active_destructors \subseteq Addr /\ Dead /\ Active /\ Stores
  BY DEF IInv, TypeOK
<1>10. Dead' /\ Active' /\ Stores'
  <2>1. Dead'
    <3>1. ASSUME NEW a \in live, ref_count[a] = 0
          PROVE  strong[a] = Null /\ Waits(work', "after object_destructor", a)
      <4>1. a # x
        <5>1. ref_count[x] > 0
          BY <1>1
        <5> QED
          BY <3>1, <5>1
      <4>2. strong[a] = Null /\ Waits(work, "after object_destructor", a) /\ a \in Addr
        BY <1>9, <3>1 DEF Dead
      <4> QED
        BY <1>k, <4>1, <4>2
    <3> QED
      BY <1>1, <3>1 DEF Dead
  <2>2. Active' /\ Stores'
    BY <1>1, <1>k, <1>9 DEF Active, Stores
  <2> QED
    BY <2>1, <2>2
<1>11. static' \in Refs /\ strong' \in [Addr -> Refs] /\ active_destructors' \subseteq Addr
  BY <1>1 DEF IInv, TypeOK
<1> QED
  BY <1>1, <1>7, <1>8, <1>10, <1>11, Kept

LEMMA StoreGlobalKeeps ==
  ASSUME IInv, StoreGlobal
  PROVE  IInv'
<1> DEFINE v == Top.val
<1>1. /\ Top.op = "SET_GLOBAL" /\ static' = v /\ work' = Rest
      /\ UNCHANGED <<program, live, tag, ref_count, strong, weaks, active_destructors,
                     freed_twice>>
  BY DEF StoreGlobal, At
<1>2. Stack(Rest, live, Settled) /\ Top \in Frames
  BY <1>1, RestFacts
<1>3. v \in Refs /\ \A a \in Addr : Holds(Top, a) <=> v = a
  BY <1>1, <1>2, FrameFields, WhatHolds
<1> HIDE DEF v
<1>4. ASSUME NEW a \in Addr
      PROVE  /\ Times(work, a) = Times(work', a) + Number(v = a) /\ Times(work', a) \in Nat
             /\ PathHeld(work', a) <=> PathHeld(work, a)
  BY <1>1, <1>3, RestCounts DEF Number
<1>5. ASSUME NEW a \in Addr, NEW op \in Kinds
      PROVE  Waits(work', op, a) <=> Waits(work, op, a)
  <2>1. Top.op # op
    BY <1>1 DEF Kinds
  <2> QED
    BY <1>1, <2>1, RestCounts
<1>6. WaitsStatic(work) /\ ~WaitsStatic(work')
  <2>1. \A i \in 1..Len(Rest) : Rest[i].op # "SET_GLOBAL"
    BY <1>1, RestFacts DEF Same
  <2> QED
    BY <1>1, <2>1, RestCounts DEF WaitsStatic
<1>7. ASSUME NEW a \in Addr
      PROVE  /\ OwnerCount(a)' = OwnerCount(a) + Number(Null = a) /\ OwnerCount(a)' \in Nat
             /\ PathClaim(a)' \in {0, 1} /\ PathClaim(a)' <= PathClaim(a)
  <2>1. SlotSet(live', strong', work', a) = SlotSet(live, strong, work, a)
    BY <1>1, <1>5 DEF SlotSet, IInv, TypeOK, Kinds
  <2>2. StaticCount(static', work', a) = Number(v = a) /\ StaticCount(static, work, a) = 0
    BY <1>1, <1>6 DEF StaticCount, Number
  <2>3. Number(v = a) \in {0, 1}
    BY DEF Number
  <2>4. OwnerCount(a)' = OwnerCount(a) /\ OwnerCount(a) \in Nat
    BY <1>4, <2>1, <2>2, <2>3, OwnersAre
  <2> QED
    BY <1>4, <2>4, NullOwnsNothing, PathClaimFalls
<1>8. UNCHANGED <<program, live>> /\ ref_count' = Retained(Null) /\ Null \in Refs
  BY <1>1, RetainedNull DEF Refs
<1>9. /\ Counted' /\ \A a \in Settled : a \in Settled'
      /\ \A a \in Addr : ref_count'[a] = 0 => ref_count[a] = 0
      /\ ref_count' \in [Addr -> Nat]
  <2>1. \A a \in Addr : OwnerCount(a)' <= OwnerCount(a) + Number(Null = a)
    BY <1>7
  <2> QED
    BY <1>7, <1>8, <2>1, Gained
<1> QED
  BY <1>1, <1>2, <1>3, <1>5, <1>9, QuietKeeps

LEMMA StorePropertyKeeps ==
  ASSUME IInv, StoreProperty
  PROVE  IInv'
<1> DEFINE v == Top.val
           h == Top.obj
<1>1. /\ Top.op = "SET_PROPERTY" /\ strong' = [strong EXCEPT ![h] = v] /\ work' = Rest
      /\ UNCHANGED <<program, live, tag, ref_count, weaks, static, active_destructors,
                     freed_twice>>
  BY DEF StoreProperty, At
<1>2. Stack(Rest, live, Settled) /\ Top \in Frames
  BY <1>1, RestFacts
<1>3. v \in Refs /\ h \in Addr /\ \A a \in Addr : Holds(Top, a) <=> v = a
  BY <1>1, <1>2, FrameFields, WhatHolds DEF Kinds
<1>4. Waits(work, "SET_PROPERTY", h) /\ ~Waits(work', "SET_PROPERTY", h)
  <2>1. ASSUME NEW i \in 1..Len(Rest)
        PROVE  ~(Rest[i].op = "SET_PROPERTY" /\ Rest[i].obj = h)
    BY <1>1, RestFacts DEF Same
  <2> QED
    <3>1. Waits(work, "SET_PROPERTY", h)
      BY <1>1, <1>3, RestWaits
    <3>2. ~Waits(work', "SET_PROPERTY", h)
      BY <1>1, <2>1 DEF Waits
    <3> QED
      BY <3>1, <3>2
<1> HIDE DEF v
<1>5. ASSUME NEW a \in Addr
      PROVE  /\ Times(work, a) = Times(work', a) + Number(v = a) /\ Times(work', a) \in Nat
             /\ PathHeld(work', a) => PathHeld(work, a)
  BY <1>1, <1>3, RestCounts DEF Number
<1>6. ASSUME NEW a \in Addr
      PROVE  /\ a # h => (Waits(work', "SET_PROPERTY", a) <=> Waits(work, "SET_PROPERTY", a))
             /\ Waits(work', "after invoke_destructor", a)
                  <=> Waits(work, "after invoke_destructor", a)
             /\ Waits(work', "after object_destructor", a)
                  <=> Waits(work, "after object_destructor", a)
  BY <1>1, RestWaits
<1> HIDE DEF h
<1>7. WaitsStatic(work') <=> WaitsStatic(work)
  BY <1>1, RestCounts
<1>8. h \in live /\ ref_count[h] > 0
  BY <1>3, <1>4, StoredIsLive
<1>9. /\ IsFiniteSet(live) /\ live \subseteq Addr /\ active_destructors \subseteq Addr
      /\ strong \in [Addr -> Refs] /\ static \in Refs
      /\ Dead /\ Active /\ Stores
  BY DEF IInv, Tagged, TypeOK
<1>10. /\ strong' \in [Addr -> Refs] /\ strong'[h] = v
       /\ \A a \in Addr : a # h => strong'[a] = strong[a]
  BY <1>1, <1>3, <1>9
<1>11. ASSUME NEW a \in Addr
      PROVE  /\ OwnerCount(a)' = OwnerCount(a) + Number(Null = a) /\ OwnerCount(a)' \in Nat
             /\ PathClaim(a)' \in {0, 1} /\ PathClaim(a)' <= PathClaim(a)
  <2>1. Cardinality(SlotSet(live, strong', work', a))
          + Number(strong[h] = a /\ ~Waits(work, "SET_PROPERTY", h))
        = Cardinality(SlotSet(live, strong, work, a))
          + Number(strong'[h] = a /\ ~Waits(work', "SET_PROPERTY", h))
    <3>1. \A g \in live \ {h} :
            /\ strong[g] = strong'[g]
            /\ Waits(work, "SET_PROPERTY", g) <=> Waits(work', "SET_PROPERTY", g)
      BY <1>6, <1>9, <1>10
    <3> QED
      BY <1>8, <1>9, <3>1, SlotMoved
  <2>2. Cardinality(SlotSet(live', strong', work', a))
        = Cardinality(SlotSet(live, strong, work, a)) + Number(v = a)
    <3>1. Cardinality(SlotSet(live, strong', work', a)) \in Nat
      BY <1>9, SlotsFinite
    <3>2. live' = live
      BY <1>1
    <3> QED
      BY <1>4, <1>10, <2>1, <3>1, <3>2 DEF Number
  <2>3. StaticCount(static', work', a) = StaticCount(static, work, a)
    BY <1>1, <1>7 DEF StaticCount
  <2>4. OwnerCount(a)' = OwnerCount(a) /\ OwnerCount(a) \in Nat
    <3>1. Number(v = a) \in {0, 1}
      BY DEF Number
    <3> QED
      BY <1>5, <2>2, <2>3, <3>1, OwnersAre
  <2> QED
    BY <1>5, <2>4, NullOwnsNothing, PathClaimFalls
<1>12. UNCHANGED <<program, live>> /\ ref_count' = Retained(Null) /\ Null \in Refs
  BY <1>1, RetainedNull DEF Refs
<1>13. /\ Counted' /\ \A a \in Settled : a \in Settled'
       /\ ref_count' \in [Addr -> Nat]
  <2>1. \A a \in Addr : OwnerCount(a)' <= OwnerCount(a) + Number(Null = a)
    BY <1>11
  <2> QED
    BY <1>11, <1>12, <2>1, Gained
<1>14. Stack(work', live, Settled')
  BY <1>1, <1>2, <1>13, StackStays
<1>15. Dead' /\ Active' /\ Stores'
  <2>1. Dead'
    <3>1. ASSUME NEW a \in live, ref_count[a] = 0
          PROVE  strong'[a] = Null /\ Waits(work', "after object_destructor", a)
      <4>1. a # h /\ a \in Addr
        BY <1>8, <1>9, <3>1
      <4>2. strong[a] = Null /\ Waits(work, "after object_destructor", a)
        BY <1>9, <3>1 DEF Dead
      <4> QED
        BY <1>6, <1>10, <4>1, <4>2
    <3> QED
      BY <1>1, <3>1 DEF Dead
  <2>2. Active'
    BY <1>1, <1>6, <1>9 DEF Active
  <2>3. Stores'
    BY <1>1, <1>4, <1>6, <1>9 DEF Stores
  <2> QED
    BY <2>1, <2>2, <2>3
<1> QED
  BY <1>1, <1>9, <1>10, <1>13, <1>14, <1>15, Kept

(* An assignment: its value is on top. *)
LEMMA ValueTop ==
  ASSUME IInv, Top.op = "value"
  PROVE  /\ Top.val \in Refs /\ (Top.val # Null => ref_count[Top.val] > 0)
         /\ Stack(Rest, live, Settled) /\ Open(Rest, Settled)
         /\ \A a \in Addr :
              /\ Times(work, a) = Times(Rest, a) + Number(Top.val = a)
              /\ Times(Rest, a) \in Nat
              /\ PathHeld(work, a) <=> PathHeld(Rest, a)
              /\ \A op \in Kinds : Waits(work, op, a) <=> Waits(Rest, op, a)
         /\ WaitsStatic(work) <=> WaitsStatic(Rest)
<1>1. /\ Stack(Rest, live, Settled) /\ Open(Rest, Settled) /\ Top \in Frames
      /\ Top.val \in Refs /\ (Top.val # Null => ref_count[Top.val] > 0)
  BY RestFacts, ActFacts
<1>2. ASSUME NEW a \in Addr
      PROVE  /\ Times(work, a) = Times(Rest, a) + Number(Top.val = a)
             /\ Times(Rest, a) \in Nat
             /\ PathHeld(work, a) <=> PathHeld(Rest, a)
  <2>1. Holds(Top, a) <=> Top.val = a
    BY <1>1, WhatHolds
  <2> QED
    BY <2>1, RestCounts DEF Number
<1>3. ASSUME NEW a \in Addr, NEW op \in Kinds
      PROVE  Waits(work, op, a) <=> Waits(Rest, op, a)
  <2>1. Top.op # op
    BY DEF Kinds
  <2> QED
    BY <2>1, RestCounts
<1>4. WaitsStatic(work) <=> WaitsStatic(Rest)
  BY RestCounts
<1> QED
  BY <1>1, <1>2, <1>3, <1>4

(* The value is released at the end of the statement. *)
LEMMA ValueReleased ==
  ASSUME IInv, Top.op = "value", work' = Released(Rest, Top.val)
  PROVE  Stack(work', live, Settled) /\ Moved(work, work', Null)
<1>1. /\ Stack(work', live, Settled)
      /\ \A a \in Addr : /\ Times(work', a) = Times(Rest, a) + Number(Top.val = a)
                         /\ PathHeld(work', a) <=> PathHeld(Rest, a)
                         /\ \A op \in Kinds : Waits(work', op, a) <=> Waits(Rest, op, a)
      /\ WaitsStatic(work') <=> WaitsStatic(Rest)
  <2>1. Top.val \in Refs /\ Stack(Rest, live, Settled) /\ Open(Rest, Settled)
    BY ValueTop
  <2> QED
    BY <2>1, ReleasePushed
<1>2. \A a \in Addr : Number(Top.val = a) \in {0, 1}
  BY DEF Number
<1>3. \A a \in Addr : Times(work', a) = Times(work, a) + Number(Null = a)
  BY <1>1, <1>2, ValueTop, NullOwnsNothing
<1>4. /\ \A a \in Addr : PathHeld(work', a) <=> PathHeld(work, a)
      /\ \A a \in Addr : \A op \in Kinds : Waits(work', op, a) <=> Waits(work, op, a)
      /\ WaitsStatic(work') <=> WaitsStatic(work)
  BY <1>1, ValueTop
<1> QED
  BY <1>1, <1>3, <1>4 DEF Moved

LEMMA NothingPending ==
  ASSUME Careful, IInv
  PROVE  /\ MayAssign(PendingStatic) => ~WaitsStatic(work)
         /\ \A o \in Addr : MayAssign(Pending(o)) => ~Waits(work, "SET_PROPERTY", o)
<1>1. DOMAIN work = 1..Len(work) /\ program.habits = {}
  BY NoHabits DEF IInv, TypeOK
<1> QED
  BY <1>1 DEF MayAssign, Pending, PendingStatic, Waits, WaitsStatic

LEMMA AssignWeakKeeps ==
  ASSUME IInv, NEW o \in Addr, AssignWeak(o)
  PROVE  IInv'
<1> DEFINE v == Top.val
<1>1. /\ Top.op = "value" /\ o \in Objects /\ work' = Released(Rest, v)
      /\ at_slot[o] = Slot("weak", o)
      /\ weak_references' = Registered(o, v) /\ weak' = [weak EXCEPT ![o] = v]
      /\ UNCHANGED <<program, live, tag, ref_count, strong, at_slot, static,
                     active_destructors, freed_twice>>
  BY DEF AssignWeak, At, Released
<1>2. v \in Refs /\ (v # Null => v \in live) /\ o \in live
  BY <1>1, ActFacts DEF Objects
<1>3. Stack(work', live, Settled) /\ Moved(work, work', Null)
  BY <1>1, ValueReleased
<1> HIDE DEF v
<1>4. TypeOK /\ Counted /\ Dead /\ Tagged /\ Active /\ Stores /\ WeakSafe /\ FreedOnce
  BY DEF IInv
<1>5. ASSUME NEW a \in Addr
      PROVE  /\ Times(work', a) = Times(work, a) /\ Times(work, a) \in Nat
             /\ PathHeld(work', a) <=> PathHeld(work, a)
             /\ Waits(work', "SET_PROPERTY", a) <=> Waits(work, "SET_PROPERTY", a)
             /\ Waits(work', "after invoke_destructor", a)
                  <=> Waits(work, "after invoke_destructor", a)
             /\ Waits(work', "after object_destructor", a)
                  <=> Waits(work, "after object_destructor", a)
  <2>1. Times(work', a) = Times(work, a) + Number(Null = a) /\ Times(work, a) \in Nat
    BY <1>3, OwnerType DEF Moved
  <2>2. Times(work', a) = Times(work, a)
    BY <2>1, NullOwnsNothing
  <2> QED
    BY <1>3, <2>1, <2>2 DEF Moved, Kinds
<1>6. ASSUME NEW a \in Addr PROVE OwnerCount(a)' = OwnerCount(a) /\ PathClaim(a)' = PathClaim(a)
  <2>1. WaitsStatic(work') <=> WaitsStatic(work)
    BY <1>3 DEF Moved
  <2>2. OwnerCount(a)' = OwnerCount(a) + (Times(work', a) - Times(work, a))
    BY <1>1, <1>5, <2>1, OwnersMoved
  <2>3. OwnerCount(a) \in Nat
    BY OwnerType
  <2>4. OwnerCount(a)' = OwnerCount(a)
    <3>1. Times(work', a) = Times(work, a) /\ Times(work, a) \in Nat
      BY <1>5
    <3> QED
      BY <2>2, <2>3, <3>1
  <2>5. PathClaim(a)' = PathClaim(a)
    <3>1. PathHeld(work', a) <=> PathHeld(work, a)
      BY <1>5
    <3> QED
      BY <3>1 DEF PathClaim, Number
  <2> QED
    BY <2>4, <2>5
<1>7. Leaky' = Leaky /\ ref_count' = ref_count /\ live' = live /\ strong' = strong /\ tag' = tag
  BY <1>1 DEF Leaky
<1>8. Counted'
  <2>1. ASSUME NEW a \in Addr PROVE CountedAt(a)'
    <3>1. CountedAt(a)
      BY <1>4 DEF Counted
    <3> QED
      BY <1>6, <1>7, <3>1 DEF CountedAt
  <2> QED
    BY <2>1 DEF Counted
<1>9. Stack(work', live', Settled')
  <2>1. \A a \in Settled : a \in Settled'
    BY <1>6, <1>7 DEF Settled
  <2> QED
    BY <1>3, <1>7, <2>1, StackStays
<1>10. Dead' /\ Active' /\ Stores'
  <2>1. live \subseteq Addr /\ active_destructors \subseteq Addr
    BY <1>4 DEF TypeOK
  <2>2. Dead'
    BY <1>4, <1>5, <1>7, <2>1 DEF Dead
  <2>3. Active' /\ Stores'
    BY <1>1, <1>4, <1>5, <1>7, <2>1 DEF Active, Stores
  <2> QED
    BY <2>2, <2>3
<1>11. TypeOK'
  <2>1. weak' \in [Addr -> Refs] /\ weak_references' \in [Addr -> SUBSET Addr]
    BY <1>1, <1>2, <1>4 DEF TypeOK, Registered
  <2> QED
    BY <1>1, <1>4, <1>9, <2>1 DEF TypeOK, Stack, Framed
<1>12. WeakSafe'
  <2>1. ASSUME NEW h \in live, tag[h] = "OBJECT", weak'[h] # Null
        PROVE  /\ weak'[h] \in live /\ h \in weak_references'[weak'[h]]
               /\ at_slot'[h] = Slot("weak", h)
    <3>1. h \in Addr /\ live \subseteq Addr
      BY <1>4 DEF TypeOK
    <3>2. CASE h = o
      <4>1. weak'[h] = v
        BY <1>1, <1>4, <3>2 DEF TypeOK
      <4> QED
        BY <1>1, <1>2, <2>1, <3>1, <3>2, <4>1 DEF Registered
    <3>3. CASE h # o
      <4>1. weak'[h] = weak[h]
        BY <1>1, <1>4, <3>1, <3>3 DEF TypeOK
      <4>2. /\ weak[h] \in live /\ h \in weak_references[weak[h]]
            /\ at_slot[h] = Slot("weak", h)
        BY <1>4, <2>1, <4>1 DEF WeakSafe
      <4> QED
        BY <1>1, <3>1, <3>3, <4>1, <4>2 DEF Registered
    <3> QED
      BY <3>2, <3>3
  <2> QED
    BY <1>7, <2>1 DEF WeakSafe
<1>13. Tagged' /\ FreedOnce'
  BY <1>1, <1>4, <1>7 DEF Tagged, FreedOnce
<1> QED
  BY <1>8, <1>9, <1>10, <1>11, <1>12, <1>13 DEF IInv

LEMMA AssignStaticByNameKeeps ==
  ASSUME Careful, IInv, AssignStaticByName
  PROVE  IInv'
<1> DEFINE v == Top.val
<1>1. /\ Top.op = "value" /\ "by_name" \in program.targets /\ MayAssign(PendingStatic)
      /\ ref_count' = Retained(v) /\ static' = v /\ work' = Released(Rest, v)
      /\ UNCHANGED <<program, live, tag, strong, weaks, active_destructors, freed_twice>>
  BY DEF AssignStaticByName, At, Released
<1>2. v \in Refs /\ (v # Null => ref_count[v] > 0)
  BY <1>1, ValueTop
<1>3. Stack(work', live, Settled) /\ Moved(work, work', Null)
  BY <1>1, ValueReleased
<1>4. ~WaitsStatic(work) /\ ~WaitsStatic(work')
  BY <1>1, <1>3, NothingPending DEF Moved
<1> HIDE DEF v
<1>5. Leaky
  BY <1>1 DEF Leaky
<1>6. \A op \in Kinds, a \in Addr : Waits(work', op, a) <=> Waits(work, op, a)
  BY <1>3 DEF Moved
<1>7. ASSUME NEW a \in Addr
      PROVE  /\ OwnerCount(a)' \in Nat /\ OwnerCount(a)' <= OwnerCount(a) + Number(v = a)
             /\ PathClaim(a)' \in {0, 1} /\ PathClaim(a)' <= PathClaim(a)
  <2>1. Times(work', a) = Times(work, a)
    <3>1. Times(work', a) = Times(work, a) + Number(Null = a) /\ Times(work, a) \in Nat
      BY <1>3, OwnerType DEF Moved
    <3> QED
      BY <3>1, NullOwnsNothing
  <2>2. SlotSet(live', strong', work', a) = SlotSet(live, strong, work, a)
    BY <1>1, <1>6 DEF SlotSet, IInv, TypeOK, Kinds
  <2>3. StaticCount(static', work', a) = Number(v = a)
    BY <1>1, <1>4 DEF StaticCount, Number
  <2>4. Number(v = a) \in {0, 1}
    BY DEF Number
  <2>5. OwnerCount(a)' \in Nat /\ OwnerCount(a)' <= OwnerCount(a) + Number(v = a)
    BY <2>1, <2>2, <2>3, <2>4, OwnersAre
  <2>6. PathHeld(work', a) <=> PathHeld(work, a)
    BY <1>3 DEF Moved
  <2> QED
    BY <2>5, <2>6, PathClaimFalls
<1>8. UNCHANGED <<program, live>>
  BY <1>1
<1>9. /\ Counted' /\ \A a \in Settled : a \in Settled'
      /\ \A a \in Addr : ref_count'[a] = 0 => ref_count[a] = 0
      /\ ref_count' \in [Addr -> Nat]
  <2>1. ref_count' = Retained(v)
    BY <1>1
  <2> QED
    BY <1>2, <1>5, <1>7, <1>8, <2>1, Gained
<1>10. static' \in Refs
  BY <1>1, <1>2
<1> QED
  BY <1>1, <1>3, <1>6, <1>9, <1>10, QuietKeeps

LEMMA AssignStaticKeeps ==
  ASSUME Careful, IInv, AssignStatic
  PROVE  IInv'
<1> DEFINE v == Top.val
           f == SetGlobal(v)
           r == Released(Rest, v)
           u == Append(r, f)
<1>1. /\ Top.op = "value" /\ MayAssign(PendingStatic) /\ ref_count' = Retained(v)
      /\ work' = Rest \o Release(v) \o <<f>> \o Release(static)
      /\ UNCHANGED <<program, live, tag, strong, weaks, static, active_destructors,
                     freed_twice>>
  BY DEF AssignStatic, At
<1>2. v \in Refs /\ (v # Null => ref_count[v] > 0) /\ static \in Refs
  BY <1>1, ValueTop DEF IInv, TypeOK
<1>3. f \in Frames /\ f.op = "SET_GLOBAL" /\ f.val = v
  BY <1>2 DEF SetGlobal, Frames
<1>4. ~WaitsStatic(work) /\ ~WaitsStatic(Rest)
  BY <1>1, NothingPending, ValueTop
<1> HIDE DEF f
<1>5. /\ Stack(r, live, Settled) /\ Open(r, Settled)
      /\ \A a \in Addr : /\ Times(r, a) = Times(Rest, a) + Number(v = a)
                         /\ PathHeld(r, a) <=> PathHeld(Rest, a)
                         /\ \A op \in Kinds : Waits(r, op, a) <=> Waits(Rest, op, a)
      /\ WaitsStatic(r) <=> WaitsStatic(Rest)
  <2>1. Stack(Rest, live, Settled) /\ Open(Rest, Settled)
    BY <1>1, ValueTop
  <2> QED
    BY <1>2, <2>1, ReleasePushed
<1>6. work' = Released(u, static)
  <2>1. r \in Seq(Frames)
    BY <1>5 DEF Stack
  <2>2. r \o <<f>> = u
    BY <1>3, <2>1, AppendIsConcat
  <2> QED
    BY <1>1, <2>2 DEF Released
<1> HIDE DEF v, r
<1>7. Fits(r, live, Settled, f)
  <2>1. \A i \in 1..Len(r) : ~Same(r[i], f)
    BY <1>3, <1>4, <1>5 DEF Same, WaitsStatic
  <2> QED
    BY <1>3, <1>5, <2>1 DEF Fits, On, Open
<1>8. Stack(u, live, Settled) /\ Grows(r, u, f) /\ u[Len(u)] = f
  BY <1>3, <1>5, <1>7, Pushed
<1> HIDE DEF u
<1>9. Open(u, Settled)
  BY <1>3, <1>8 DEF Open
<1>10. /\ Stack(work', live, Settled)
       /\ \A a \in Addr : /\ Times(work', a) = Times(u, a) + Number(static = a)
                          /\ PathHeld(work', a) <=> PathHeld(u, a)
                          /\ \A op \in Kinds : Waits(work', op, a) <=> Waits(u, op, a)
       /\ WaitsStatic(work') <=> WaitsStatic(u)
  BY <1>2, <1>6, <1>8, <1>9, ReleasePushed
<1>11. /\ f.op \notin Kinds /\ f.op # "SET_PROPERTY"
       /\ \A a \in Addr : Holds(f, a) <=> v = a
  BY <1>3, WhatHolds DEF Kinds
<1>12. \A op \in Kinds, a \in Addr : Waits(work', op, a) <=> Waits(work, op, a)
  <2>1. \A op \in Kinds, a \in Addr : Waits(u, op, a) <=> Waits(r, op, a)
    BY <1>8, <1>11 DEF Grows
  <2> QED
    BY <1>1, <1>5, <1>10, <2>1, ValueTop
<1>13. WaitsStatic(work')
  BY <1>3, <1>8, <1>10 DEF Grows
<1>14. ASSUME NEW a \in Addr
       PROVE  /\ OwnerCount(a)' = OwnerCount(a) + Number(v = a) /\ OwnerCount(a)' \in Nat
              /\ PathClaim(a)' \in {0, 1} /\ PathClaim(a)' <= PathClaim(a)
  <2>1. Times(u, a) = Times(r, a) + Number(v = a) /\ (PathHeld(u, a) <=> PathHeld(r, a))
    BY <1>8, <1>11 DEF Grows, Number
  <2>2. /\ Times(work, a) = Times(Rest, a) + Number(v = a) /\ Times(Rest, a) \in Nat
        /\ PathHeld(work, a) <=> PathHeld(Rest, a)
    BY <1>1, ValueTop DEF v
  <2>3. Number(v = a) \in {0, 1} /\ Number(static = a) \in {0, 1}
    BY DEF Number
  <2>4. Times(work', a) = Times(work, a) + Number(v = a) + Number(static = a)
    BY <1>5, <1>10, <2>1, <2>2, <2>3
  <2>5. SlotSet(live', strong', work', a) = SlotSet(live, strong, work, a)
    BY <1>1, <1>12 DEF SlotSet, IInv, TypeOK, Kinds
  <2>6. StaticCount(static', work', a) = 0 /\ StaticCount(static, work, a) = Number(static = a)
    BY <1>4, <1>13 DEF StaticCount, Number
  <2>7. OwnerCount(a)' = OwnerCount(a) + Number(v = a) /\ OwnerCount(a)' \in Nat
    BY <2>3, <2>4, <2>5, <2>6, OwnersAre
  <2> QED
    BY <1>5, <1>10, <2>1, <2>2, <2>7, PathClaimFalls
<1>15. UNCHANGED <<program, live>> /\ ref_count' = Retained(v)
  BY <1>1
<1>16. /\ Counted' /\ \A a \in Settled : a \in Settled'
       /\ \A a \in Addr : ref_count'[a] = 0 => ref_count[a] = 0
       /\ ref_count' \in [Addr -> Nat]
  <2>1. \A a \in Addr : OwnerCount(a)' <= OwnerCount(a) + Number(v = a)
    BY <1>14
  <2> QED
    BY <1>2, <1>14, <1>15, <2>1, Gained
<1>17. static' \in Refs
  BY <1>1, <1>2
<1> QED
  BY <1>1, <1>10, <1>12, <1>16, <1>17, QuietKeeps

(* SET_ARRAY. *)
LEMMA AssignElementKeeps ==
  ASSUME IInv, NEW o \in Addr, AssignElement(o)
  PROVE  IInv'
<1> DEFINE v == Top.val
           x == strong[o]
           r == Released(Rest, v)
<1>1. /\ Top.op = "value" /\ o \in Arrays /\ ref_count' = Retained(v)
      /\ strong' = [strong EXCEPT ![o] = v] /\ work' = Released(r, x)
      /\ UNCHANGED <<program, live, tag, weaks, static, active_destructors, freed_twice>>
  BY DEF AssignElement, At, Released
<1>2. /\ TypeOK /\ Dead /\ Active /\ Stores /\ IsFiniteSet(live)
      /\ live \subseteq Addr /\ active_destructors \subseteq Addr
  BY DEF IInv, TypeOK, Tagged
<1>3. v \in Refs /\ (v # Null => ref_count[v] > 0) /\ x \in Refs /\ o \in live /\ ref_count[o] > 0
  <2>1. o \in Bases
    BY <1>1 DEF Arrays
  <2> QED
    BY <1>1, <1>2, <2>1, ValueTop, ActFacts DEF TypeOK
<1>4. ~Waits(work, "SET_PROPERTY", o)
  <2>1. tag[o] # "OBJECT"
    BY <1>1 DEF Arrays
  <2> QED
    BY <1>2, <2>1 DEF Stores
<1>5. /\ Stack(r, live, Settled) /\ Open(r, Settled)
      /\ \A a \in Addr : /\ Times(r, a) = Times(Rest, a) + Number(v = a)
                         /\ PathHeld(r, a) <=> PathHeld(Rest, a)
                         /\ \A op \in Kinds : Waits(r, op, a) <=> Waits(Rest, op, a)
      /\ WaitsStatic(r) <=> WaitsStatic(Rest)
  <2>1. Stack(Rest, live, Settled) /\ Open(Rest, Settled)
    BY <1>1, ValueTop
  <2> QED
    BY <1>3, <2>1, ReleasePushed
<1> HIDE DEF r, v, x
<1>6. /\ Stack(work', live, Settled)
      /\ \A a \in Addr : /\ Times(work', a) = Times(r, a) + Number(x = a)
                         /\ PathHeld(work', a) <=> PathHeld(r, a)
                         /\ \A op \in Kinds : Waits(work', op, a) <=> Waits(r, op, a)
      /\ WaitsStatic(work') <=> WaitsStatic(r)
  BY <1>1, <1>3, <1>5, ReleasePushed
<1>7. ASSUME NEW a \in Addr
      PROVE  /\ Waits(work', "SET_PROPERTY", a) <=> Waits(work, "SET_PROPERTY", a)
             /\ Waits(work', "after invoke_destructor", a)
                  <=> Waits(work, "after invoke_destructor", a)
             /\ Waits(work', "after object_destructor", a)
                  <=> Waits(work, "after object_destructor", a)
  <2>1. \A op \in Kinds : Waits(work', op, a) <=> Waits(work, op, a)
    BY <1>1, <1>5, <1>6, ValueTop
  <2> QED
    BY <2>1 DEF Kinds
<1>8. /\ strong' \in [Addr -> Refs] /\ strong'[o] = v
      /\ \A a \in Addr : a # o => strong'[a] = strong[a]
  BY <1>1, <1>2, <1>3 DEF TypeOK
<1>9. ASSUME NEW a \in Addr
      PROVE  /\ OwnerCount(a)' = OwnerCount(a) + Number(v = a) /\ OwnerCount(a)' \in Nat
             /\ PathClaim(a)' \in {0, 1} /\ PathClaim(a)' <= PathClaim(a)
  <2>1. Number(v = a) \in {0, 1} /\ Number(x = a) \in {0, 1}
    BY DEF Number
  <2>2. Times(work, a) = Times(Rest, a) + Number(v = a) /\ Times(Rest, a) \in Nat
    BY <1>1, ValueTop DEF v
  <2>3. Times(work', a) = Times(work, a) + Number(x = a)
    BY <1>5, <1>6, <2>1, <2>2
  <2>4. Cardinality(SlotSet(live, strong', work', a))
          + Number(strong[o] = a /\ ~Waits(work, "SET_PROPERTY", o))
        = Cardinality(SlotSet(live, strong, work, a))
          + Number(strong'[o] = a /\ ~Waits(work', "SET_PROPERTY", o))
    <3>1. \A g \in live \ {o} :
            /\ strong[g] = strong'[g]
            /\ Waits(work, "SET_PROPERTY", g) <=> Waits(work', "SET_PROPERTY", g)
      BY <1>2, <1>7, <1>8
    <3> QED
      BY <1>2, <1>3, <3>1, SlotMoved
  <2>5. /\ Number(strong[o] = a /\ ~Waits(work, "SET_PROPERTY", o)) = Number(x = a)
        /\ Number(strong'[o] = a /\ ~Waits(work', "SET_PROPERTY", o)) = Number(v = a)
    BY <1>4, <1>7, <1>8 DEF Number, x
  <2>6. Cardinality(SlotSet(live', strong', work', a)) \in Nat /\ live' = live
    BY <1>1, <1>2, SlotsFinite
  <2>7. StaticCount(static', work', a) = StaticCount(static, work, a)
    BY <1>1, <1>5, <1>6, ValueTop DEF StaticCount
  <2>8. OwnerCount(a)' = OwnerCount(a) + Number(v = a) /\ OwnerCount(a)' \in Nat
    BY <2>1, <2>3, <2>4, <2>5, <2>6, <2>7, OwnersAre
  <2> QED
    BY <1>1, <1>5, <1>6, <2>8, ValueTop, PathClaimFalls
<1>10. UNCHANGED <<program, live>> /\ ref_count' = Retained(v)
  BY <1>1
<1>11. /\ Counted' /\ \A a \in Settled : a \in Settled'
       /\ \A a \in Addr : ref_count'[a] = 0 => ref_count[a] = 0
       /\ ref_count' \in [Addr -> Nat]
  <2>1. \A a \in Addr : OwnerCount(a)' <= OwnerCount(a) + Number(v = a)
    BY <1>9
  <2> QED
    BY <1>3, <1>9, <1>10, <2>1, Gained
<1>12. Stack(work', live, Settled')
  BY <1>6, <1>11, StackStays
<1>13. Dead'
  <2>1. ASSUME NEW a \in live, ref_count'[a] = 0
        PROVE  strong'[a] = Null /\ Waits(work', "after object_destructor", a)
    <3>1. a \in Addr /\ ref_count[a] = 0
      BY <1>2, <1>11, <2>1
    <3>2. a # o
      BY <1>3, <3>1
    <3>3. strong[a] = Null /\ Waits(work, "after object_destructor", a)
      BY <1>2, <3>1 DEF Dead
    <3> QED
      BY <1>7, <1>8, <3>1, <3>2, <3>3
  <2> QED
    BY <1>1, <2>1 DEF Dead
<1>14. Active' /\ Stores'
  BY <1>1, <1>2, <1>7 DEF Active, Stores
<1>15. static' \in Refs /\ active_destructors' \subseteq Addr
  BY <1>1, <1>2 DEF TypeOK
<1> QED
  BY <1>1, <1>8, <1>11, <1>12, <1>13, <1>14, <1>15, Kept

(* What an assignment to a field of o does to the stack and to the owners. *)
Storing(o, v) ==
  /\ Top.op = "value" /\ v = Top.val /\ o \in live /\ tag[o] = "OBJECT"
  /\ ~Waits(work, "SET_PROPERTY", o)
  /\ work' = Stored(Rest, o, v, strong[o])
  /\ UNCHANGED <<program, live, tag, strong, weaks, static, active_destructors, freed_twice>>

StoringOutcome(o, v) ==
  /\ v \in Refs /\ (v # Null => ref_count[v] > 0) /\ Stack(work', live, Settled)
  /\ \A a \in Addr :
       /\ OwnerCount(a)' = OwnerCount(a) + Number(v = a) /\ OwnerCount(a)' \in Nat
       /\ PathHeld(work', a) <=>
            PathHeld(work, a) \/ (a = o /\ Times(Rest, a) + Number(v = a) = 0)
       /\ Waits(work', "SET_PROPERTY", a) <=> Waits(work, "SET_PROPERTY", a) \/ a = o
       /\ Waits(work', "after invoke_destructor", a)
            <=> Waits(work, "after invoke_destructor", a)
       /\ Waits(work', "after object_destructor", a)
            <=> Waits(work, "after object_destructor", a)

LEMMA StoringFacts ==
  ASSUME IInv, NEW o \in Addr, NEW v, Storing(o, v)
  PROVE  StoringOutcome(o, v)
<1> DEFINE x == strong[o]
<1>1. /\ Top.op = "value" /\ v = Top.val /\ o \in live /\ ~Waits(work, "SET_PROPERTY", o)
      /\ work' = Stored(Rest, o, v, x) /\ UNCHANGED <<live, strong, static>>
  BY DEF Storing
<1>2. IsFiniteSet(live) /\ live \subseteq Addr /\ strong \in [Addr -> Refs]
  BY DEF IInv, TypeOK, Tagged
<1>3. v \in Refs /\ (v # Null => ref_count[v] > 0) /\ x \in Refs
  BY <1>1, <1>2, ValueTop
<1>4. MayStore(Rest, live, Settled, o)
  <2>1. ~Waits(Rest, "SET_PROPERTY", o)
    BY <1>1, RestWaits
  <2> QED
    BY <1>1, <2>1, ValueTop DEF MayStore
<1> HIDE DEF x
<1>5. /\ Stack(work', live, Settled)
      /\ \A a \in Addr :
           /\ Times(work', a) = Times(Rest, a) + Number(v = a) + Number(v = a) + Number(x = a)
           /\ PathHeld(work', a) <=>
                PathHeld(Rest, a) \/ (a = o /\ Times(Rest, a) + Number(v = a) = 0)
           /\ \A op \in Kinds :
                Waits(work', op, a) <=> Waits(Rest, op, a) \/ (op = "SET_PROPERTY" /\ a = o)
      /\ WaitsStatic(work') <=> WaitsStatic(Rest)
  BY <1>1, <1>3, <1>4, StorePushed
<1>6. ASSUME NEW a \in Addr
      PROVE  /\ Waits(work', "SET_PROPERTY", a) <=> Waits(work, "SET_PROPERTY", a) \/ a = o
             /\ Waits(work', "after invoke_destructor", a)
                  <=> Waits(work, "after invoke_destructor", a)
             /\ Waits(work', "after object_destructor", a)
                  <=> Waits(work, "after object_destructor", a)
  <2>1. \A op \in Kinds :
          Waits(work', op, a) <=> Waits(Rest, op, a) \/ (op = "SET_PROPERTY" /\ a = o)
    BY <1>5
  <2>2. /\ Waits(work', "SET_PROPERTY", a) <=> Waits(Rest, "SET_PROPERTY", a) \/ a = o
        /\ Waits(work', "after invoke_destructor", a)
             <=> Waits(Rest, "after invoke_destructor", a)
        /\ Waits(work', "after object_destructor", a)
             <=> Waits(Rest, "after object_destructor", a)
    BY <2>1 DEF Kinds
  <2> QED
    BY <1>1, <2>2, RestWaits
<1>7. ASSUME NEW a \in Addr
      PROVE  OwnerCount(a)' = OwnerCount(a) + Number(v = a) /\ OwnerCount(a)' \in Nat
  <2>1. Number(v = a) \in {0, 1} /\ Number(x = a) \in {0, 1}
    BY DEF Number
  <2>2. Times(work, a) = Times(Rest, a) + Number(v = a) /\ Times(Rest, a) \in Nat
    BY <1>1, ValueTop
  <2>3. Times(work', a) = Times(work, a) + Number(v = a) + Number(x = a)
    BY <1>5, <2>1, <2>2
  <2>4. Cardinality(SlotSet(live, strong', work', a))
          + Number(strong[o] = a /\ ~Waits(work, "SET_PROPERTY", o))
        = Cardinality(SlotSet(live, strong, work, a))
          + Number(strong'[o] = a /\ ~Waits(work', "SET_PROPERTY", o))
    <3>1. \A g \in live \ {o} :
            /\ strong[g] = strong'[g]
            /\ Waits(work, "SET_PROPERTY", g) <=> Waits(work', "SET_PROPERTY", g)
      BY <1>1, <1>2, <1>6
    <3> QED
      BY <1>1, <1>2, <3>1, SlotMoved
  <2>5. /\ Number(strong[o] = a /\ ~Waits(work, "SET_PROPERTY", o)) = Number(x = a)
        /\ Number(strong'[o] = a /\ ~Waits(work', "SET_PROPERTY", o)) = 0
    BY <1>1, <1>6 DEF Number, x
  <2>6. Cardinality(SlotSet(live', strong', work', a)) \in Nat /\ live' = live
    BY <1>1, <1>2, SlotsFinite
  <2>7. StaticCount(static', work', a) = StaticCount(static, work, a)
    BY <1>1, <1>5, ValueTop DEF StaticCount
  <2> QED
    BY <2>1, <2>3, <2>4, <2>5, <2>6, <2>7, OwnersAre
<1>8. ASSUME NEW a \in Addr
      PROVE  PathHeld(work', a) <=>
               PathHeld(work, a) \/ (a = o /\ Times(Rest, a) + Number(v = a) = 0)
  BY <1>1, <1>5, ValueTop
<1> QED
  BY <1>3, <1>5, <1>6, <1>7, <1>8 DEF StoringOutcome

(* The rest of the invariant. *)
LEMMA StoringKeeps ==
  ASSUME IInv, NEW o \in Addr, NEW v, Storing(o, v),
         Counted', \A a \in Settled : a \in Settled',
         \A a \in Addr : ref_count'[a] = 0 => ref_count[a] = 0,
         ref_count' \in [Addr -> Nat]
  PROVE  IInv'
<1>0. StoringOutcome(o, v)
  BY StoringFacts
<1>1. /\ UNCHANGED <<program, live, tag, strong, weaks, static, active_destructors,
                     freed_twice>>
      /\ tag[o] = "OBJECT"
  BY DEF Storing
<1>2. /\ TypeOK /\ Dead /\ Active
      /\ Stores /\ live \subseteq Addr /\ active_destructors \subseteq Addr
  BY DEF IInv, TypeOK
<1>3. Stack(work', live, Settled')
  BY <1>0, StackStays DEF StoringOutcome
<1>4. Dead'
  <2>1. ASSUME NEW a \in live, ref_count'[a] = 0
        PROVE  strong[a] = Null /\ Waits(work', "after object_destructor", a)
    <3>1. a \in Addr /\ ref_count[a] = 0
      BY <1>2, <2>1
    <3>2. strong[a] = Null /\ Waits(work, "after object_destructor", a)
      BY <1>2, <3>1 DEF Dead
    <3> QED
      BY <1>0, <3>1, <3>2 DEF StoringOutcome
  <2> QED
    BY <1>1, <2>1 DEF Dead
<1>5. Active'
  <2>1. \A a \in active_destructors : Waits(work', "after invoke_destructor", a)
    BY <1>0, <1>2 DEF Active, StoringOutcome
  <2> QED
    BY <1>1, <2>1 DEF Active
<1>6. Stores'
  <2>1. \A h \in Addr : Waits(work', "SET_PROPERTY", h) => tag[h] = "OBJECT"
    <3>1. ASSUME NEW h \in Addr, Waits(work', "SET_PROPERTY", h) PROVE tag[h] = "OBJECT"
      <4>1. Waits(work, "SET_PROPERTY", h) \/ h = o
        BY <1>0, <3>1 DEF StoringOutcome
      <4> QED
        BY <1>1, <1>2, <4>1 DEF Stores
    <3> QED
      BY <3>1
  <2> QED
    BY <1>1, <2>1 DEF Stores
<1>7. static' \in Refs /\ strong' \in [Addr -> Refs] /\ active_destructors' \subseteq Addr
  BY <1>1, <1>2 DEF TypeOK
<1> QED
  BY <1>1, <1>3, <1>4, <1>5, <1>6, <1>7, Kept

LEMMA AssignFieldKeeps ==
  ASSUME Careful, IInv, NEW o \in Addr, AssignField(o)
  PROVE  IInv'
<1>0. PICK v : v = Top.val
  OBVIOUS
<1>1. /\ Top.op = "value" /\ o \in Objects /\ MayAssign(Pending(o)) /\ ref_count' = Retained(v)
      /\ work' = Stored(Rest, o, v, strong[o])
      /\ UNCHANGED <<program, live, tag, strong, weaks, static, active_destructors,
                     freed_twice>>
  BY <1>0 DEF AssignField, At, StoreAfterRelease, Stored
<1>2. o \in live /\ tag[o] = "OBJECT" /\ Times(Rest, o) > 0
  BY <1>1, ActFacts DEF Objects
<1>3. Storing(o, v)
  BY <1>0, <1>1, <1>2, NothingPending DEF Storing
<1>r. StoringOutcome(o, v)
  BY <1>3, StoringFacts
<1>s. /\ \A a \in Addr : OwnerCount(a)' = OwnerCount(a) + Number(v = a) /\ OwnerCount(a)' \in Nat
      /\ \A a \in Addr : PathHeld(work', a) <=>
           PathHeld(work, a) \/ (a = o /\ Times(Rest, a) + Number(v = a) = 0)
  BY <1>r DEF StoringOutcome
<1>4. ASSUME NEW a \in Addr PROVE PathHeld(work', a) => PathHeld(work, a)
  <2>1. Times(Rest, a) \in Nat
    BY <1>1, ValueTop
  <2>2. Number(v = a) \in {0, 1}
    BY DEF Number
  <2>3. PathHeld(work', a) =>
          PathHeld(work, a) \/ (a = o /\ Times(Rest, a) + Number(v = a) = 0)
    BY <1>s
  <2> QED
    BY <1>2, <2>1, <2>2, <2>3
<1>5. /\ Counted' /\ \A a \in Settled : a \in Settled'
      /\ \A a \in Addr : ref_count'[a] = 0 => ref_count[a] = 0
      /\ ref_count' \in [Addr -> Nat]
  <2>1. UNCHANGED <<program, live>> /\ ref_count' = Retained(v)
    BY <1>1
  <2>2. v \in Refs /\ (v # Null => ref_count[v] > 0)
    BY <1>r DEF StoringOutcome
  <2>3. ASSUME NEW a \in Addr
        PROVE  /\ OwnerCount(a)' \in Nat /\ OwnerCount(a)' = OwnerCount(a) + Number(v = a)
               /\ OwnerCount(a)' <= OwnerCount(a) + Number(v = a)
               /\ PathClaim(a)' \in {0, 1} /\ PathClaim(a)' <= PathClaim(a)
    <3>1. OwnerCount(a)' \in Nat /\ OwnerCount(a)' = OwnerCount(a) + Number(v = a)
      BY <1>s
    <3>2. OwnerCount(a) \in Nat /\ Number(v = a) \in {0, 1}
      BY OwnerType DEF Number
    <3> QED
      BY <1>4, <3>1, <3>2, PathClaimFalls
  <2> QED
    BY <2>1, <2>2, <2>3, Gained
<1> QED
  BY <1>3, <1>5, StoringKeeps

LEMMA AssignThroughPathKeeps ==
  ASSUME Careful, IInv, NEW o \in Addr, AssignThroughPath(o)
  PROVE  IInv'
<1>0. PICK v : v = Top.val
  OBVIOUS
<1>1. /\ Top.op = "value" /\ "path" \in program.targets /\ MayAssign(Pending(o))
      /\ tag[o] = "OBJECT"
      /\ ref_count' = [a \in Addr |-> ref_count[a] + (IF a = v THEN 1 ELSE 0)
                                                   + (IF a = o THEN 1 ELSE 0)]
      /\ work' = Stored(Rest, o, v, strong[o])
      /\ UNCHANGED <<program, live, tag, strong, weaks, static, active_destructors,
                     freed_twice>>
  BY <1>0 DEF AssignThroughPath, At, StoreAfterRelease, Stored
<1>2. o \in live /\ ~Waits(work, "SET_PROPERTY", o)
  BY <1>1, NothingPending DEF IInv, Tagged
<1>3. Storing(o, v)
  BY <1>0, <1>1, <1>2 DEF Storing
<1>r. StoringOutcome(o, v)
  BY <1>3, StoringFacts
<1>s. /\ \A a \in Addr : OwnerCount(a)' = OwnerCount(a) + Number(v = a) /\ OwnerCount(a)' \in Nat
      /\ \A a \in Addr : PathHeld(work', a) <=>
           PathHeld(work, a) \/ (a = o /\ Times(Rest, a) + Number(v = a) = 0)
  BY <1>r DEF StoringOutcome
<1>4. Leaky /\ Leaky'
  BY <1>1 DEF Leaky
<1>5. ~PathHeld(work, o)
  BY <1>2 DEF PathHeld, Waits
<1>6. ASSUME NEW a \in Addr
      PROVE  /\ ref_count'[a] = ref_count[a] + Number(v = a) + Number(o = a)
             /\ ref_count[a] \in Nat /\ Number(v = a) \in {0, 1} /\ Number(o = a) \in {0, 1}
             /\ OwnerCount(a)' = OwnerCount(a) + Number(v = a)
             /\ OwnerCount(a)' \in Nat /\ OwnerCount(a) \in Nat
             /\ PathClaim(a)' \in {0, 1} /\ PathClaim(a) \in {0, 1}
             /\ PathClaim(a)' <= PathClaim(a) + Number(o = a)
             /\ Number(v = a) = 1 => ref_count[a] > 0
             /\ Number(o = a) = 1 => a \in live
  <2>1. ref_count'[a] = ref_count[a] + Number(v = a) + Number(o = a)
    BY <1>1 DEF Number
  <2>2. ref_count[a] \in Nat /\ Number(v = a) \in {0, 1} /\ Number(o = a) \in {0, 1}
    BY OwnerType DEF Number
  <2>3. /\ OwnerCount(a)' = OwnerCount(a) + Number(v = a)
        /\ OwnerCount(a)' \in Nat /\ OwnerCount(a) \in Nat
    <3>1. OwnerCount(a)' = OwnerCount(a) + Number(v = a) /\ OwnerCount(a)' \in Nat
      BY <1>s
    <3> QED
      BY <3>1, OwnerType
  <2>4. PathHeld(work', a) => PathHeld(work, a) \/ a = o
    BY <1>r DEF StoringOutcome
  <2>5. PathClaim(a)' = Number(PathHeld(work', a)) /\ PathClaim(a) = Number(PathHeld(work, a))
    BY DEF PathClaim
  <2>6. Number(v = a) = 1 => ref_count[a] > 0
    <3>1. v = a => v # Null
      BY NullAssumption
    <3>2. v # Null => ref_count[v] > 0
      BY <1>r DEF StoringOutcome
    <3> QED
      BY <3>1, <3>2 DEF Number
  <2> QED
    BY <1>2, <2>1, <2>2, <2>3, <2>4, <2>5, <2>6 DEF Number
<1>7. Counted'
  <2>1. ASSUME NEW a \in Addr PROVE CountedAt(a)'
    <3>1. CountedAt(a) /\ (a \in live' <=> a \in live)
      BY <1>1 DEF IInv, Counted
    <3>2. CASE a \in live
      BY <1>4, <1>6, <3>1, <3>2 DEF CountedAt
    <3>3. CASE a \notin live
      BY <1>6, <3>1, <3>3 DEF CountedAt
    <3> QED
      BY <3>2, <3>3
  <2> QED
    BY <2>1 DEF Counted
<1>8. ASSUME NEW a \in Settled PROVE a \in Settled'
  <2>1. a \in Addr /\ (ref_count[a] = 0 \/ OwnerCount(a) < ref_count[a])
    BY DEF Settled
  <2>2. ref_count'[a] = 0 \/ OwnerCount(a)' < ref_count'[a]
    <3>1. ref_count[a] = 0 => OwnerCount(a) = 0
      BY <2>1, OwnerType DEF IInv, Counted, CountedAt
    <3> QED
      BY <1>6, <2>1, <3>1
  <2> QED
    BY <2>1, <2>2 DEF Settled
<1>9. (\A a \in Addr : ref_count'[a] = 0 => ref_count[a] = 0) /\ ref_count' \in [Addr -> Nat]
  <2>1. ref_count \in [Addr -> Nat]
    BY DEF IInv, TypeOK
  <2> QED
    BY <1>1, <2>1
<1> QED
  BY <1>3, <1>7, <1>8, <1>9, StoringKeeps

-----------------------------------------------------------------------------
(* Destructors. *)

LEMMA WaitingHolds ==
  ASSUME NEW s \in Seq(Frames), NEW a \in Addr
  PROVE  /\ Waits(s, "after invoke_destructor", a) => Times(s, a) # 0
         /\ Waits(s, "SET_PROPERTY", a) /\ Times(s, a) = 0 => PathHeld(s, a)
<1>1. Len(s) \in Nat
  BY LenProperties
<1>2. ASSUME Waits(s, "after invoke_destructor", a) PROVE Times(s, a) # 0
  <2>1. PICK i \in 1..Len(s) : s[i].op = "after invoke_destructor" /\ s[i].obj = a
    BY <1>2 DEF Waits
  <2>2. s[i] \in Frames
    BY ElementOfSeq
  <2>3. Holds(s[i], a)
    BY <2>1, <2>2, WhatHolds
  <2> QED
    BY <2>3, TimesFinite
<1>3. ASSUME Waits(s, "SET_PROPERTY", a), Times(s, a) = 0 PROVE PathHeld(s, a)
  <2>1. PICK i \in 1..Len(s) : s[i].op = "SET_PROPERTY" /\ s[i].obj = a
    BY <1>3 DEF Waits
  <2>2. \A k \in 1..(i - 1) : k \in 1..Len(s)
    BY <1>1
  <2>3. \A k \in 1..(i - 1) : ~Holds(s[k], a)
    BY <1>3, <2>2, TimesFinite
  <2> QED
    BY <2>1, <2>3 DEF PathHeld
<1> QED
  BY <1>2, <1>3

(* The last reference to a block is being released: nothing else of it is on
   the stack. *)
LastHeld(x) ==
  /\ Top.op \in {"decrease_reference", "after invoke_destructor"}
  /\ x = Top.obj /\ ref_count[x] = 1

LEMMA LastOwner ==
  ASSUME IInv, NEW x, LastHeld(x)
  PROVE  /\ x \in Addr /\ x \in live /\ Times(Rest, x) = 0 /\ OwnerCount(x) = 1
         /\ ~Waits(work, "SET_PROPERTY", x) /\ ~Waits(Rest, "after invoke_destructor", x)
         /\ Top.op = "decrease_reference" => ~Waits(Rest, "after object_destructor", x)
         /\ \A a \in Addr : Holds(Top, a) <=> x = a
<1>t. Top.op \in {"decrease_reference", "after invoke_destructor"} /\ x = Top.obj
  BY DEF LastHeld
<1>c. ref_count[x] = 1
  BY DEF LastHeld
<1>1. Stack(Rest, live, Settled) /\ Top \in Frames
  BY <1>t, RestFacts
<1>a. Rest \in Seq(Frames) /\ Len(Rest) \in Nat
  BY <1>1 DEF Stack
<1>2. x \in Addr /\ \A a \in Addr : Holds(Top, a) <=> x = a
  <2>1. x \in Addr
    BY <1>t, <1>1, FrameFields DEF Kinds
  <2> QED
    BY <1>t, <1>1, <2>1, WhatHolds
<1>3. Times(work, x) = Times(Rest, x) + 1 /\ Times(Rest, x) \in Nat
  BY <1>t, <1>2, RestCounts DEF Number
<1>4. /\ x \in live /\ OwnerCount(x) = 1 /\ Times(Rest, x) = 0 /\ PathClaim(x) = 0
  <2>1. x \in live
    BY <1>2, TopHeld
  <2>2. OwnerCount(x) \in Nat /\ PathClaim(x) \in {0, 1} /\ Times(work, x) <= OwnerCount(x)
    BY <1>2, OwnerType
  <2>3. CountedAt(x)
    BY <1>2 DEF IInv, Counted
  <2>4. OwnerCount(x) + PathClaim(x) <= 1
    BY <1>c, <2>1, <2>3 DEF CountedAt
  <2>5. Times(work, x) \in Nat /\ Times(work, x) >= 1
    BY <1>3
  <2>6. OwnerCount(x) = 1 /\ PathClaim(x) = 0 /\ Times(work, x) = 1
    BY <2>2, <2>4, <2>5
  <2> QED
    BY <1>3, <2>1, <2>6
<1>5. ~Waits(Rest, "after invoke_destructor", x)
  BY <1>a, <1>2, <1>4, WaitingHolds
<1>6. ~Waits(work, "SET_PROPERTY", x)
  <2>1. ASSUME Waits(Rest, "SET_PROPERTY", x) PROVE FALSE
    <3>1. PathHeld(Rest, x)
      BY <1>a, <1>2, <1>4, <2>1, WaitingHolds
    <3>2. PathHeld(work, x)
      BY <1>t, <1>2, <3>1, RestCounts
    <3>3. PathClaim(x) = 1
      BY <3>2 DEF PathClaim, Number
    <3> QED
      BY <1>4, <3>3
  <2> QED
    BY <1>t, <1>2, <2>1, RestWaits
<1>7. ASSUME Top.op = "decrease_reference", Waits(Rest, "after object_destructor", x)
      PROVE  FALSE
  <2>1. PICK i \in 1..Len(Rest) : Rest[i].op = "after object_destructor" /\ Rest[i].obj = x
    BY <1>7 DEF Waits
  <2>2. x \notin Settled
    <3>1. OwnerCount(x) = 1 /\ ref_count[x] = 1
      BY <1>c, <1>4
    <3> QED
      BY <3>1 DEF Settled
  <2>3. i # Len(Rest)
    <3>1. Open(Rest, Settled)
      BY <1>7, RestFacts
    <3> QED
      BY <2>1, <2>2, <3>1 DEF Open
  <2>4. Rest[i + 1].op = "after invoke_destructor"
    <3>1. Checks(Rest, live, Settled)
      BY <1>1 DEF Stack
    <3> QED
      BY <2>1, <2>2, <2>3, <3>1 DEF Checks
  <2>5. i \in 1..(Len(Rest) - 1) /\ i + 1 \in 1..Len(Rest)
    BY <1>a, <2>3
  <2>6. Rest[i + 1].obj = x
    <3>1. On(Rest[i], Rest[i + 1])
      BY <1>1, <2>5 DEF Stack, Framed
    <3> QED
      BY <2>1, <2>4, <3>1 DEF On
  <2> QED
    BY <1>5, <2>4, <2>5, <2>6 DEF Waits
<1> QED
  BY <1>2, <1>4, <1>5, <1>6, <1>7

LEMMA ThreePushed ==
  ASSUME NEW r \in Seq(Frames), NEW f \in Frames, NEW g \in Frames, NEW h \in Frames
  PROVE  r \o <<f, g, h>> = Append(Append(Append(r, f), g), h)
<1> DEFINE t == <<f, g, h>>
           a == Append(r, f)
           b == Append(a, g)
           c == Append(b, h)
<1>1. PICK n \in Nat : n = Len(r)
  BY LenProperties
<1>2. t \in Seq(Frames) /\ Len(t) = 3 /\ t[1] = f /\ t[2] = g /\ t[3] = h
  OBVIOUS
<1>3. a \in Seq(Frames) /\ Len(a) = n + 1 /\ a[n + 1] = f /\ \A i \in 1..n : a[i] = r[i]
  BY <1>1, AppendProperties
<1> HIDE DEF a, t
<1>4. b \in Seq(Frames) /\ Len(b) = n + 2 /\ b[n + 2] = g /\ \A i \in 1..(n + 1) : b[i] = a[i]
  BY <1>3, AppendProperties
<1> HIDE DEF b
<1>5. c \in Seq(Frames) /\ Len(c) = n + 3 /\ c[n + 3] = h /\ \A i \in 1..(n + 2) : c[i] = b[i]
  BY <1>4, AppendProperties
<1> HIDE DEF c
<1>6. /\ r \o t \in Seq(Frames) /\ Len(r \o t) = n + 3
      /\ \A i \in 1..(n + 3) : (r \o t)[i] = IF i <= n THEN r[i] ELSE t[i - n]
  <2>1. Len(r) + Len(t) = n + 3 /\ Len(r) = n /\ t \in Seq(Frames)
    BY <1>1, <1>2
  <2>2. /\ r \o t \in Seq(Frames) /\ Len(r \o t) = Len(r) + Len(t)
        /\ \A i \in 1..(Len(r) + Len(t)) :
             (r \o t)[i] = IF i <= Len(r) THEN r[i] ELSE t[i - Len(r)]
    BY <2>1, ConcatProperties
  <2> QED
    BY <2>1, <2>2
<1>7. ASSUME NEW i \in 1..(n + 3) PROVE (r \o t)[i] = c[i]
  <2>1. CASE i \in 1..n
    <3>1. i \in 1..(n + 1) /\ i \in 1..(n + 2) /\ i <= n
      BY <2>1
    <3> QED
      BY <1>3, <1>4, <1>5, <1>6, <2>1, <3>1
  <2>2. CASE i = n + 1
    <3>1. i \in 1..(n + 1) /\ i \in 1..(n + 2) /\ ~(i <= n) /\ i - n = 1
      BY <2>2
    <3> QED
      BY <1>2, <1>3, <1>4, <1>5, <1>6, <2>2, <3>1
  <2>3. CASE i = n + 2
    <3>1. i \in 1..(n + 2) /\ ~(i <= n) /\ i - n = 2
      BY <2>3
    <3> QED
      BY <1>2, <1>4, <1>5, <1>6, <2>3, <3>1
  <2>4. CASE i = n + 3
    <3>1. ~(i <= n) /\ i - n = 3
      BY <2>4
    <3> QED
      BY <1>2, <1>5, <1>6, <2>4, <3>1
  <2>5. i \in 1..n \/ i = n + 1 \/ i = n + 2 \/ i = n + 3
    BY <1>1
  <2> QED
    BY <2>1, <2>2, <2>3, <2>4, <2>5
<1>8. r \o t = c
  BY <1>5, <1>6, <1>7, SeqEqual
<1> QED
  BY <1>8 DEF a, b, c, t

LEMMA InvokeDestructorKeeps ==
  ASSUME IInv, InvokeDestructor
  PROVE  IInv'
<1>0. PICK x : x = Top.obj
  OBVIOUS
<1>1. /\ Top.op = "decrease_reference" /\ ref_count[x] = 1
      /\ active_destructors' = active_destructors \cup {x}
      /\ work' = Rest \o <<Check(x), Finish(x), Activation(x, Null)>>
      /\ UNCHANGED <<program, live, tag, ref_count, strong, weaks, static, freed_twice>>
  BY <1>0 DEF InvokeDestructor, At
<1>2. /\ x \in Addr /\ x \in live /\ OwnerCount(x) = 1
      /\ ~Waits(Rest, "after object_destructor", x)
      /\ \A a \in Addr : Holds(Top, a) <=> x = a
  <2>1. LastHeld(x)
    BY <1>0, <1>1 DEF LastHeld
  <2> QED
    BY <1>1, <2>1, LastOwner
<1>3. Stack(Rest, live, Settled) /\ Open(Rest, Settled) /\ Rest \in Seq(Frames)
  BY <1>1, RestFacts DEF Stack
<1> DEFINE f == Check(x)
           g == Finish(x)
           h == Activation(x, Null)
           s == Append(Rest, f)
           t == Append(s, g)
<1>4. /\ f \in Frames /\ f.op = "after object_destructor" /\ f.obj = x
      /\ g \in Frames /\ g.op = "after invoke_destructor" /\ g.obj = x
      /\ h \in Frames /\ h.op = "run" /\ h.this = x /\ h.local = Null
  BY <1>2 DEF Check, Finish, Activation, Frames, Refs
<1>5. work' = Append(t, h)
  <2>1. f \in Frames /\ g \in Frames /\ h \in Frames /\ Rest \in Seq(Frames)
    BY <1>3, <1>4
  <2>2. work' = Rest \o <<f, g, h>>
    BY <1>1
  <2> HIDE DEF f, g, h
  <2> QED
    BY <2>1, <2>2, ThreePushed
<1> HIDE DEF f, g, h, s, t
<1>6. Stack(s, live, Settled) /\ Grows(Rest, s, f) /\ s[Len(s)] = f
  <2>1. Fits(Rest, live, Settled, f)
    <3>1. \A i \in 1..Len(Rest) : ~Same(Rest[i], f)
      BY <1>2, <1>4 DEF Same, Waits
    <3> QED
      BY <1>2, <1>3, <1>4, <3>1 DEF Fits, On, Open
  <2> QED
    <3>1. Stack(Rest, live, Settled) /\ f \in Frames
      BY <1>3, <1>4
    <3> QED
      BY <2>1, <3>1, Pushed DEF s
<1>7. Stack(t, live, Settled) /\ Grows(s, t, g) /\ t[Len(t)] = g
  <2>1. Fits(s, live, Settled, g)
    BY <1>4, <1>6 DEF Fits, On, Same
  <2> QED
    <3>1. Stack(s, live, Settled) /\ g \in Frames
      BY <1>4, <1>6
    <3> QED
      BY <2>1, <3>1, Pushed DEF t
<1>8. Stack(work', live, Settled) /\ Grows(t, work', h)
  <2>1. Fits(t, live, Settled, h)
    BY <1>4, <1>7 DEF Fits, On, Same
  <2> QED
    BY <1>4, <1>5, <1>7, <2>1, Pushed
<1>9. ASSUME NEW a \in Addr
      PROVE  /\ Times(work', a) = Times(work, a) /\ Times(work, a) \in Nat
             /\ PathHeld(work', a) <=> PathHeld(work, a)
  <2>1. ~Holds(f, a) /\ (Holds(g, a) <=> x = a) /\ ~Holds(h, a)
    BY <1>4, NullAssumption, WhatHolds
  <2>2. Times(s, a) = Times(Rest, a) + 0 /\ (PathHeld(s, a) <=> PathHeld(Rest, a))
    BY <1>4, <1>6, <2>1 DEF Grows, Number
  <2>3. Times(t, a) = Times(s, a) + Number(x = a) /\ (PathHeld(t, a) <=> PathHeld(s, a))
    BY <1>4, <1>7, <2>1 DEF Grows, Number
  <2>4. Times(work', a) = Times(t, a) + 0 /\ (PathHeld(work', a) <=> PathHeld(t, a))
    BY <1>4, <1>8, <2>1 DEF Grows, Number
  <2>5. /\ Times(work, a) = Times(Rest, a) + Number(x = a) /\ Times(Rest, a) \in Nat
    BY <1>1, <1>2, RestCounts DEF Number
  <2>6. PathHeld(Rest, a) <=> PathHeld(work, a)
    BY <1>1, RestCounts
  <2>7. Number(x = a) \in {0, 1}
    BY DEF Number
  <2> QED
    BY <2>2, <2>3, <2>4, <2>5, <2>6, <2>7
<1>10. ASSUME NEW a \in Addr
       PROVE  /\ Waits(work', "SET_PROPERTY", a) <=> Waits(work, "SET_PROPERTY", a)
              /\ Waits(work', "after invoke_destructor", a)
                   <=> Waits(work, "after invoke_destructor", a) \/ a = x
              /\ Waits(work', "after object_destructor", a)
                   <=> Waits(work, "after object_destructor", a) \/ a = x
  <2>1. ASSUME NEW op \in Kinds
        PROVE  Waits(work', op, a) <=> Waits(Rest, op, a) \/ (f.op = op /\ f.obj = a)
                                       \/ (g.op = op /\ g.obj = a) \/ (h.op = op /\ h.obj = a)
    BY <1>6, <1>7, <1>8 DEF Grows
  <2>2. /\ Waits(work', "SET_PROPERTY", a) <=> Waits(Rest, "SET_PROPERTY", a)
        /\ Waits(work', "after invoke_destructor", a)
             <=> Waits(Rest, "after invoke_destructor", a) \/ a = x
        /\ Waits(work', "after object_destructor", a)
             <=> Waits(Rest, "after object_destructor", a) \/ a = x
    BY <1>4, <2>1 DEF Kinds
  <2> QED
    BY <1>1, <2>2, RestWaits
<1>11. WaitsStatic(work') <=> WaitsStatic(work)
  <2>1. WaitsStatic(work') <=> WaitsStatic(Rest)
    BY <1>4, <1>6, <1>7, <1>8 DEF Grows
  <2> QED
    BY <1>1, <2>1, RestCounts
<1>12. ASSUME NEW a \in Addr
       PROVE  /\ OwnerCount(a)' = OwnerCount(a) + Number(Null = a) /\ OwnerCount(a)' \in Nat
              /\ PathClaim(a)' \in {0, 1} /\ PathClaim(a)' <= PathClaim(a)
  <2>1. SlotSet(live', strong', work', a) = SlotSet(live, strong, work, a)
    BY <1>1, <1>10 DEF SlotSet, IInv, TypeOK
  <2>2. StaticCount(static', work', a) = StaticCount(static, work, a)
    BY <1>1, <1>11 DEF StaticCount
  <2>3. Times(work', a) = Times(work, a)
    BY <1>9
  <2>4. OwnerCount(a)' = OwnerCount(a) /\ OwnerCount(a) \in Nat
    BY <2>1, <2>2, <2>3, OwnersAre
  <2> QED
    BY <1>9, <2>4, NullOwnsNothing, PathClaimFalls
<1>13. UNCHANGED <<program, live>> /\ ref_count' = Retained(Null) /\ Null \in Refs
  BY <1>1, RetainedNull DEF Refs
<1>14. /\ Counted' /\ \A a \in Settled : a \in Settled'
       /\ ref_count' \in [Addr -> Nat]
  <2>1. \A a \in Addr : OwnerCount(a)' <= OwnerCount(a) + Number(Null = a)
    BY <1>12
  <2> QED
    BY <1>12, <1>13, <2>1, Gained
<1>15. Stack(work', live, Settled')
  BY <1>8, <1>14, StackStays
<1>16. /\ TypeOK /\ live \subseteq Addr /\ active_destructors \subseteq Addr
       /\ Dead /\ Active /\ Stores
  BY DEF IInv, TypeOK
<1>17. Dead'
  <2>1. \A a \in live : ref_count[a] = 0 =>
          strong[a] = Null /\ Waits(work', "after object_destructor", a)
    BY <1>10, <1>16 DEF Dead
  <2> QED
    BY <1>1, <2>1 DEF Dead
<1>18. Active' /\ Stores'
  <2>1. Active'
    BY <1>1, <1>2, <1>10, <1>16 DEF Active
  <2>2. Stores'
    BY <1>1, <1>10, <1>16 DEF Stores
  <2> QED
    BY <2>1, <2>2
<1>19. static' \in Refs /\ strong' \in [Addr -> Refs] /\ active_destructors' \subseteq Addr
  BY <1>1, <1>2, <1>16 DEF TypeOK
<1> QED
  BY <1>1, <1>14, <1>15, <1>17, <1>18, <1>19, Kept

(* A reference to x is released for good, and its slot is cleared. *)
Dying(x) ==
  /\ LastHeld(x) /\ IInv /\ x \in live
  /\ ref_count' = [ref_count EXCEPT ![x] = 0] /\ strong' = ClearSlot(x)
  /\ UNCHANGED <<program, live, tag, weaks, static, freed_twice>>
  /\ Stack(work', live, Settled \cup {x})
  /\ WaitsStatic(work') <=> WaitsStatic(work)
  /\ \A a \in Addr :
       /\ Times(work', a) = Times(Rest, a) + Number(strong[x] = a)
       /\ PathHeld(work', a) <=> PathHeld(work, a)
       /\ Waits(work', "SET_PROPERTY", a) <=> Waits(work, "SET_PROPERTY", a)
       /\ Waits(work', "after object_destructor", a)
            <=> Waits(work, "after object_destructor", a) \/ a = x

LEMMA DyingKeeps ==
  ASSUME NEW x, Dying(x), Active', active_destructors' \subseteq Addr
  PROVE  IInv'
<1>1. /\ IInv /\ LastHeld(x) /\ x \in live
      /\ UNCHANGED <<program, live, tag, weaks, static, freed_twice>>
      /\ Stack(work', live, Settled \cup {x})
      /\ WaitsStatic(work') <=> WaitsStatic(work)
  BY DEF Dying
<1>2. /\ Top.op # "run" /\ ref_count[x] = 1 /\ x \in Addr /\ OwnerCount(x) = 1
      /\ ~Waits(work, "SET_PROPERTY", x) /\ \A a \in Addr : Holds(Top, a) <=> x = a
  BY <1>1, LastOwner DEF LastHeld
<1>3. ASSUME NEW a \in Addr
      PROVE  /\ Times(work', a) = Times(Rest, a) + Number(strong[x] = a)
             /\ PathHeld(work', a) <=> PathHeld(work, a)
             /\ Waits(work', "SET_PROPERTY", a) <=> Waits(work, "SET_PROPERTY", a)
             /\ Waits(work', "after object_destructor", a)
                  <=> Waits(work, "after object_destructor", a) \/ a = x
  BY DEF Dying
<1>4. ref_count' = [ref_count EXCEPT ![x] = 0] /\ strong' = ClearSlot(x)
  BY DEF Dying
<1>5. /\ TypeOK /\ Dead /\ Stores /\ IsFiniteSet(live) /\ live \subseteq Addr
      /\ ref_count \in [Addr -> Nat] /\ strong \in [Addr -> Refs]
  BY <1>1 DEF IInv, TypeOK, Tagged
<1>6. /\ strong' \in [Addr -> Refs] /\ strong'[x] = Null
      /\ \A a \in Addr : a # x => strong'[a] = strong[a]
  BY <1>2, <1>4, <1>5 DEF ClearSlot, Refs
<1>7. ref_count' = [ref_count EXCEPT ![x] = @ - 1]
  <2>1. ref_count[x] - 1 = 0
    BY <1>2
  <2> QED
    BY <1>4, <2>1
<1>8. ASSUME NEW a \in Addr
      PROVE  /\ OwnerCount(a)' = OwnerCount(a) - Number(x = a)
             /\ PathClaim(a)' \in {0, 1} /\ PathClaim(a)' <= PathClaim(a)
  <2>1. Number(x = a) \in {0, 1} /\ Number(strong[x] = a) \in {0, 1}
    BY DEF Number
  <2>2. Times(work, a) = Times(Rest, a) + Number(x = a) /\ Times(Rest, a) \in Nat
    BY <1>1, <1>2, RestCounts DEF Number
  <2>3. Cardinality(SlotSet(live, strong', work', a))
          + Number(strong[x] = a /\ ~Waits(work, "SET_PROPERTY", x))
        = Cardinality(SlotSet(live, strong, work, a))
          + Number(strong'[x] = a /\ ~Waits(work', "SET_PROPERTY", x))
    <3>1. \A g \in live \ {x} :
            /\ strong[g] = strong'[g]
            /\ Waits(work, "SET_PROPERTY", g) <=> Waits(work', "SET_PROPERTY", g)
      BY <1>3, <1>5, <1>6
    <3> QED
      BY <1>1, <1>5, <3>1, SlotMoved
  <2>4. /\ Number(strong[x] = a /\ ~Waits(work, "SET_PROPERTY", x)) = Number(strong[x] = a)
        /\ Number(strong'[x] = a /\ ~Waits(work', "SET_PROPERTY", x)) = 0
    BY <1>2, <1>6, NullAssumption DEF Number
  <2>5. Cardinality(SlotSet(live', strong', work', a)) \in Nat /\ live' = live
    BY <1>1, <1>5, SlotsFinite
  <2>6. StaticCount(static', work', a) = StaticCount(static, work, a)
    BY <1>1 DEF StaticCount
  <2>7. Times(work', a) = Times(Rest, a) + Number(strong[x] = a)
    BY <1>3
  <2>8. OwnerCount(a)' = OwnerCount(a) - Number(x = a)
    BY <1>1, <2>1, <2>2, <2>3, <2>4, <2>5, <2>6, <2>7, OwnersAre
  <2> QED
    BY <1>3, <2>8, PathClaimFalls
<1>9. /\ Counted' /\ \A a \in Settled : a \in Settled'
      /\ \A a \in Addr : ref_count'[a] \in Nat /\ (a # x => ref_count'[a] = ref_count[a])
      /\ ref_count' \in [Addr -> Nat]
  <2>1. OwnerCount(x) > 0 /\ UNCHANGED <<program, live>>
    BY <1>1, <1>2
  <2> QED
    BY <1>1, <1>2, <1>7, <1>8, <2>1, Lost
<1>10. Stack(work', live, Settled')
  <2>1. x \in Settled'
    BY <1>2, <1>4, <1>5 DEF Settled
  <2>2. \A a \in Addr : a \in Settled \cup {x} => a \in Settled'
    BY <1>9, <2>1
  <2> QED
    BY <1>1, <2>2, MoreSettled
<1>11. Dead'
  <2>1. ASSUME NEW a \in live, ref_count'[a] = 0
        PROVE  strong'[a] = Null /\ Waits(work', "after object_destructor", a)
    <3>1. a \in Addr
      BY <1>5
    <3>2. CASE a = x
      BY <1>3, <1>6, <3>1, <3>2
    <3>3. CASE a # x
      <4>1. ref_count[a] = 0
        BY <1>9, <2>1, <3>1, <3>3
      <4>2. strong[a] = Null /\ Waits(work, "after object_destructor", a)
        BY <1>5, <4>1 DEF Dead
      <4> QED
        BY <1>3, <1>6, <3>1, <3>3, <4>2
    <3> QED
      BY <3>2, <3>3
  <2> QED
    BY <1>1, <2>1 DEF Dead
<1>12. Stores'
  <2>1. \A h \in Addr : Waits(work', "SET_PROPERTY", h) => tag[h] = "OBJECT"
    BY <1>3, <1>5 DEF Stores
  <2> QED
    BY <1>1, <2>1 DEF Stores
<1>13. static' \in Refs
  BY <1>1, <1>5 DEF TypeOK
<1> QED
  BY <1>1, <1>6, <1>9, <1>10, <1>11, <1>12, <1>13, Kept

LEMMA ReleaseChildrenKeeps ==
  ASSUME IInv, ReleaseChildren
  PROVE  IInv'
<1>0. PICK x : x = Top.obj
  OBVIOUS
<1>1. /\ Top.op = "decrease_reference" /\ ref_count[x] = 1
      /\ ~(tag[x] = "OBJECT" /\ x \notin active_destructors)
      /\ ref_count' = [ref_count EXCEPT ![x] = 0]
      /\ strong' = IF tag[x] = "RAW" THEN strong ELSE ClearSlot(x)
      /\ work' = Rest \o <<Check(x)>>
                 \o (IF tag[x] = "RAW" THEN <<>> ELSE Release(strong[x]))
      /\ UNCHANGED <<program, live, tag, weaks, static, active_destructors, freed_twice>>
  BY <1>0 DEF ReleaseChildren, At
<1>l. LastHeld(x)
  BY <1>0, <1>1 DEF LastHeld
<1>2. /\ x \in Addr /\ x \in live
      /\ ~Waits(Rest, "after object_destructor", x)
      /\ ~Waits(Rest, "after invoke_destructor", x)
  BY <1>1, <1>l, LastOwner
<1>3. Stack(Rest, live, Settled) /\ Open(Rest, Settled) /\ Rest \in Seq(Frames)
  BY <1>1, RestFacts DEF Stack
<1>4. /\ strong \in [Addr -> Refs] /\ strong[x] \in Refs
      /\ active_destructors \subseteq Addr /\ Active
  BY <1>2 DEF IInv, TypeOK
<1>5. tag[x] # "RAW"
  BY <1>2 DEF IInv, Tagged
<1> DEFINE f == Check(x)
           s == Append(Rest, f)
           Z == Settled \cup {x}
<1>6. f \in Frames /\ f.op = "after object_destructor" /\ f.obj = x
  BY <1>2 DEF Check, Frames
<1>7. work' = Released(s, strong[x]) /\ strong' = ClearSlot(x)
  <2> HIDE DEF f
  <2>1. Rest \o <<f>> = s
    BY <1>3, <1>6, AppendIsConcat
  <2>2. work' = Rest \o <<f>> \o Release(strong[x])
    BY <1>1, <1>5 DEF f
  <2> QED
    BY <1>1, <1>5, <2>1, <2>2 DEF Released
<1> HIDE DEF f, s, Z
<1>8. Stack(Rest, live, Z)
  <2>1. \A a \in Addr : a \in Settled => a \in Z
    BY DEF Z
  <2> QED
    BY <1>3, <2>1, MoreSettled
<1>9. Stack(s, live, Z) /\ Grows(Rest, s, f) /\ s[Len(s)] = f
  <2>1. Fits(Rest, live, Z, f)
    <3>1. \A i \in 1..Len(Rest) : ~Same(Rest[i], f)
      BY <1>2, <1>6 DEF Same, Waits
    <3>2. x \in live /\ Open(Rest, Settled)
      BY <1>2, <1>3
    <3> QED
      BY <1>6, <3>1, <3>2 DEF Fits, On, Open, Z
  <2>2. f \in Frames
    BY <1>6
  <2> QED
    BY <1>8, <2>1, <2>2, Pushed DEF s
<1>10. Open(s, Z)
  BY <1>6, <1>9 DEF Open, Z
<1>11. /\ Stack(work', live, Z)
       /\ \A a \in Addr : /\ Times(work', a) = Times(s, a) + Number(strong[x] = a)
                          /\ PathHeld(work', a) <=> PathHeld(s, a)
                          /\ \A op \in Kinds : Waits(work', op, a) <=> Waits(s, op, a)
       /\ WaitsStatic(work') <=> WaitsStatic(s)
  <2>1. Stack(s, live, Z)
    BY <1>9
  <2> QED
    BY <1>4, <1>7, <1>10, <2>1, ReleasePushed
<1>12. ASSUME NEW a \in Addr
       PROVE  /\ Times(work', a) = Times(Rest, a) + Number(strong[x] = a)
              /\ PathHeld(work', a) <=> PathHeld(work, a)
  <2>1. ~Holds(f, a)
    BY <1>6, WhatHolds
  <2>2. Times(s, a) = Times(Rest, a) + Number(Holds(f, a))
    BY <1>9 DEF Grows
  <2>3. Times(Rest, a) \in Nat
    BY <1>1, RestCounts
  <2>4. Times(s, a) = Times(Rest, a)
    BY <2>1, <2>2, <2>3 DEF Number
  <2>5. PathHeld(s, a) <=> PathHeld(Rest, a)
    BY <1>6, <1>9 DEF Grows
  <2>6. PathHeld(Rest, a) <=> PathHeld(work, a)
    BY <1>1, RestCounts
  <2> QED
    BY <1>11, <2>4, <2>5, <2>6
<1>13. ASSUME NEW a \in Addr
       PROVE  /\ Waits(work', "SET_PROPERTY", a) <=> Waits(work, "SET_PROPERTY", a)
              /\ Waits(work', "after invoke_destructor", a)
                   <=> Waits(work, "after invoke_destructor", a)
              /\ Waits(work', "after object_destructor", a)
                   <=> Waits(work, "after object_destructor", a) \/ a = x
  <2>1. ASSUME NEW op \in Kinds
        PROVE  Waits(work', op, a) <=> Waits(Rest, op, a) \/ (f.op = op /\ f.obj = a)
    BY <1>9, <1>11 DEF Grows
  <2>2. /\ Waits(work', "SET_PROPERTY", a) <=> Waits(Rest, "SET_PROPERTY", a)
        /\ Waits(work', "after invoke_destructor", a)
             <=> Waits(Rest, "after invoke_destructor", a)
        /\ Waits(work', "after object_destructor", a)
             <=> Waits(Rest, "after object_destructor", a) \/ a = x
    BY <1>6, <2>1 DEF Kinds
  <2> QED
    BY <1>1, <2>2, RestWaits
<1>14. WaitsStatic(work') <=> WaitsStatic(work)
  <2>1. WaitsStatic(work') <=> WaitsStatic(Rest)
    BY <1>6, <1>9, <1>11 DEF Grows
  <2> QED
    BY <1>1, <2>1, RestCounts
<1>15. Dying(x)
  <2>1. Stack(work', live, Settled \cup {x})
    BY <1>11 DEF Z
  <2>2. UNCHANGED <<program, live, tag, weaks, static, freed_twice>>
    BY <1>1
  <2>3. ref_count' = [ref_count EXCEPT ![x] = 0]
    BY <1>1
  <2> QED
    BY <1>l, <1>2, <1>7, <1>12, <1>13, <1>14, <2>1, <2>2, <2>3 DEF Dying
<1>16. Active' /\ active_destructors' \subseteq Addr
  <2>1. \A a \in active_destructors : Waits(work', "after invoke_destructor", a)
    BY <1>4, <1>13 DEF Active
  <2> QED
    BY <1>1, <1>4, <2>1 DEF Active
<1> QED
  BY <1>15, <1>16, DyingKeeps

LEMMA FinishDestructorKeeps ==
  ASSUME IInv, FinishDestructor
  PROVE  IInv'
<1>0. PICK x : x = Top.obj
  OBVIOUS
<1>1. /\ Top.op = "after invoke_destructor"
      /\ active_destructors' = active_destructors \ {x}
      /\ UNCHANGED <<program, live, tag, weaks, static, freed_twice>>
  BY <1>0 DEF FinishDestructor, At
<1>2. Stack(Rest, live, Settled) /\ Top \in Frames /\ On(Rest[Len(Rest)], Top)
  BY <1>1, RestFacts
<1>3. x \in Addr /\ \A a \in Addr : Holds(Top, a) <=> x = a
  <2>1. x \in Addr
    BY <1>0, <1>1, <1>2, FrameFields DEF Kinds
  <2> QED
    BY <1>0, <1>1, <1>2, <2>1, WhatHolds
<1>4. x \in live /\ ref_count[x] > 0 /\ OwnerCount(x) > 0
  <2>1. x \in live /\ ref_count[x] > 0 /\ Times(work, x) > 0
    BY <1>3, TopHeld
  <2> QED
    BY <1>3, <2>1, OwnerType
<1>5. Rest[Len(Rest)].op = "after object_destructor" /\ Rest[Len(Rest)].obj = x
  BY <1>0, <1>1, <1>2 DEF On
<1>6. /\ TypeOK /\ Dead /\ Active /\ Stores /\ live \subseteq Addr
      /\ active_destructors \subseteq Addr /\ ref_count \in [Addr -> Nat]
      /\ strong \in [Addr -> Refs] /\ strong[x] \in Refs
  BY <1>3 DEF IInv, TypeOK
<1>7. ASSUME NEW a \in Addr
      PROVE  /\ Waits(Rest, "SET_PROPERTY", a) <=> Waits(work, "SET_PROPERTY", a)
             /\ a # x => (Waits(Rest, "after invoke_destructor", a)
                            <=> Waits(work, "after invoke_destructor", a))
             /\ Waits(Rest, "after object_destructor", a)
                  <=> Waits(work, "after object_destructor", a)
  BY <1>0, <1>1, RestWaits
<1>8. WaitsStatic(Rest) <=> WaitsStatic(work)
  BY <1>1, RestCounts
<1>9. ASSUME NEW a \in Addr
      PROVE  /\ Times(work, a) = Times(Rest, a) + Number(x = a) /\ Times(Rest, a) \in Nat
             /\ PathHeld(Rest, a) <=> PathHeld(work, a)
  BY <1>1, <1>3, RestCounts DEF Number
<1>10. CASE ref_count[x] > 1
  <2>1. work' = Rest /\ ref_count' = [ref_count EXCEPT ![x] = @ - 1] /\ UNCHANGED strong
    BY <1>0, <1>10 DEF FinishDestructor, Resurrected
  <2>2. ASSUME NEW a \in Addr
        PROVE  /\ OwnerCount(a)' = OwnerCount(a) - Number(x = a)
               /\ PathClaim(a)' \in {0, 1} /\ PathClaim(a)' <= PathClaim(a)
    <3>1. SlotSet(live', strong', work', a) = SlotSet(live, strong, work, a)
      BY <1>1, <1>6, <1>7, <2>1 DEF SlotSet
    <3>2. StaticCount(static', work', a) = StaticCount(static, work, a)
      BY <1>1, <1>8, <2>1 DEF StaticCount
    <3>3. Times(work, a) = Times(work', a) + Number(x = a) /\ Times(work', a) \in Nat
      BY <1>9, <2>1
    <3>4. Number(x = a) \in {0, 1}
      BY DEF Number
    <3>5. OwnerCount(a)' = OwnerCount(a) - Number(x = a)
      BY <3>1, <3>2, <3>3, <3>4, OwnersAre
    <3> QED
      BY <1>9, <2>1, <3>5, PathClaimFalls
  <2>3. /\ Counted' /\ \A a \in Settled : a \in Settled'
        /\ \A a \in Addr : ref_count'[a] \in Nat /\ (a # x => ref_count'[a] = ref_count[a])
        /\ ref_count' \in [Addr -> Nat]
    <3>1. UNCHANGED <<program, live>> /\ ref_count' = [ref_count EXCEPT ![x] = @ - 1]
      BY <1>1, <2>1
    <3> QED
      BY <1>3, <1>4, <2>2, <3>1, Lost
  <2>4. Stack(work', live, Settled')
    BY <1>2, <2>1, <2>3, StackStays
  <2>5. Dead'
    <3>1. ASSUME NEW a \in live, ref_count'[a] = 0
          PROVE  strong[a] = Null /\ Waits(work', "after object_destructor", a)
      <4>1. a # x /\ a \in Addr
        BY <1>3, <1>6, <1>10, <2>1, <3>1
      <4>2. ref_count[a] = 0
        BY <2>3, <3>1, <4>1
      <4>3. strong[a] = Null /\ Waits(work, "after object_destructor", a)
        BY <1>6, <4>2 DEF Dead
      <4> QED
        BY <1>7, <2>1, <4>1, <4>3
    <3> QED
      BY <1>1, <2>1, <3>1 DEF Dead
  <2>6. Active'
    <3>1. \A a \in active_destructors \ {x} : Waits(work', "after invoke_destructor", a)
      BY <1>6, <1>7, <2>1 DEF Active
    <3> QED
      BY <1>1, <3>1 DEF Active
  <2>7. Stores'
    <3>1. \A h \in Addr : Waits(work', "SET_PROPERTY", h) => tag[h] = "OBJECT"
      BY <1>6, <1>7, <2>1 DEF Stores
    <3> QED
      BY <1>1, <3>1 DEF Stores
  <2>8. static' \in Refs /\ strong' \in [Addr -> Refs] /\ active_destructors' \subseteq Addr
    BY <1>1, <1>6, <2>1 DEF TypeOK
  <2> QED
    BY <1>1, <2>3, <2>4, <2>5, <2>6, <2>7, <2>8, Kept
<1>11. CASE ~(ref_count[x] > 1)
  <2>1. /\ ref_count' = [ref_count EXCEPT ![x] = 0] /\ strong' = ClearSlot(x)
        /\ work' = Released(Rest, strong[x])
    BY <1>0, <1>11 DEF FinishDestructor, Resurrected, Released
  <2>2. LastHeld(x)
    <3>1. ref_count[x] \in Nat
      BY <1>3, <1>6
    <3>2. ref_count[x] = 1
      BY <1>4, <1>11, <3>1
    <3> QED
      BY <1>0, <1>1, <3>2 DEF LastHeld
  <2> DEFINE Z == Settled \cup {x}
  <2>3. Stack(Rest, live, Z) /\ Open(Rest, Z)
    <3>1. \A a \in Settled : a \in Z
      OBVIOUS
    <3>2. Open(Rest, Z)
      BY <1>5 DEF Open
    <3> HIDE DEF Z
    <3> QED
      BY <1>2, <3>1, <3>2, Rechecked
  <2> HIDE DEF Z
  <2>4. /\ Stack(work', live, Z)
        /\ \A a \in Addr : /\ Times(work', a) = Times(Rest, a) + Number(strong[x] = a)
                           /\ PathHeld(work', a) <=> PathHeld(Rest, a)
                           /\ \A op \in Kinds : Waits(work', op, a) <=> Waits(Rest, op, a)
        /\ WaitsStatic(work') <=> WaitsStatic(Rest)
    <3>1. strong[x] \in Refs
      BY <1>6
    <3> QED
      BY <2>1, <2>3, <3>1, ReleasePushed
  <2>5. ASSUME NEW a \in Addr
        PROVE  /\ Waits(work', "SET_PROPERTY", a) <=> Waits(work, "SET_PROPERTY", a)
               /\ a # x => (Waits(work', "after invoke_destructor", a)
                              <=> Waits(work, "after invoke_destructor", a))
               /\ Waits(work', "after object_destructor", a)
                    <=> Waits(work, "after object_destructor", a) \/ a = x
    <3>1. \A op \in Kinds : Waits(work', op, a) <=> Waits(Rest, op, a)
      BY <2>4
    <3>2. /\ Waits(work', "SET_PROPERTY", a) <=> Waits(Rest, "SET_PROPERTY", a)
          /\ Waits(work', "after invoke_destructor", a)
               <=> Waits(Rest, "after invoke_destructor", a)
          /\ Waits(work', "after object_destructor", a)
               <=> Waits(Rest, "after object_destructor", a)
      BY <3>1 DEF Kinds
    <3>3. Waits(Rest, "after object_destructor", x)
      <4>1. Len(Rest) \in 1..Len(Rest)
        BY <1>2 DEF Stack
      <4> QED
        BY <1>5, <4>1 DEF Waits
    <3> QED
      BY <1>7, <3>2, <3>3
  <2>6. Dying(x)
    <3>1. Stack(work', live, Settled \cup {x})
      BY <2>4 DEF Z
    <3>2. UNCHANGED <<program, live, tag, weaks, static, freed_twice>>
      BY <1>1
    <3>3. WaitsStatic(work') <=> WaitsStatic(work)
      BY <1>8, <2>4
    <3>4. \A a \in Addr : /\ Times(work', a) = Times(Rest, a) + Number(strong[x] = a)
                          /\ PathHeld(work', a) <=> PathHeld(work, a)
      BY <1>9, <2>4
    <3> QED
      BY <1>4, <2>1, <2>2, <2>5, <3>1, <3>2, <3>3, <3>4 DEF Dying
  <2>7. Active' /\ active_destructors' \subseteq Addr
    <3>1. \A a \in active_destructors \ {x} : Waits(work', "after invoke_destructor", a)
      BY <1>6, <2>5 DEF Active
    <3> QED
      BY <1>1, <1>6, <3>1 DEF Active
  <2> QED
    BY <2>6, <2>7, DyingKeeps
<1> QED
  BY <1>10, <1>11

(* What waits is being released: it is allocated. *)
LEMMA CheckedIsLive ==
  ASSUME NEW L, NEW Z, NEW s, Stack(s, L, Z), NEW a, Waits(s, "after object_destructor", a)
  PROVE  a \in L
BY DEF Stack, Checks, Waits

(* A block that nothing holds, and whose slot holds nothing, goes. *)
LEMMA DeallocateKeeps ==
  ASSUME Careful, IInv, Deallocate
  PROVE  IInv'
<1>0. PICK x : x = Top.obj
  OBVIOUS
<1>1. /\ Top.op = "after object_destructor" /\ ref_count[x] = 0
      /\ freed_twice' = (x \notin live) /\ live' = live \ {x}
      /\ tag' = [tag EXCEPT ![x] = "RAW"]
      /\ weak' = [b \in Addr |-> IF b \in Nulled(x, "weak") THEN Null ELSE weak[b]]
      /\ weak_references' = [weak_references EXCEPT ![x] = {}] /\ work' = Rest
      /\ UNCHANGED <<program, ref_count, strong, at_slot, static, active_destructors>>
  <2>1. Nulled(x, "strong") = {} /\ Nulled(x, "header") = {}
    <3>1. Stray(x) = {}
      BY <1>0, NoHabits DEF Deallocate
    <3> QED
      BY <3>1 DEF Stray
  <2>2. /\ tag' = [b \in Addr |-> IF b = x THEN "RAW" ELSE tag[b]]
        /\ ref_count' = [b \in Addr |-> ref_count[b]]
        /\ strong' = [b \in Addr |-> strong[b]]
    BY <1>0, <2>1 DEF Deallocate
  <2>3. /\ tag' = [tag EXCEPT ![x] = "RAW"] /\ ref_count' = ref_count /\ strong' = strong
    BY <2>2 DEF IInv, TypeOK
  <2> QED
    BY <1>0, <2>3 DEF Deallocate, At
<1>2. Stack(Rest, live, Settled) /\ Top \in Frames
  BY <1>1, RestFacts
<1>3. x \in Addr /\ \A a \in Addr : ~Holds(Top, a)
  <2>1. x \in Addr
    BY <1>0, <1>1, <1>2, FrameFields DEF Kinds
  <2> QED
    BY <1>1, <1>2, <2>1, WhatHolds
<1>4. /\ TypeOK /\ Counted /\ Dead /\ Tagged /\ Active /\ Stores /\ WeakSafe /\ FreedOnce
      /\ Stack(work, live, Settled) /\ IsFiniteSet(live)
      /\ live \subseteq Addr /\ active_destructors \subseteq Addr
  BY DEF IInv, TypeOK, Tagged
<1>5. x \in live /\ strong[x] = Null
  <2>1. Waits(work, "after object_destructor", x)
    BY <1>0, <1>1, <1>3, RestWaits
  <2>2. x \in live
    BY <1>4, <2>1, CheckedIsLive
  <2> QED
    BY <1>1, <1>4, <2>2 DEF Dead
<1>6. OwnerCount(x) = 0 /\ PathClaim(x) = 0
  <2>1. CountedAt(x)
    BY <1>3, <1>4 DEF Counted
  <2>2. OwnerCount(x) \in Nat /\ PathClaim(x) \in {0, 1}
    BY <1>3, OwnerType
  <2>3. OwnerCount(x) + PathClaim(x) <= 0
    <3>1. ref_count[x] = 0
      BY <1>1
    <3> QED
      BY <1>5, <2>1, <3>1 DEF CountedAt
  <2> QED
    BY <2>2, <2>3
<1>7. ASSUME NEW a \in Addr
      PROVE  /\ Waits(Rest, "SET_PROPERTY", a) <=> Waits(work, "SET_PROPERTY", a)
             /\ Waits(Rest, "after invoke_destructor", a)
                  <=> Waits(work, "after invoke_destructor", a)
             /\ a # x => (Waits(Rest, "after object_destructor", a)
                            <=> Waits(work, "after object_destructor", a))
  BY <1>0, <1>1, RestWaits
<1>8. ~Waits(Rest, "after object_destructor", x)
  BY <1>0, <1>1, RestFacts DEF Waits, Same
<1>9. ASSUME NEW a \in Addr
      PROVE  /\ Times(Rest, a) = Times(work, a) /\ Times(work, a) \in Nat
             /\ PathHeld(Rest, a) <=> PathHeld(work, a)
  <2>1. Times(work, a) = Times(Rest, a) + Number(Holds(Top, a)) /\ Times(Rest, a) \in Nat
    BY <1>1, RestCounts
  <2>2. ~Holds(Top, a)
    BY <1>3
  <2>3. Times(Rest, a) = Times(work, a) /\ Times(work, a) \in Nat
    BY <2>1, <2>2 DEF Number
  <2>4. PathHeld(Rest, a) <=> PathHeld(work, a)
    BY <1>1, RestCounts
  <2> QED
    BY <2>3, <2>4
<1>10. ASSUME NEW a \in Addr PROVE OwnerCount(a)' = OwnerCount(a)
       /\ PathClaim(a)' = PathClaim(a)
  <2>1. SlotSet(live', strong', work', a) = SlotSet(live, strong, work, a)
    BY <1>1, <1>4, <1>5, <1>7, NullAssumption DEF SlotSet
  <2>2. WaitsStatic(Rest) <=> WaitsStatic(work)
    BY <1>1, RestCounts
  <2>3. StaticCount(static', work', a) = StaticCount(static, work, a)
    BY <1>1, <2>2 DEF StaticCount
  <2>4. Times(work', a) = Times(work, a)
    BY <1>1, <1>9
  <2>5. OwnerCount(a)' = OwnerCount(a)
    BY <2>1, <2>3, <2>4, OwnersAre
  <2>6. PathHeld(work', a) <=> PathHeld(work, a)
    BY <1>1, <1>9
  <2> QED
    BY <2>5, <2>6 DEF PathClaim, Number
<1>11. Counted'
  <2>1. Leaky' = Leaky
    BY <1>1 DEF Leaky
  <2>2. ASSUME NEW a \in Addr PROVE CountedAt(a)'
    <3>1. CountedAt(a) /\ ref_count'[a] = ref_count[a]
      BY <1>1, <1>4 DEF Counted
    <3>2. CASE a = x
      BY <1>1, <1>6, <1>10, <3>2 DEF CountedAt
    <3>3. CASE a # x
      <4>1. a \in live' <=> a \in live
        BY <1>1, <3>3
      <4> QED
        BY <1>10, <2>1, <3>1, <4>1 DEF CountedAt
    <3> QED
      BY <3>2, <3>3
  <2> QED
    BY <2>2 DEF Counted
<1>12. Stack(work', live', Settled')
  <2>1. \A a \in Settled : a \in Settled'
    BY <1>1, <1>10 DEF Settled
  <2>2. \A a \in Addr : Waits(Rest, "after object_destructor", a) =>
          /\ a \in live => a \in live'
          /\ a \in Settled => a \in Settled'
    BY <1>1, <1>8, <2>1
  <2> QED
    BY <1>1, <1>2, <2>2, Rechecked
<1>13. Dead'
  <2>1. ASSUME NEW a \in live', ref_count[a] = 0
        PROVE  strong[a] = Null /\ Waits(Rest, "after object_destructor", a)
    <3>1. a \in live /\ a # x /\ a \in Addr
      BY <1>1, <1>4
    <3>2. strong[a] = Null /\ Waits(work, "after object_destructor", a)
      BY <1>4, <2>1, <3>1 DEF Dead
    <3> QED
      BY <1>7, <3>1, <3>2
  <2> QED
    BY <1>1, <2>1 DEF Dead
<1>14. Active'
  <2>1. \A a \in active_destructors : Waits(Rest, "after invoke_destructor", a)
    BY <1>4, <1>7 DEF Active
  <2> QED
    BY <1>1, <2>1 DEF Active
<1>15. Stores'
  <2>1. ASSUME NEW h \in Addr, Waits(Rest, "SET_PROPERTY", h) PROVE tag'[h] = "OBJECT"
    <3>1. Waits(work, "SET_PROPERTY", h)
      BY <1>7, <2>1
    <3>2. ref_count[h] > 0 /\ tag[h] = "OBJECT"
      BY <1>4, <3>1, StoredIsLive DEF Stores
    <3>3. h # x
      <4>1. ref_count[x] = 0
        BY <1>1
      <4> QED
        BY <3>2, <4>1
    <3> QED
      BY <1>1, <1>4, <3>2, <3>3 DEF TypeOK
  <2> QED
    BY <1>1, <2>1 DEF Stores
<1>16. TypeOK'
  <2>1. weak' \in [Addr -> Refs]
    BY <1>1, <1>4 DEF TypeOK, Refs
  <2>2. /\ weak_references' \in [Addr -> SUBSET Addr] /\ live' \subseteq Addr
        /\ at_slot' \in [Addr -> [part : {"weak", "strong", "header"}, block : Addr]]
        /\ tag' \in [Addr -> {"RAW", "OBJECT", "ARRAY_REF"}] /\ freed_twice' \in BOOLEAN
    BY <1>1, <1>4, <1>5 DEF TypeOK
  <2>3. work' \in Seq(Frames) /\ Len(work') > 0 /\ work'[1].op = "run"
    BY <1>12 DEF Stack, Framed
  <2>4. /\ program' \in Programs /\ ref_count' \in [Addr -> Nat] /\ strong' \in [Addr -> Refs]
        /\ static' \in Refs /\ active_destructors' \subseteq Addr
    BY <1>1, <1>4 DEF TypeOK
  <2> QED
    BY <2>1, <2>2, <2>3, <2>4 DEF TypeOK
<1>17. Tagged' /\ FreedOnce'
  <2>1. IsFiniteSet(live')
    <3>1. live' \in SUBSET live
      BY <1>1
    <3> QED
      BY <1>4, <3>1, FS_Subset
  <2>2. \A a \in Addr : a \in live' <=> tag'[a] # "RAW"
    BY <1>1, <1>3, <1>4 DEF Tagged, TypeOK
  <2> QED
    BY <1>1, <1>5, <2>1, <2>2 DEF Tagged, FreedOnce
<1>18. WeakSafe'
  <2>1. ASSUME NEW h \in live', tag'[h] = "OBJECT", weak'[h] # Null
        PROVE  /\ weak'[h] \in live' /\ h \in weak_references'[weak'[h]]
               /\ at_slot'[h] = Slot("weak", h)
    <3>1. h \in live /\ h # x /\ h \in Addr
      BY <1>1, <1>4
    <3>2. weak'[h] = weak[h] /\ h \notin Nulled(x, "weak")
      BY <1>1, <2>1, <3>1
    <3>3. tag[h] = "OBJECT"
      BY <1>1, <1>4, <2>1, <3>1 DEF TypeOK
    <3>4. /\ weak[h] \in live /\ h \in weak_references[weak[h]]
          /\ at_slot[h] = Slot("weak", h)
      BY <1>4, <2>1, <3>1, <3>2, <3>3 DEF WeakSafe
    <3>5. weak[h] # x
      BY <3>1, <3>2, <3>4 DEF Nulled
    <3> QED
      BY <1>1, <1>4, <3>2, <3>4, <3>5 DEF TypeOK
  <2> QED
    BY <2>1 DEF WeakSafe
<1> QED
  BY <1>11, <1>12, <1>13, <1>14, <1>15, <1>16, <1>17, <1>18 DEF IInv

LEMMA NewKeeps ==
  ASSUME IInv, NEW x \in Addr, NEW t \in {"OBJECT", "ARRAY_REF"}, NEW h \in Addr,
         NEW part \in {"weak", "none", "strong", "header"}, New(x, t, h, part)
  PROVE  IInv'
<1>1. /\ Top.op = "run" /\ x \notin live
      /\ live' = live \cup {x} /\ tag' = [tag EXCEPT ![x] = t]
      /\ ref_count' = [ref_count EXCEPT ![x] = 1]
      /\ strong' = [strong EXCEPT ![x] = Null] /\ weak' = [weak EXCEPT ![x] = Null]
      /\ work' = Append(work, Value(x))
      /\ at_slot' = IF part = "none" THEN at_slot ELSE [at_slot EXCEPT ![h] = Slot(part, x)]
      /\ UNCHANGED <<program, weak_references, static, active_destructors, freed_twice>>
  BY DEF New, At
<1>o. part # "none" /\ at_slot[h].block \in live => FALSE
  BY DEF New, Lies, Usual, Unused
<1>2. /\ TypeOK /\ Counted /\ Dead /\ Tagged /\ Active /\ Stores /\ WeakSafe /\ FreedOnce
      /\ Stack(work, live, Settled) /\ IsFiniteSet(live)
      /\ live \subseteq Addr /\ active_destructors \subseteq Addr
      /\ ref_count \in [Addr -> Nat]
  BY DEF IInv, TypeOK, Tagged
<1>3. ref_count[x] = 0 /\ OwnerCount(x) = 0 /\ PathClaim(x) = 0
  BY <1>1, <1>2 DEF Counted, CountedAt
<1> DEFINE f == Value(x)
<1>4. f \in Frames /\ f.op = "value" /\ f.val = x
  BY DEF Value, Frames, Refs
<1> HIDE DEF f
<1>5. Stack(work', live, Settled) /\ Grows(work, work', f)
  <2>1. Fits(work, live, Settled, f)
    BY <1>1, <1>4 DEF Fits, On, Same, Top
  <2>2. f \in Frames
    BY <1>4
  <2> QED
    BY <1>1, <1>2, <2>1, <2>2, Pushed DEF f
<1>6. ASSUME NEW a \in Addr
      PROVE  /\ Times(work', a) = Times(work, a) + Number(x = a) /\ Times(work, a) \in Nat
             /\ PathHeld(work', a) <=> PathHeld(work, a)
             /\ \A op \in Kinds : Waits(work', op, a) <=> Waits(work, op, a)
  <2>1. Holds(f, a) <=> x = a
    BY <1>4, WhatHolds
  <2>2. f.op \notin Kinds /\ f.op # "SET_PROPERTY"
    BY <1>4 DEF Kinds
  <2> QED
    BY <1>5, <2>1, <2>2, OwnerType DEF Grows, Number
<1>7. ASSUME NEW a \in Addr
      PROVE  /\ Waits(work', "SET_PROPERTY", a) <=> Waits(work, "SET_PROPERTY", a)
             /\ Waits(work', "after invoke_destructor", a)
                  <=> Waits(work, "after invoke_destructor", a)
             /\ Waits(work', "after object_destructor", a)
                  <=> Waits(work, "after object_destructor", a)
  BY <1>6 DEF Kinds
<1>8. WaitsStatic(work') <=> WaitsStatic(work)
  BY <1>4, <1>5 DEF Grows
<1>9. ASSUME NEW a \in Addr
      PROVE  /\ OwnerCount(a)' = OwnerCount(a) + Number(x = a) /\ PathClaim(a)' = PathClaim(a)
             /\ OwnerCount(a) \in Nat /\ Number(x = a) \in {0, 1} /\ PathClaim(a) \in {0, 1}
  <2>1. SlotSet(live', strong', work', a) = SlotSet(live, strong, work, a)
    <3>1. strong \in [Addr -> Refs]
      BY <1>2 DEF TypeOK
    <3> QED
      BY <1>1, <1>2, <1>7, <3>1, NullAssumption DEF SlotSet
  <2>2. StaticCount(static', work', a) = StaticCount(static, work, a)
    BY <1>1, <1>8 DEF StaticCount
  <2>3. Times(work', a) = Times(work, a) + Number(x = a) /\ Number(x = a) \in {0, 1}
    BY <1>6 DEF Number
  <2>4. OwnerCount(a)' = OwnerCount(a) + Number(x = a)
    BY <2>1, <2>2, <2>3, OwnersAre
  <2>5. PathHeld(work', a) <=> PathHeld(work, a)
    BY <1>6
  <2>6. PathClaim(a)' = PathClaim(a)
    BY <2>5 DEF PathClaim, Number
  <2> QED
    BY <2>3, <2>4, <2>6, OwnerType
<1>10. /\ ref_count' \in [Addr -> Nat] /\ ref_count'[x] = 1
       /\ \A a \in Addr : a # x => ref_count'[a] = ref_count[a]
  BY <1>1, <1>2
<1>11. Counted'
  <2>1. Leaky' = Leaky
    BY <1>1 DEF Leaky
  <2>2. ASSUME NEW a \in Addr PROVE CountedAt(a)'
    <3>1. CountedAt(a)
      BY <1>2 DEF Counted
    <3>2. CASE a = x
      <4>1. OwnerCount(a)' = 1 /\ PathClaim(a)' = 0 /\ a \in live' /\ ref_count'[a] = 1
        BY <1>1, <1>3, <1>9, <1>10, <3>2 DEF Number
      <4> QED
        BY <4>1 DEF CountedAt
    <3>3. CASE a # x
      <4>1. /\ OwnerCount(a)' = OwnerCount(a) /\ PathClaim(a)' = PathClaim(a)
            /\ a \in live' <=> a \in live
            /\ ref_count'[a] = ref_count[a]
        BY <1>1, <1>9, <1>10, <3>3 DEF Number
      <4> QED
        BY <2>1, <3>1, <4>1 DEF CountedAt
    <3> QED
      BY <3>2, <3>3
  <2> QED
    BY <2>2 DEF Counted
<1>12. Stack(work', live', Settled')
  <2>1. ASSUME NEW a \in Settled, a # x PROVE a \in Settled'
    <3>1. a \in Addr
      BY DEF Settled
    <3>2. OwnerCount(a)' = OwnerCount(a) /\ ref_count'[a] = ref_count[a]
      BY <1>9, <1>10, <2>1, <3>1 DEF Number
    <3> QED
      BY <3>1, <3>2 DEF Settled
  <2>2. ASSUME NEW a \in Addr, Waits(work', "after object_destructor", a)
        PROVE  (a \in live => a \in live') /\ (a \in Settled => a \in Settled')
    <3>1. a \in live
      BY <1>5, <2>2, CheckedIsLive
    <3> QED
      BY <1>1, <2>1, <3>1
  <2> QED
    BY <1>5, <2>2, Rechecked
<1>13. Dead'
  <2>1. ASSUME NEW a \in live', ref_count'[a] = 0
        PROVE  strong'[a] = Null /\ Waits(work', "after object_destructor", a)
    <3>1. a \in live /\ a # x /\ a \in Addr
      BY <1>1, <1>2, <1>10, <2>1
    <3>2. ref_count[a] = 0
      BY <1>10, <2>1, <3>1
    <3>3. strong[a] = Null /\ Waits(work, "after object_destructor", a)
      BY <1>2, <3>1, <3>2 DEF Dead
    <3> QED
      BY <1>1, <1>2, <1>7, <3>1, <3>3 DEF TypeOK
  <2> QED
    BY <2>1 DEF Dead
<1>14. Active'
  <2>1. \A a \in active_destructors : Waits(work', "after invoke_destructor", a)
    BY <1>2, <1>7 DEF Active
  <2> QED
    BY <1>1, <2>1 DEF Active
<1>15. Stores'
  <2>1. ASSUME NEW holder \in Addr, Waits(work', "SET_PROPERTY", holder) PROVE tag'[holder] = "OBJECT"
    <3>1. Waits(work, "SET_PROPERTY", holder)
      BY <1>7, <2>1
    <3>2. holder # x /\ tag[holder] = "OBJECT"
      BY <1>1, <1>2, <3>1, StoredIsLive DEF Stores
    <3> QED
      BY <1>1, <1>2, <3>2 DEF TypeOK
  <2> QED
    BY <2>1 DEF Stores
<1>16. TypeOK'
  <2>1. /\ weak' \in [Addr -> Refs] /\ strong' \in [Addr -> Refs]
    BY <1>1, <1>2 DEF TypeOK, Refs
  <2>2. live' \subseteq Addr /\ tag' \in [Addr -> {"RAW", "OBJECT", "ARRAY_REF"}]
    BY <1>1, <1>2 DEF TypeOK
  <2>3. at_slot' \in [Addr -> [part : {"weak", "strong", "header"}, block : Addr]]
    BY <1>1, <1>2 DEF TypeOK, Slot
  <2>4. /\ ref_count' \in [Addr -> Nat] /\ program' \in Programs /\ static' \in Refs
        /\ weak_references' \in [Addr -> SUBSET Addr] /\ active_destructors' \subseteq Addr
        /\ freed_twice' \in BOOLEAN
    BY <1>1, <1>2 DEF TypeOK
  <2>5. work' \in Seq(Frames) /\ Len(work') > 0 /\ work'[1].op = "run"
    BY <1>12 DEF Stack, Framed
  <2> QED
    BY <2>1, <2>2, <2>3, <2>4, <2>5 DEF TypeOK
<1>17. Tagged' /\ FreedOnce'
  <2>1. IsFiniteSet(live')
    BY <1>1, <1>2, FS_AddElement
  <2>2. \A a \in Addr : a \in live' <=> tag'[a] # "RAW"
    BY <1>1, <1>2 DEF Tagged, TypeOK
  <2> QED
    BY <1>1, <1>2, <2>1, <2>2 DEF Tagged, FreedOnce
<1>18. WeakSafe'
  <2>1. ASSUME NEW g \in live', tag'[g] = "OBJECT", weak'[g] # Null
        PROVE  /\ weak'[g] \in live' /\ g \in weak_references'[weak'[g]]
               /\ at_slot'[g] = Slot("weak", g)
    <3>1. g \in Addr /\ g # x /\ g \in live
      BY <1>1, <1>2, <2>1 DEF TypeOK
    <3>2. weak'[g] = weak[g] /\ tag[g] = "OBJECT"
      BY <1>1, <1>2, <2>1, <3>1 DEF TypeOK
    <3>3. /\ weak[g] \in live /\ g \in weak_references[weak[g]]
          /\ at_slot[g] = Slot("weak", g)
      BY <1>2, <2>1, <3>1, <3>2 DEF WeakSafe
    <3>4. at_slot[g].block = g
      BY <3>3 DEF Slot
    <3>5. at_slot'[g] = at_slot[g]
      BY <1>1, <1>2, <1>o, <3>1, <3>4 DEF TypeOK
    <3> QED
      BY <1>1, <3>2, <3>3, <3>5
  <2> QED
    BY <2>1 DEF WeakSafe
<1> QED
  BY <1>11, <1>12, <1>13, <1>14, <1>15, <1>16, <1>17, <1>18 DEF IInv

-----------------------------------------------------------------------------
(* The invariant is inductive. *)

LEMMA InitIInv ==
  ASSUME Init
  PROVE  IInv
<1> DEFINE f == Activation(Null, Null)
<1>1. f \in Frames /\ f.op = "run" /\ f.this = Null /\ f.local = Null
  BY DEF Activation, Frames, Refs
<1>2. /\ program \in Programs /\ live = {} /\ tag = [a \in Addr |-> "RAW"]
      /\ ref_count = [a \in Addr |-> 0] /\ strong = [a \in Addr |-> Null]
      /\ weak = [a \in Addr |-> Null] /\ weak_references = [a \in Addr |-> {}]
      /\ at_slot = [h \in Addr |-> Slot("weak", h)]
      /\ static = Null /\ active_destructors = {} /\ work = <<f>> /\ freed_twice = FALSE
  BY DEF Init
<1> HIDE DEF f
<1>3. work \in Seq(Frames) /\ Len(work) = 1 /\ work[1] = f
  BY <1>1, <1>2
<1>4. \A i \in 1..Len(work) : i = 1
  BY <1>3
<1>5. TypeOK
  <2>1. /\ program \in Programs /\ live \subseteq Addr
        /\ tag \in [Addr -> {"RAW", "OBJECT", "ARRAY_REF"}] /\ ref_count \in [Addr -> Nat]
        /\ freed_twice \in BOOLEAN /\ active_destructors \subseteq Addr
    BY <1>2
  <2>2. /\ strong \in [Addr -> Refs] /\ weak \in [Addr -> Refs] /\ static \in Refs
        /\ weak_references \in [Addr -> SUBSET Addr]
        /\ at_slot \in [Addr -> [part : {"weak", "strong", "header"}, block : Addr]]
    BY <1>2 DEF Refs, Slot
  <2>3. Len(work) > 0 /\ work[1].op = "run"
    BY <1>1, <1>3
  <2> QED
    BY <1>3, <2>1, <2>2, <2>3 DEF TypeOK
<1>6. Stack(work, live, Settled)
  <2>1. Framed(work)
    BY <1>1, <1>3 DEF Framed
  <2>2. Once(work)
    BY <1>4 DEF Once
  <2>3. Checks(work, live, Settled)
    BY <1>1, <1>3, <1>4 DEF Checks
  <2> QED
    BY <1>3, <2>1, <2>2, <2>3 DEF Stack
<1>7. ASSUME NEW a \in Addr
      PROVE  /\ \A op \in Kinds : ~Waits(work, op, a)
             /\ OwnerCount(a) = 0 /\ PathClaim(a) = 0
  <2>1. ASSUME NEW op \in Kinds PROVE ~Waits(work, op, a)
    BY <1>1, <1>3, <1>4 DEF Waits, Kinds
  <2>2. Times(work, a) = 0
    <3>1. ~Holds(f, a)
      BY <1>1, NullAssumption, WhatHolds
    <3> QED
      BY <1>3, <1>4, <3>1, TimesFinite
  <2>3. SlotSet(live, strong, work, a) = {}
    BY <1>2 DEF SlotSet
  <2>4. StaticCount(static, work, a) = 0
    BY <1>2, NullAssumption DEF StaticCount, Number
  <2>5. OwnerCount(a) = 0
    BY <2>2, <2>3, <2>4, FS_EmptySet DEF OwnerCount
  <2>6. ~PathHeld(work, a)
    BY <1>1, <1>3, <1>4 DEF PathHeld
  <2>7. PathClaim(a) = 0
    BY <2>6 DEF PathClaim, Number
  <2> QED
    BY <2>1, <2>5, <2>7
<1>8. Counted
  BY <1>2, <1>7 DEF Counted, CountedAt
<1>9. Dead /\ Active
  BY <1>2 DEF Dead, Active
<1>10. Tagged
  BY <1>2, FS_EmptySet DEF Tagged
<1>11. Stores
  BY <1>7 DEF Stores, Kinds
<1>12. WeakSafe /\ FreedOnce
  BY <1>2 DEF WeakSafe, FreedOnce
<1> QED
  BY <1>5, <1>6, <1>8, <1>9, <1>10, <1>11, <1>12 DEF IInv

LEMMA StutterKeeps ==
  ASSUME IInv, UNCHANGED vars
  PROVE  IInv'
<1>1. UNCHANGED <<program, live, tag, ref_count, strong, weak, weak_references, at_slot,
                  static, active_destructors, work, freed_twice>>
  BY DEF vars, weaks
<1>2. Settled' = Settled /\ Counted' = Counted
  BY <1>1 DEF Settled, Counted, CountedAt, OwnerCount, PathClaim, Leaky
<1>3. TypeOK' /\ Dead' /\ Tagged' /\ Active' /\ Stores' /\ WeakSafe' /\ FreedOnce'
  BY <1>1 DEF IInv, TypeOK, Dead, Tagged, Active, Stores, WeakSafe, FreedOnce
<1> QED
  BY <1>1, <1>2, <1>3 DEF IInv

LEMMA NextIInv ==
  ASSUME Careful, IInv, [Next]_vars
  PROVE  IInv'
<1>1. ASSUME NEW v \in Addr \cup {Null}, Load(v) PROVE IInv'
  BY <1>1, LoadKeeps DEF Refs
<1>2. ASSUME NEW a \in Addr, NEW h \in Addr, NEW t \in {"OBJECT", "ARRAY_REF"},
             NEW part \in {"weak", "none", "strong", "header"}, New(a, t, h, part)
      PROVE  IInv'
  BY <1>2, NewKeeps
<1>3. CASE AssignLocal
  BY <1>3, AssignLocalKeeps
<1>4. ASSUME NEW o \in Addr, AssignField(o) PROVE IInv'
  BY <1>4, AssignFieldKeeps
<1>5. ASSUME NEW o \in Addr, AssignThroughPath(o) PROVE IInv'
  BY <1>5, AssignThroughPathKeeps
<1>6. ASSUME NEW o \in Addr, AssignElement(o) PROVE IInv'
  BY <1>6, AssignElementKeeps
<1>7. ASSUME NEW o \in Addr, AssignWeak(o) PROVE IInv'
  BY <1>7, AssignWeakKeeps
<1>8. CASE AssignStatic
  BY <1>8, AssignStaticKeeps
<1>9. CASE AssignStaticByName
  BY <1>9, AssignStaticByNameKeeps
<1>10. CASE StoreProperty
  BY <1>10, StorePropertyKeeps
<1>11. CASE StoreGlobal
  BY <1>11, StoreGlobalKeeps
<1>12. CASE Return
  BY <1>12, ReturnKeeps
<1>13. CASE Decrement
  BY <1>13, DecrementKeeps
<1>14. CASE InvokeDestructor
  BY <1>14, InvokeDestructorKeeps
<1>15. CASE ReleaseChildren
  BY <1>15, ReleaseChildrenKeeps
<1>16. CASE FinishDestructor
  BY <1>16, FinishDestructorKeeps
<1>17. CASE Deallocate
  BY <1>17, DeallocateKeeps
<1>18. CASE Survive
  BY <1>18, SurviveKeeps
<1>19. CASE UNCHANGED vars
  BY <1>19, StutterKeeps
<1> QED
  BY <1>1, <1>2, <1>3, <1>4, <1>5, <1>6, <1>7, <1>8, <1>9, <1>10, <1>11, <1>12, <1>13,
     <1>14, <1>15, <1>16, <1>17, <1>18, <1>19 DEF Next

LEMMA Invariance ==
  ASSUME Careful
  PROVE  Spec => []IInv
<1>1. Init => IInv
  BY InitIInv
<1>2. IInv /\ [Next]_vars => IInv'
  BY NextIInv
<1> QED
  BY <1>1, <1>2, PTL DEF Spec

-----------------------------------------------------------------------------
(* The owners, counted. *)

Tags(kind, S) == {<<kind, i>> : i \in S}

LEMMA TagsCounted ==
  ASSUME NEW kind, NEW S, IsFiniteSet(S)
  PROVE  IsFiniteSet(Tags(kind, S)) /\ Cardinality(Tags(kind, S)) = Cardinality(S)
<1> DEFINE m == [i \in S |-> <<kind, i>>]
<1>1. m \in Bijection(S, Tags(kind, S))
  BY DEF Bijection, Injection, Surjection, IsInjective, Tags
<1>2. ExistsBijection(S, Tags(kind, S))
  BY <1>1 DEF ExistsBijection
<1> QED
  BY <1>2, FS_Bijection

LEMMA Apart ==
  ASSUME NEW A, NEW B, IsFiniteSet(A), IsFiniteSet(B), A \cap B = {}
  PROVE  /\ IsFiniteSet(A \cup B)
         /\ Cardinality(A \cup B) = Cardinality(A) + Cardinality(B)
<1>1. /\ IsFiniteSet(A \cup B)
      /\ Cardinality(A \cup B) = Cardinality(A) + Cardinality(B) - Cardinality(A \cap B)
  BY FS_Union
<1>2. Cardinality(A) \in Nat /\ Cardinality(B) \in Nat /\ Cardinality(A \cap B) = 0
  BY FS_CardinalityType, FS_EmptySet
<1> QED
  BY <1>1, <1>2

LEMMA OwnersCounted ==
  ASSUME IInv, NEW a \in Addr
  PROVE  /\ IsFiniteSet(Owners(a)) /\ Cardinality(Owners(a)) = OwnerCount(a)
<1> DEFINE W == {i \in 1..Len(work) : Holds(work[i], a)}
           S == SlotSet(live, strong, work, a)
           G == {0} \cap (IF static = a /\ ~WaitsStatic(work) THEN {0} ELSE {})
<1>1. /\ DOMAIN work = 1..Len(work) /\ work \in Seq(Frames)
      /\ live \subseteq Addr /\ IsFiniteSet(live)
  BY DEF IInv, TypeOK, Tagged
<1>2. Owners(a) = (Tags("work", W) \cup Tags("strong", S)) \cup Tags("static", G)
  <2>1. \A h \in live : Pending(h) <=> Waits(work, "SET_PROPERTY", h)
    BY <1>1 DEF Pending, Waits
  <2>2. PendingStatic <=> WaitsStatic(work)
    BY <1>1 DEF PendingStatic, WaitsStatic
  <2>3. {h \in live : strong[h] = a /\ ~Pending(h)} = S
    BY <2>1 DEF SlotSet
  <2>4. {0} \cap (IF static = a /\ ~PendingStatic THEN {0} ELSE {}) = G
    BY <2>2
  <2>5. {<<"static", 0>> : s \in G} = Tags("static", G)
    BY DEF Tags
  <2> HIDE DEF S, G
  <2> QED
    BY <1>1, <2>3, <2>4, <2>5 DEF Owners, Tags
<1>3. IsFiniteSet(W) /\ Cardinality(W) = Times(work, a)
  BY <1>1, TimesFinite DEF Times
<1>4. IsFiniteSet(S) /\ Cardinality(S) = Cardinality(SlotSet(live, strong, work, a))
  BY <1>1, SlotsFinite
<1>5. IsFiniteSet(G) /\ Cardinality(G) = StaticCount(static, work, a)
  <2>1. G = IF static = a /\ ~WaitsStatic(work) THEN {0} ELSE {}
    OBVIOUS
  <2>2. IsFiniteSet({0}) /\ Cardinality({0}) = 1 /\ IsFiniteSet({}) /\ Cardinality({}) = 0
    BY FS_Singleton, FS_EmptySet
  <2> HIDE DEF G
  <2> QED
    BY <2>1, <2>2 DEF StaticCount, Number
<1> HIDE DEF W, S, G
<1> DEFINE TW == Tags("work", W)
           TS == Tags("strong", S)
           TG == Tags("static", G)
<1>6. /\ IsFiniteSet(TW) /\ Cardinality(TW) = Cardinality(W)
      /\ IsFiniteSet(TS) /\ Cardinality(TS) = Cardinality(S)
      /\ IsFiniteSet(TG) /\ Cardinality(TG) = Cardinality(G)
  BY <1>3, <1>4, <1>5, TagsCounted
<1>7. TW \cap TS = {} /\ (TW \cup TS) \cap TG = {}
  BY DEF Tags
<1> HIDE DEF TW, TS, TG
<1>8. IsFiniteSet(TW \cup TS) /\ Cardinality(TW \cup TS) = Cardinality(TW) + Cardinality(TS)
  BY <1>6, <1>7, Apart
<1>9. /\ IsFiniteSet((TW \cup TS) \cup TG)
      /\ Cardinality((TW \cup TS) \cup TG) = Cardinality(TW \cup TS) + Cardinality(TG)
  BY <1>6, <1>7, <1>8, Apart
<1>10. Owners(a) = (TW \cup TS) \cup TG
  BY <1>2 DEF TW, TS, TG
<1> QED
  BY <1>3, <1>4, <1>5, <1>6, <1>8, <1>9, <1>10 DEF OwnerCount

-----------------------------------------------------------------------------
(* Theorems. *)

(* Every variable keeps its type, and main stays at the bottom of the stack. *)
THEOREM TypeCorrect ==
  ASSUME Careful
  PROVE  Spec => []TypeOK
<1>1. IInv => TypeOK
  BY DEF IInv
<1> QED
  BY <1>1, Invariance, PTL

(* The count in a header (retain, decrease_reference, object_destructor) covers
   every owner of the block and, in programs that do not lose references, is
   exactly their number; nothing that is not allocated is owned. *)
THEOREM CountIsExact ==
  ASSUME Careful
  PROVE  Spec => []CountExact
<1>1. ASSUME IInv PROVE CountExact
  <2>1. ASSUME NEW a \in Addr
        PROVE  /\ Cardinality(Owners(a)) <= (IF a \in live THEN ref_count[a] ELSE 0)
               /\ a \in live /\ ~Leaky => ref_count[a] = Cardinality(Owners(a))
    <3>1. Cardinality(Owners(a)) = OwnerCount(a) /\ OwnerCount(a) \in Nat
      BY <1>1, OwnersCounted, OwnerType
    <3>2. CountedAt(a) /\ PathClaim(a) \in {0, 1} /\ ref_count[a] \in Nat
      BY <1>1, OwnerType DEF IInv, Counted
    <3> QED
      BY <3>1, <3>2 DEF CountedAt
  <2> QED
    BY <2>1 DEF CountExact
<1> QED
  BY <1>1, Invariance, PTL

(* deallocate() is never called on a block that is free: a count that reaches
   zero does so once, resurrections and nested destructors included. *)
THEOREM FreedAtMostOnce ==
  ASSUME Careful
  PROVE  Spec => []FreedOnce
<1>1. IInv => FreedOnce
  BY DEF IInv
<1> QED
  BY <1>1, Invariance, PTL

(* Between two statements of main every block that is allocated has an owner:
   reference counting frees what is not owned at once. *)
THEOREM NoneLeftBehind ==
  ASSUME Careful
  PROVE  Spec => []NoOrphan
<1>1. ASSUME IInv PROVE NoOrphan
  <2>1. ASSUME ~Leaky, Len(work) = 1, NEW a \in live PROVE Owners(a) # {}
    <3>1. a \in Addr /\ CountedAt(a)
      BY <1>1 DEF IInv, TypeOK, Counted
    <3>2. work[1].op = "run"
      BY <1>1 DEF IInv, TypeOK
    <3>3. ~Waits(work, "after object_destructor", a)
      <4>1. \A i \in 1..Len(work) : i = 1
        BY <2>1
      <4> QED
        BY <3>2, <4>1 DEF Waits
    <3>4. ref_count[a] # 0
      BY <1>1, <3>3 DEF IInv, Dead
    <3>5. OwnerCount(a) # 0
      BY <2>1, <3>1, <3>4 DEF CountedAt
    <3> QED
      BY <1>1, <3>1, <3>5, OwnersCounted, FS_EmptySet
  <2> QED
    BY <2>1 DEF NoOrphan
<1> QED
  BY <1>1, Invariance, PTL

(* The weak field of an object is null or leads to an allocated block that has
   the field registered, whatever is freed and in whatever order. *)
THEOREM WeakIsSafe ==
  ASSUME Careful
  PROVE  Spec => []WeakSafe
<1>1. IInv => WeakSafe
  BY DEF IInv
<1> QED
  BY <1>1, Invariance, PTL
=============================================================================
