-------------------------- MODULE UnwindingLevels --------------------------
(***************************************************************************)
(* What the proofs about Unwinding say of the code that leaves the blocks  *)
(* of one frame: for each block, which of the outer ones the code still to *)
(* be executed releases, and that every instruction keeps it so.           *)
(***************************************************************************)
EXTENDS Unwinding, SequenceTheorems, WellFoundedInduction, TLAPS

(* Types. *)
ScopeRecords ==
  [kind : Kinds, slot : Obj \cup {Null}, owns : BOOLEAN, declared : BOOLEAN,
   of : Try \cup {Null}, exc : Obj \cup {Null}, after : Code]
Scopings == Seq(ScopeRecords)

(* A variable that has its reference if it has anything, and one that has it
   if it was declared in this iteration. *)
Intact(scope) == scope.slot # Null => scope.owns
Untouched(scope) == scope.declared => scope.owns

ScopeOK(scope) ==
  /\ scope.owns => scope.declared
  /\ scope.declared => scope.slot # Null
  /\ scope.exc # Null => scope.kind = "catch"
  /\ scope.after # <<>> => scope.kind = "finally"
  /\ scope.after # <<DropOperand>>
  /\ scope.kind = "finally" => scope.of # Null
  /\ scope.of # Null => scope.kind \in {"try", "catch", "finally"}

Final == {"leave", "unwind", "break", "continue", "RETURN"}
EndsIn(c, ops) == c # <<>> /\ c[Len(c)].op \in ops
Releases(c, i) == \E k \in DOMAIN c : c[k] = DecRefSlot(i)
Released(c, i) == \E k \in DOMAIN c : c[k].op = "DEC_REF_SLOT" /\ c[k].scope = i

(* The code c that is left at level i of blocks s: i - 1 of them are open. *)

(* The blocks that no return statement is leaving. *)
Live(s, i) == {j \in 1 .. i - 1 : \A k \in j + 1 .. i - 1 : ~Returning(s[k])}

(* What any code that leaves blocks looks like. *)
Written(s, i, c) ==
  /\ \A k \in DOMAIN c : c[k].op \in Final <=> k = Len(c)
  /\ \A k, l \in DOMAIN c : c[k] = c[l] => k = l
  /\ \A k \in DOMAIN c :
       /\ c[k].op # "DEC_REF_OPERAND"
       /\ c[k].op = "DEC_REF_CAUGHT" => EndsIn(c, {"leave"}) /\ c[k].scope = 0
       /\ c[k].op = "finally" => EndsIn(c, {"RETURN"})
       /\ c[k].op = "DEC_REF_SLOT" => c[k].scope \in 1 .. i - 1 /\ Intact(s[c[k].scope])
       /\ c[k].op \in {"leave", "unwind", "RETURN", "CALL_SUPER"} => c[k].scope = 0

LeaveCode(s, i, c) ==
  EndsIn(c, {"leave"}) =>
    /\ i > 2
    /\ \A j \in 1 .. i - 2 : ~Released(c, j)
    /\ \A j \in Live(s, i) : j < i - 1 => Untouched(s[j])
    /\ s[i - 1].owns => Releases(c, i - 1)
    /\ s[i - 1].exc # Null => \E k \in DOMAIN c : c[k].op = "DEC_REF_CAUGHT"

UnwindCode(s, i, c) ==
  EndsIn(c, {"unwind"}) =>
    /\ i > 1
    /\ \A j \in 1 .. i - 2 : ~Released(c, j)
    /\ \A j \in Live(s, i) : j < i - 1 => Intact(s[j])
    /\ s[i - 1].owns => Releases(c, i - 1)

LoopCode(s, i, c) ==
  EndsIn(c, {"break", "continue"}) =>
    /\ c[Len(c)].scope \in 1 .. i - 1 /\ s[c[Len(c)].scope].kind = "loop"
    /\ \A k \in 1 .. c[Len(c)].scope - 1 : ~Released(c, k)
    /\ \A k \in Live(s, i) : k < c[Len(c)].scope => Untouched(s[k])
    /\ \A k \in c[Len(c)].scope .. i - 1 :
         /\ s[k].kind # "finally"
         /\ s[k].owns => Releases(c, k)
         /\ s[k].exc # Null => "catch" \in Habits
         /\ HasFinally(s[k]) => "jump" \in Habits

ReturnCode(s, i, c, rs) ==
  EndsIn(c, {"RETURN"}) =>
    /\ \A j \in 1 .. i - 1 :
         /\ s[j].kind # "finally"
         /\ s[j].owns => Releases(c, j)
         /\ s[j].exc # Null => "catch" \in Habits
         /\ HasFinally(s[j]) => rs[s[j].of] = 1 \/ \E k \in DOMAIN c : c[k] = Finally(j)
    /\ \A k \in DOMAIN c : c[k].op = "finally" =>
         c[k].scope \in 1 .. i - 1 /\ HasFinally(s[c[k].scope]) /\ rs[s[c[k].scope].of] = 0

(* Statements that no return statement is leaving have not run their finally. *)
Unrun(s, i, c, rs) ==
  ~EndsIn(c, {"RETURN"}) => \A j \in Live(s, i) : HasFinally(s[j]) => rs[s[j].of] = 0

Statement(s, i, c) ==
  c \in {<<>>, <<DropOperand>>} => \A j \in Live(s, i) : Untouched(s[j])

LevelOK(s, i, c, rs) ==
  /\ c = <<DropOperand>> \/ Written(s, i, c)
  /\ LeaveCode(s, i, c) /\ UnwindCode(s, i, c) /\ LoopCode(s, i, c)
  /\ ReturnCode(s, i, c, rs) /\ Unrun(s, i, c, rs) /\ Statement(s, i, c)

ScopesOK(s, rs) ==
  /\ s # <<>>
  /\ \A i \in DOMAIN s : ScopeOK(s[i]) /\ (s[i].kind = "body" <=> i = 1)
  /\ \A i \in DOMAIN s : s[i].kind = "finally" => LevelOK(s, i, s[i].after, rs)

(* The innermost level of a frame with all those below it. *)
Level(s, c, rs) ==
  s \in Scopings /\ c \in Code /\ ScopesOK(s, rs) /\ LevelOK(s, Len(s) + 1, c, rs)

-----------------------------------------------------------------------------
(* Code and the blocks it leaves. *)

LEMMA ScopingType ==
  ASSUME NEW s \in Scopings
  PROVE  /\ Len(s) \in Nat /\ DOMAIN s = 1 .. Len(s)
         /\ \A j \in DOMAIN s : s[j] \in ScopeRecords
<1> DEFINE T == ScopeRecords
<1>1. s \in Seq(T)
  BY DEF Scopings
<1> HIDE DEF T
<1> QED
  BY <1>1 DEF T

LEMMA CodeTail ==
  ASSUME NEW c \in Code, c # <<>>
  PROVE  /\ Tail(c) \in Code /\ Len(c) \in Nat \ {0} /\ Len(Tail(c)) = Len(c) - 1
         /\ DOMAIN c = 1 .. Len(c) /\ DOMAIN Tail(c) = 1 .. Len(Tail(c))
         /\ \A k \in DOMAIN Tail(c) : k \in Nat /\ k + 1 \in DOMAIN c /\ Tail(c)[k] = c[k + 1]
         /\ \A k \in DOMAIN c : k # 1 => k - 1 \in DOMAIN Tail(c) /\ Tail(c)[k - 1] = c[k]
         /\ \A k \in DOMAIN c : k \in 1 .. Len(c) /\ c[k] \in [op : Ops, scope : Nat]
         /\ Head(c) = c[1] /\ 1 \in DOMAIN c /\ Len(c) \in DOMAIN c
<1> DEFINE T == [op : Ops, scope : Nat]
<1>1. c \in Seq(T)
  BY DEF Code
<1> HIDE DEF T
<1>2. /\ Tail(c) \in Seq(T) /\ Len(c) \in Nat \ {0} /\ Len(Tail(c)) = Len(c) - 1
      /\ DOMAIN c = 1 .. Len(c) /\ DOMAIN Tail(c) = 1 .. Len(c) - 1
      /\ \A k \in 1 .. Len(c) - 1 : Tail(c)[k] = c[k + 1]
      /\ \A k \in 1 .. Len(c) : c[k] \in T
      /\ Head(c) = c[1]
  BY <1>1
<1>3. /\ \A k \in 1 .. Len(c) - 1 : k \in Nat /\ k + 1 \in 1 .. Len(c)
      /\ \A k \in 1 .. Len(c) : k # 1 => k - 1 \in 1 .. Len(c) - 1 /\ (k - 1) + 1 = k
      /\ 1 \in 1 .. Len(c) /\ Len(c) \in 1 .. Len(c)
  BY <1>2
<1>4. \A k \in 1 .. Len(c) : k # 1 => Tail(c)[k - 1] = c[k]
  BY <1>2, <1>3
<1> QED
  BY <1>2, <1>3, <1>4 DEF T, Code

(* What is left at a level depends on the blocks below it only. *)
LEMMA SamePrefix ==
  ASSUME NEW s \in Scopings, NEW z \in Scopings, NEW i \in Nat,
         i - 1 <= Len(s), i - 1 <= Len(z), \A j \in 1 .. i - 1 : z[j] = s[j],
         NEW c \in Code, NEW rs, NEW rz,
         \A j \in 1 .. i - 1 : HasFinally(s[j]) => rz[s[j].of] = rs[s[j].of],
         LevelOK(s, i, c, rs)
  PROVE  LevelOK(z, i, c, rz)
<1>1. Live(z, i) = Live(s, i) /\ \A j \in Live(s, i) : j \in 1 .. i - 1
  BY DEF Live
<1>2. ASSUME Written(s, i, c) PROVE Written(z, i, c)
  BY <1>2 DEF Written
<1>3. LeaveCode(z, i, c)
  <2>1. i > 2 => i - 1 \in 1 .. i - 1
    OBVIOUS
  <2> QED
    BY <1>1, <2>1 DEF LevelOK, LeaveCode
<1>4. UnwindCode(z, i, c)
  <2>1. i > 1 => i - 1 \in 1 .. i - 1
    OBVIOUS
  <2> QED
    BY <1>1, <2>1 DEF LevelOK, UnwindCode
<1>5. LoopCode(z, i, c)
  <2> SUFFICES ASSUME EndsIn(c, {"break", "continue"}) PROVE LoopCode(z, i, c)
    BY DEF LoopCode
  <2>1. PICK j : j = c[Len(c)].scope
    OBVIOUS
  <2>2. /\ j \in 1 .. i - 1 /\ s[j].kind = "loop"
        /\ \A k \in 1 .. j - 1 : ~Released(c, k)
        /\ \A k \in Live(s, i) : k < j => Untouched(s[k])
        /\ \A k \in j .. i - 1 :
             /\ s[k].kind # "finally"
             /\ s[k].owns => Releases(c, k)
             /\ s[k].exc # Null => "catch" \in Habits
             /\ HasFinally(s[k]) => "jump" \in Habits
    BY <2>1 DEF LevelOK, LoopCode
  <2>3. \A k \in j .. i - 1 : k \in 1 .. i - 1
    BY <2>2
  <2> QED
    BY <1>1, <2>1, <2>2, <2>3 DEF LoopCode
<1>6. ReturnCode(z, i, c, rz)
  BY DEF LevelOK, ReturnCode
<1>7. Unrun(z, i, c, rz)
  BY <1>1 DEF LevelOK, Unrun
<1>8. Statement(z, i, c)
  BY <1>1 DEF LevelOK, Statement
<1> QED
  BY <1>2, <1>3, <1>4, <1>5, <1>6, <1>7, <1>8 DEF LevelOK

(* Nothing is left to do, at a statement. *)
LEMMA NoCode ==
  ASSUME NEW s \in Scopings, NEW i \in Nat, NEW rs,
         \A j \in Live(s, i) : Untouched(s[j]) /\ (HasFinally(s[j]) => rs[s[j].of] = 0)
  PROVE  LevelOK(s, i, <<>>, rs)
BY DEF LevelOK, Written, LeaveCode, UnwindCode, LoopCode, ReturnCode, Unrun, Statement, EndsIn

LEMMA AtStatement ==
  ASSUME NEW s \in Scopings, NEW i \in Nat, NEW rs, NEW c, c = <<>> \/ c = <<DropOperand>>,
         LevelOK(s, i, c, rs)
  PROVE  \A j \in Live(s, i) : Untouched(s[j]) /\ (HasFinally(s[j]) => rs[s[j].of] = 0)
<1>1. Len(<<DropOperand>>) = 1 /\ <<DropOperand>>[1].op = "DEC_REF_OPERAND"
  BY DEF DropOperand
<1>2. ~EndsIn(c, {"RETURN"})
  BY <1>1 DEF EndsIn
<1> QED
  BY <1>2 DEF LevelOK, Unrun, Statement

(* The operand of a call that returned is left. *)
LEMMA OperandCode ==
  ASSUME NEW s \in Scopings, NEW i \in Nat, NEW rs,
         \A j \in Live(s, i) : Untouched(s[j]) /\ (HasFinally(s[j]) => rs[s[j].of] = 0)
  PROVE  LevelOK(s, i, <<DropOperand>>, rs)
BY DEF LevelOK, LeaveCode, UnwindCode, LoopCode, ReturnCode, Unrun, Statement, EndsIn, DropOperand

(* The code of the exception cleanup. *)
LEMMA CleanupCode ==
  ASSUME NEW s \in Scopings, NEW m \in Nat \ {0}, m <= Len(s), NEW rs,
         \A j \in Live(s, m + 1) : Intact(s[j]) /\ (HasFinally(s[j]) => rs[s[j].of] = 0)
  PROVE  LevelOK(s, m + 1, CleanupOf(m), rs) /\ CleanupOf(m) \in Code
<1>1. PICK c : c = CleanupOf(m)
  OBVIOUS
<1>2. /\ c \in Code /\ Len(c) = 2 /\ DOMAIN c = {1, 2} /\ c # <<>>
      /\ c[1] = DecRefSlot(m) /\ c[2] = Unwind
      /\ c[1].op = "DEC_REF_SLOT" /\ c[1].scope = m /\ c[2].op = "unwind" /\ c[2].scope = 0
  BY <1>1 DEF CleanupOf, DecRefSlot, Unwind, Code, Ops
<1>3. m \in Live(s, m + 1) /\ Live(s, m + 1) \subseteq 1 .. m /\ (m + 1) - 1 = m
  BY DEF Live
<1>4. EndsIn(c, {"unwind"})
  BY <1>2 DEF EndsIn, Unwind
<1>5. /\ ~EndsIn(c, {"leave"}) /\ ~EndsIn(c, {"RETURN"}) /\ ~EndsIn(c, {"break", "continue"})
  BY <1>2 DEF EndsIn, Unwind
<1>6. Written(s, m + 1, c)
  <2>1. \A k \in DOMAIN c : c[k].op \in Final <=> k = Len(c)
    BY <1>2 DEF DecRefSlot, Unwind, Final
  <2>2. c[1].op # c[2].op
    BY <1>2 DEF DecRefSlot, Unwind
  <2>3. \A k, l \in DOMAIN c : c[k] = c[l] => k = l
    BY <1>2, <2>2
  <2>4. ASSUME NEW k \in DOMAIN c
        PROVE  /\ c[k].op # "DEC_REF_OPERAND"
               /\ c[k].op = "DEC_REF_CAUGHT" => EndsIn(c, {"leave"}) /\ c[k].scope = 0
               /\ c[k].op = "finally" => EndsIn(c, {"RETURN"})
               /\ c[k].op = "DEC_REF_SLOT" => c[k].scope \in 1 .. (m + 1) - 1 /\ Intact(s[c[k].scope])
               /\ c[k].op \in {"leave", "unwind", "RETURN", "CALL_SUPER"} => c[k].scope = 0
    <3>1. CASE k = 1
      BY <1>2, <1>3, <3>1
    <3>2. CASE k = 2
      BY <1>2, <3>2
    <3> QED
      BY <1>2, <3>1, <3>2
  <2> QED
    BY <2>1, <2>3, <2>4 DEF Written
<1>7. UnwindCode(s, m + 1, c)
  <2>1. \A j \in 1 .. (m + 1) - 2 : ~Released(c, j)
    BY <1>2 DEF Released, DecRefSlot, Unwind
  <2>2. Releases(c, m)
    BY <1>2 DEF Releases
  <2> QED
    BY <1>3, <2>1, <2>2 DEF UnwindCode
<1>8. c # <<>> /\ c # <<DropOperand>>
  <2>1. Len(<<DropOperand>>) = 1
    OBVIOUS
  <2> QED
    BY <1>2, <2>1
<1> QED
  BY <1>1, <1>2, <1>5, <1>6, <1>7, <1>8
  DEF LevelOK, LeaveCode, LoopCode, ReturnCode, Unrun, Statement


(* An instruction of the code is executed. *)
LEMMA TailWritten ==
  ASSUME NEW s \in Scopings, NEW i \in Nat, NEW c \in Code, c # <<>>,
         c[1].op \notin Final, Written(s, i, c)
  PROVE  /\ Len(c) > 1 /\ Tail(c) # <<>> /\ Tail(c) # <<DropOperand>>
         /\ \A ops : EndsIn(Tail(c), ops) <=> EndsIn(c, ops)
         /\ Tail(c)[Len(Tail(c))] = c[Len(c)]
         /\ \A k \in DOMAIN Tail(c) : c[k + 1] # c[1]
         /\ \A x : (\E k \in DOMAIN c : c[k] = x) => x = c[1] \/ \E k \in DOMAIN Tail(c) : Tail(c)[k] = x
         /\ \A j : Released(Tail(c), j) => Released(c, j)
         /\ \A z : (\A k \in DOMAIN Tail(c) : Tail(c)[k].op = "DEC_REF_SLOT" => Intact(z[Tail(c)[k].scope]))
                    => Written(z, i, Tail(c))
<1>1. PICK d : d = Tail(c)
  OBVIOUS
<1>2. /\ d \in Code /\ Len(c) \in Nat \ {0} /\ Len(d) = Len(c) - 1
      /\ DOMAIN c = 1 .. Len(c) /\ DOMAIN d = 1 .. Len(d)
      /\ \A k \in DOMAIN d : k \in Nat /\ k + 1 \in DOMAIN c /\ d[k] = c[k + 1]
      /\ \A k \in DOMAIN c : k # 1 => k - 1 \in DOMAIN d /\ d[k - 1] = c[k]
      /\ \A k \in DOMAIN c : k \in 1 .. Len(c) /\ c[k] \in [op : Ops, scope : Nat]
      /\ 1 \in DOMAIN c /\ Len(c) \in DOMAIN c
  BY <1>1, CodeTail
<1>3. 1 # Len(c)
  BY <1>2 DEF Written
<1>4. Len(c) > 1 /\ d # <<>>
  BY <1>2, <1>3 DEF Code
<1>5. d[Len(d)] = c[Len(c)]
  BY <1>2, <1>3
<1>6. \A k \in DOMAIN d : c[k + 1] # c[1]
  <2> SUFFICES ASSUME NEW k \in DOMAIN d PROVE c[k + 1] # c[1]
    OBVIOUS
  <2>1. k \in Nat /\ k \in 1 .. Len(d) /\ k + 1 # 1
    BY <1>2
  <2>2. k + 1 \in DOMAIN c /\ 1 \in DOMAIN c
    BY <1>2
  <2> QED
    BY <2>1, <2>2 DEF Written
<1>7. \A ops : EndsIn(d, ops) <=> EndsIn(c, ops)
  BY <1>4, <1>5 DEF EndsIn
<1>8. d # <<DropOperand>>
  <2> SUFFICES ASSUME d = <<DropOperand>> PROVE FALSE
    OBVIOUS
  <2>1. Len(<<DropOperand>>) = 1 /\ <<DropOperand>>[1].op = "DEC_REF_OPERAND"
    BY DEF DropOperand
  <2>2. 1 \in DOMAIN d /\ d[1].op = "DEC_REF_OPERAND"
    BY <1>2, <2>1
  <2>3. 1 + 1 \in DOMAIN c /\ c[1 + 1].op = "DEC_REF_OPERAND"
    BY <1>2, <2>2
  <2> QED
    BY <2>3 DEF Written
<1>9. \A x : (\E k \in DOMAIN c : c[k] = x) => x = c[1] \/ \E k \in DOMAIN d : d[k] = x
  BY <1>2
<1>10. \A j : Released(d, j) => Released(c, j)
  BY <1>2 DEF Released
<1>11. ASSUME NEW z, \A k \in DOMAIN d : d[k].op = "DEC_REF_SLOT" => Intact(z[d[k].scope])
       PROVE  Written(z, i, d)
  <2>1. \A m \in DOMAIN d : d[m].op \in Final <=> m = Len(d)
    <3> SUFFICES ASSUME NEW m \in DOMAIN d PROVE d[m].op \in Final <=> m = Len(d)
      OBVIOUS
    <3>1. m \in Nat /\ m + 1 \in DOMAIN c /\ d[m] = c[m + 1] /\ (m + 1 = Len(c) <=> m = Len(d))
      BY <1>2
    <3> QED
      BY <3>1 DEF Written
  <2>2. \A m, n \in DOMAIN d : d[m] = d[n] => m = n
    <3> SUFFICES ASSUME NEW m \in DOMAIN d, NEW n \in DOMAIN d, d[m] = d[n] PROVE m = n
      OBVIOUS
    <3>1. m \in Nat /\ n \in Nat /\ c[m + 1] = c[n + 1] /\ m + 1 \in DOMAIN c /\ n + 1 \in DOMAIN c
      BY <1>2
    <3>2. m + 1 = n + 1
      BY <3>1 DEF Written
    <3> QED
      BY <3>1, <3>2
  <2>3. ASSUME NEW m \in DOMAIN d
        PROVE  /\ d[m].op # "DEC_REF_OPERAND"
               /\ d[m].op = "DEC_REF_CAUGHT" => EndsIn(d, {"leave"}) /\ d[m].scope = 0
               /\ d[m].op = "finally" => EndsIn(d, {"RETURN"})
               /\ d[m].op = "DEC_REF_SLOT" => d[m].scope \in 1 .. i - 1 /\ Intact(z[d[m].scope])
               /\ d[m].op \in {"leave", "unwind", "RETURN", "CALL_SUPER"} => d[m].scope = 0
    <3>1. m + 1 \in DOMAIN c /\ d[m] = c[m + 1]
      BY <1>2
    <3> QED
      BY <1>7, <1>11, <3>1 DEF Written
  <2> QED
    BY <2>1, <2>2, <2>3 DEF Written
<1> QED
  BY <1>1, <1>4, <1>5, <1>6, <1>7, <1>8, <1>9, <1>10, <1>11

(* A variable is released. *)
LEMMA TailRelease ==
  ASSUME NEW s \in Scopings, NEW i \in Nat, i - 1 <= Len(s), NEW c \in Code, c # <<>>, NEW rs,
         c[1].op = "DEC_REF_SLOT", LevelOK(s, i, c, rs)
  PROVE  /\ c[1].scope \in 1 .. i - 1 /\ Intact(s[c[1].scope])
         /\ LevelOK([s EXCEPT ![c[1].scope].owns = FALSE], i, Tail(c), rs)
<1>1. c # <<DropOperand>> /\ 1 \in DOMAIN c
  <2>1. <<DropOperand>>[1].op = "DEC_REF_OPERAND"
    BY DEF DropOperand
  <2> QED
    BY <2>1, CodeTail
<1>2. Written(s, i, c)
  BY <1>1 DEF LevelOK
<1>3. PICK d, k : d = Tail(c) /\ k = c[1].scope
  OBVIOUS
<1>4. k \in 1 .. i - 1 /\ Intact(s[k]) /\ k \in DOMAIN s
  <2>1. k \in 1 .. i - 1 /\ Intact(s[k])
    BY <1>1, <1>2, <1>3 DEF Written
  <2>2. DOMAIN s = 1 .. Len(s) /\ Len(s) \in Nat
    BY DEF Scopings
  <2> QED
    BY <2>1, <2>2
<1>5. PICK z : z = [s EXCEPT ![k].owns = FALSE]
  OBVIOUS
<1>6. /\ DOMAIN z = DOMAIN s
      /\ \A j \in DOMAIN s : j # k => z[j] = s[j]
      /\ z[k] = [s[k] EXCEPT !.owns = FALSE]
  BY <1>4, <1>5
<1>7. s[k] \in ScopeRecords /\ \A j \in 1 .. i - 1 : j \in DOMAIN s /\ s[j] \in ScopeRecords
  BY <1>4 DEF Scopings
<1>8. /\ z[k].owns = FALSE /\ z[k].kind = s[k].kind /\ z[k].after = s[k].after
      /\ z[k].slot = s[k].slot /\ z[k].exc = s[k].exc /\ z[k].of = s[k].of
  BY <1>6, <1>7 DEF ScopeRecords
<1>9. \A j \in DOMAIN s : /\ Returning(z[j]) = Returning(s[j]) /\ HasFinally(z[j]) = HasFinally(s[j])
                          /\ z[j].kind = s[j].kind /\ z[j].of = s[j].of /\ z[j].exc = s[j].exc
                          /\ z[j].owns => s[j].owns /\ j # k
  BY <1>6, <1>8 DEF Returning, HasFinally
<1>10. Live(z, i) = Live(s, i) /\ \A j \in Live(s, i) : j \in 1 .. i - 1
  BY <1>7, <1>9 DEF Live
<1>11. c[1].op \notin Final
  BY DEF Final
<1>12. /\ Len(c) > 1 /\ d # <<>> /\ d # <<DropOperand>> /\ d \in Code
       /\ \A ops : EndsIn(d, ops) <=> EndsIn(c, ops)
       /\ d[Len(d)] = c[Len(c)]
       /\ \A m \in DOMAIN d : c[m + 1] # c[1]
       /\ \A x : (\E m \in DOMAIN c : c[m] = x) => x = c[1] \/ \E m \in DOMAIN d : d[m] = x
       /\ \A j : Released(d, j) => Released(c, j)
  <2>1. /\ Len(c) > 1 /\ Tail(c) # <<>> /\ Tail(c) # <<DropOperand>>
        /\ \A ops : EndsIn(Tail(c), ops) <=> EndsIn(c, ops)
        /\ Tail(c)[Len(Tail(c))] = c[Len(c)]
        /\ \A m \in DOMAIN Tail(c) : c[m + 1] # c[1]
        /\ \A x : (\E m \in DOMAIN c : c[m] = x) => x = c[1] \/ \E m \in DOMAIN Tail(c) : Tail(c)[m] = x
        /\ \A j : Released(Tail(c), j) => Released(c, j)
    BY <1>2, <1>11, TailWritten
  <2>2. Tail(c) \in Code
    BY CodeTail
  <2> QED
    BY <1>3, <2>1, <2>2
<1>13. /\ Len(c) \in Nat \ {0} /\ Len(d) = Len(c) - 1
       /\ \A m \in DOMAIN d : m \in Nat /\ m + 1 \in DOMAIN c /\ d[m] = c[m + 1]
       /\ \A m \in DOMAIN c : m \in 1 .. Len(c) /\ c[m] \in [op : Ops, scope : Nat]
  BY <1>3, CodeTail
<1>14. \A j : j # k /\ Releases(c, j) => Releases(d, j)
  <2>1. \A j : j # k => DecRefSlot(j) # c[1]
    BY <1>3 DEF DecRefSlot
  <2> QED
    BY <1>12, <2>1 DEF Releases
<1>15. \A j \in 1 .. i - 1 : z[j].owns => (Releases(c, j) => Releases(d, j))
  BY <1>7, <1>9, <1>14
<1>16. Written(z, i, d)
  <2>1. ASSUME NEW m \in DOMAIN d, d[m].op = "DEC_REF_SLOT" PROVE Intact(z[d[m].scope])
    <3>1. m + 1 \in DOMAIN c /\ d[m] = c[m + 1] /\ c[m + 1] # c[1]
      BY <1>12, <1>13
    <3>2. c[m + 1] \in [op : Ops, scope : Nat] /\ c[1] \in [op : Ops, scope : Nat]
      BY <1>1, <1>13, <3>1
    <3>3. d[m].scope # k
      BY <1>3, <2>1, <3>1, <3>2
    <3>4. d[m].scope \in 1 .. i - 1 /\ Intact(s[d[m].scope])
      BY <1>2, <2>1, <3>1 DEF Written
    <3> QED
      BY <1>6, <1>7, <3>3, <3>4
  <2> QED
    BY <1>2, <1>3, <1>11, <2>1, TailWritten
<1>17. Released(c, k)
  BY <1>1, <1>3 DEF Released
<1>18. LeaveCode(z, i, d)
  <2> SUFFICES ASSUME EndsIn(c, {"leave"}) PROVE LeaveCode(z, i, d)
    BY <1>12 DEF LeaveCode
  <2>1. /\ i > 2
        /\ \A j \in 1 .. i - 2 : ~Released(c, j)
        /\ \A j \in Live(s, i) : j < i - 1 => Untouched(s[j])
        /\ s[i - 1].owns => Releases(c, i - 1)
        /\ s[i - 1].exc # Null => \E m \in DOMAIN c : c[m].op = "DEC_REF_CAUGHT"
    BY DEF LevelOK, LeaveCode
  <2>2. k = i - 1
    <3>1. k \notin 1 .. i - 2
      BY <1>17, <2>1
    <3> QED
      BY <1>4, <3>1
  <2>3. ASSUME NEW j \in Live(s, i), j < i - 1 PROVE Untouched(z[j])
    <3>1. j \in DOMAIN s /\ j # k
      BY <1>7, <1>10, <2>2, <2>3
    <3> QED
      BY <1>6, <2>1, <2>3, <3>1
  <2>4. z[i - 1].exc # Null => \E m \in DOMAIN d : d[m].op = "DEC_REF_CAUGHT"
    <3>1. ASSUME NEW m \in DOMAIN c, c[m].op = "DEC_REF_CAUGHT" PROVE \E n \in DOMAIN d : d[n].op = "DEC_REF_CAUGHT"
      <4>1. c[m] # c[1]
        BY <3>1
      <4> QED
        BY <1>12, <3>1, <4>1
    <3> QED
      BY <1>8, <2>1, <2>2, <3>1
  <2> QED
    BY <1>8, <1>10, <1>12, <2>1, <2>2, <2>3, <2>4 DEF LeaveCode
<1>19. UnwindCode(z, i, d)
  <2> SUFFICES ASSUME EndsIn(c, {"unwind"}) PROVE UnwindCode(z, i, d)
    BY <1>12 DEF UnwindCode
  <2>1. /\ i > 1
        /\ \A j \in 1 .. i - 2 : ~Released(c, j)
        /\ \A j \in Live(s, i) : j < i - 1 => Intact(s[j])
        /\ s[i - 1].owns => Releases(c, i - 1)
    BY DEF LevelOK, UnwindCode
  <2>2. k = i - 1
    <3>1. k \notin 1 .. i - 2
      BY <1>17, <2>1
    <3> QED
      BY <1>4, <3>1
  <2>3. \A j \in Live(s, i) : j < i - 1 => Intact(z[j])
    BY <1>6, <1>7, <1>10, <2>1, <2>2
  <2> QED
    BY <1>8, <1>10, <1>12, <2>1, <2>2, <2>3 DEF UnwindCode
<1>20. LoopCode(z, i, d)
  <2> SUFFICES ASSUME EndsIn(c, {"break", "continue"}) PROVE LoopCode(z, i, d)
    BY <1>12 DEF LoopCode
  <2>1. PICK j : j = c[Len(c)].scope
    OBVIOUS
  <2>2. /\ j \in 1 .. i - 1 /\ s[j].kind = "loop"
        /\ \A m \in 1 .. j - 1 : ~Released(c, m)
        /\ \A m \in Live(s, i) : m < j => Untouched(s[m])
        /\ \A m \in j .. i - 1 :
             /\ s[m].kind # "finally"
             /\ s[m].owns => Releases(c, m)
             /\ s[m].exc # Null => "catch" \in Habits
             /\ HasFinally(s[m]) => "jump" \in Habits
    BY <2>1 DEF LevelOK, LoopCode
  <2>3. k \in j .. i - 1 /\ \A m \in j .. i - 1 : m \in 1 .. i - 1
    BY <1>4, <1>17, <2>2
  <2>4. \A m \in Live(s, i) : m < j => Untouched(z[m])
    BY <1>6, <1>7, <1>10, <2>2, <2>3
  <2>5. \A m \in j .. i - 1 :
             /\ z[m].kind # "finally"
             /\ z[m].owns => Releases(d, m)
             /\ z[m].exc # Null => "catch" \in Habits
             /\ HasFinally(z[m]) => "jump" \in Habits
    BY <1>7, <1>9, <1>15, <2>2, <2>3
  <2> QED
    BY <1>7, <1>9, <1>10, <1>12, <2>1, <2>2, <2>4, <2>5 DEF LoopCode
<1>21. ReturnCode(z, i, d, rs)
  <2> SUFFICES ASSUME EndsIn(c, {"RETURN"}) PROVE ReturnCode(z, i, d, rs)
    BY <1>12 DEF ReturnCode
  <2>1. \A j \in 1 .. i - 1 :
         /\ s[j].kind # "finally"
         /\ s[j].owns => Releases(c, j)
         /\ s[j].exc # Null => "catch" \in Habits
         /\ HasFinally(s[j]) => rs[s[j].of] = 1 \/ \E m \in DOMAIN c : c[m] = Finally(j)
    BY DEF LevelOK, ReturnCode
  <2>2. \A m \in DOMAIN c : c[m].op = "finally" =>
         c[m].scope \in 1 .. i - 1 /\ HasFinally(s[c[m].scope]) /\ rs[s[c[m].scope].of] = 0
    BY DEF LevelOK, ReturnCode
  <2>3. \A j : Finally(j) # c[1]
    BY DEF Finally
  <2>4. \A j \in 1 .. i - 1 :
         /\ z[j].kind # "finally"
         /\ z[j].owns => Releases(d, j)
         /\ z[j].exc # Null => "catch" \in Habits
         /\ HasFinally(z[j]) => rs[z[j].of] = 1 \/ \E m \in DOMAIN d : d[m] = Finally(j)
    BY <1>7, <1>9, <1>12, <1>15, <2>1, <2>3
  <2>5. \A m \in DOMAIN d : d[m].op = "finally" =>
         c[m + 1].scope \in 1 .. i - 1 /\ HasFinally(z[d[m].scope]) /\ rs[z[d[m].scope].of] = 0
    BY <1>7, <1>9, <1>13, <2>2
  <2>6. \A m \in DOMAIN d : d[m].op = "finally" =>
         d[m].scope \in 1 .. i - 1 /\ HasFinally(z[d[m].scope]) /\ rs[z[d[m].scope].of] = 0
    BY <1>13, <2>5
  <2> QED
    BY <2>4, <2>6 DEF ReturnCode
<1>22. Unrun(z, i, d, rs) /\ Statement(z, i, d)
  BY <1>7, <1>9, <1>10, <1>12 DEF Unrun, Statement, LevelOK
<1> QED
  BY <1>3, <1>4, <1>5, <1>16, <1>18, <1>19, <1>20, <1>21, <1>22 DEF LevelOK


(* The exception that was caught is released. *)
LEMMA TailCaught ==
  ASSUME NEW s \in Scopings, NEW i \in Nat, i - 1 <= Len(s), NEW c \in Code, c # <<>>, NEW rs,
         c[1].op = "DEC_REF_CAUGHT", LevelOK(s, i, c, rs)
  PROVE  /\ i > 2
         /\ LevelOK([s EXCEPT ![i - 1].exc = Null], i, Tail(c), rs)
<1>1. c # <<DropOperand>> /\ 1 \in DOMAIN c
  <2>1. <<DropOperand>>[1].op = "DEC_REF_OPERAND"
    BY DEF DropOperand
  <2> QED
    BY <2>1, CodeTail
<1>2. Written(s, i, c)
  BY <1>1 DEF LevelOK
<1>3. PICK d, k : d = Tail(c) /\ k = i - 1
  OBVIOUS
<1>4. EndsIn(c, {"leave"})
  BY <1>1, <1>2 DEF Written
<1>5. /\ i > 2
      /\ \A j \in 1 .. i - 2 : ~Released(c, j)
      /\ \A j \in Live(s, i) : j < i - 1 => Untouched(s[j])
      /\ s[k].owns => Releases(c, k)
  BY <1>3, <1>4 DEF LevelOK, LeaveCode
<1>6. k \in 1 .. i - 1 /\ k \in DOMAIN s /\ \A j \in 1 .. i - 1 : j \in DOMAIN s /\ s[j] \in ScopeRecords
  <2>1. DOMAIN s = 1 .. Len(s) /\ Len(s) \in Nat /\ \A j \in DOMAIN s : s[j] \in ScopeRecords
    BY ScopingType
  <2> QED
    BY <1>3, <1>5, <2>1
<1>7. PICK z : z = [s EXCEPT ![k].exc = Null]
  OBVIOUS
<1>8. /\ DOMAIN z = DOMAIN s
      /\ \A j \in DOMAIN s : j # k => z[j] = s[j]
      /\ z[k] = [s[k] EXCEPT !.exc = Null]
  BY <1>6, <1>7
<1>9. /\ z[k].owns = s[k].owns /\ z[k].kind = s[k].kind /\ z[k].after = s[k].after
      /\ z[k].slot = s[k].slot /\ z[k].exc = Null /\ z[k].of = s[k].of /\ z[k].declared = s[k].declared
  BY <1>6, <1>8 DEF ScopeRecords
<1>10. \A j \in DOMAIN s : /\ Returning(z[j]) = Returning(s[j]) /\ HasFinally(z[j]) = HasFinally(s[j])
                           /\ z[j].of = s[j].of
                           /\ Intact(s[j]) => Intact(z[j])
                           /\ Untouched(s[j]) => Untouched(z[j])
  BY <1>8, <1>9 DEF Returning, HasFinally, Intact, Untouched
<1>11. Live(z, i) = Live(s, i) /\ \A j \in Live(s, i) : j \in 1 .. i - 1
  <2>1. \A n \in 1 .. i - 1 : Returning(z[n]) = Returning(s[n])
    BY <1>6, <1>10
  <2>2. ASSUME NEW j \in 1 .. i - 1 PROVE \A n \in j + 1 .. i - 1 : n \in 1 .. i - 1
    OBVIOUS
  <2> QED
    BY <2>1, <2>2 DEF Live
<1>12. /\ Len(c) > 1 /\ d # <<>> /\ d # <<DropOperand>> /\ d \in Code
       /\ \A ops : EndsIn(d, ops) <=> EndsIn(c, ops)
       /\ d[Len(d)] = c[Len(c)]
       /\ \A x : (\E m \in DOMAIN c : c[m] = x) => x = c[1] \/ \E m \in DOMAIN d : d[m] = x
       /\ \A j : Released(d, j) => Released(c, j)
  <2>1. c[1].op \notin Final
    BY DEF Final
  <2>2. /\ Len(c) > 1 /\ Tail(c) # <<>> /\ Tail(c) # <<DropOperand>>
        /\ \A ops : EndsIn(Tail(c), ops) <=> EndsIn(c, ops)
        /\ Tail(c)[Len(Tail(c))] = c[Len(c)]
        /\ \A x : (\E m \in DOMAIN c : c[m] = x) => x = c[1] \/ \E m \in DOMAIN Tail(c) : Tail(c)[m] = x
        /\ \A j : Released(Tail(c), j) => Released(c, j)
    BY <1>2, <2>1, TailWritten
  <2>3. Tail(c) \in Code
    BY CodeTail
  <2> QED
    BY <1>3, <2>2, <2>3
<1>13. /\ Len(c) \in Nat \ {0} /\ Len(d) = Len(c) - 1
       /\ \A m \in DOMAIN d : m \in Nat /\ m + 1 \in DOMAIN c /\ d[m] = c[m + 1]
       /\ \A m \in DOMAIN c : m \in 1 .. Len(c) /\ c[m] \in [op : Ops, scope : Nat]
  BY <1>3, CodeTail
<1>14. Written(z, i, d)
  <2>1. ASSUME NEW m \in DOMAIN d, d[m].op = "DEC_REF_SLOT" PROVE Intact(z[d[m].scope])
    <3>1. m + 1 \in DOMAIN c /\ d[m] = c[m + 1]
      BY <1>13
    <3>2. d[m].scope \in 1 .. i - 1 /\ Intact(s[d[m].scope])
      BY <1>2, <2>1, <3>1 DEF Written
    <3> QED
      BY <1>6, <1>10, <3>2
  <2>2. c[1].op \notin Final
    BY DEF Final
  <2> QED
    BY <1>2, <1>3, <2>1, <2>2, TailWritten
<1>15. LeaveCode(z, i, d)
  <2>1. ASSUME NEW j \in Live(s, i), j < i - 1 PROVE Untouched(z[j])
    <3>1. j \in DOMAIN s /\ Untouched(s[j])
      BY <1>5, <1>6, <1>11, <2>1
    <3> QED
      BY <1>10, <3>1
  <2>2. DecRefSlot(k) # c[1]
    BY DEF DecRefSlot
  <2>3. z[k].owns => Releases(d, k)
    BY <1>5, <1>9, <1>12, <2>2 DEF Releases
  <2> QED
    BY <1>3, <1>5, <1>9, <1>11, <1>12, <2>1, <2>3 DEF LeaveCode
<1>16. ~EndsIn(c, {"unwind"}) /\ ~EndsIn(c, {"break", "continue"}) /\ ~EndsIn(c, {"RETURN"})
  BY <1>4 DEF EndsIn
<1>17. UnwindCode(z, i, d) /\ LoopCode(z, i, d) /\ ReturnCode(z, i, d, rs)
  BY <1>12, <1>16 DEF UnwindCode, LoopCode, ReturnCode
<1>18. \A j \in Live(s, i) : HasFinally(s[j]) => rs[s[j].of] = 0
  BY <1>16 DEF LevelOK, Unrun
<1>19. Unrun(z, i, d, rs) /\ Statement(z, i, d)
  BY <1>6, <1>10, <1>11, <1>12, <1>18 DEF Unrun, Statement
<1> QED
  BY <1>3, <1>5, <1>7, <1>14, <1>15, <1>17, <1>19 DEF LevelOK

(* The destructor of the base is called. *)
LEMMA TailSuper ==
  ASSUME NEW s \in Scopings, NEW i \in Nat, NEW c \in Code, c # <<>>, NEW rs,
         c[1].op = "CALL_SUPER", LevelOK(s, i, c, rs)
  PROVE  /\ LevelOK(s, i, Tail(c), rs) /\ Tail(c) # <<>>
         /\ \A ops : EndsIn(Tail(c), ops) <=> EndsIn(c, ops)
<1>1. c # <<DropOperand>>
  <2>1. <<DropOperand>>[1].op = "DEC_REF_OPERAND"
    BY DEF DropOperand
  <2> QED
    BY <2>1
<1>2. Written(s, i, c)
  BY <1>1 DEF LevelOK
<1>3. PICK d : d = Tail(c)
  OBVIOUS
<1>4. c[1].op \notin Final
  BY DEF Final
<1>5. /\ d # <<>> /\ d # <<DropOperand>>
      /\ \A ops : EndsIn(d, ops) <=> EndsIn(c, ops)
      /\ d[Len(d)] = c[Len(c)]
      /\ \A x : (\E k \in DOMAIN c : c[k] = x) => x = c[1] \/ \E k \in DOMAIN d : d[k] = x
      /\ \A j : Released(d, j) => Released(c, j)
  <2>1. /\ Tail(c) # <<>> /\ Tail(c) # <<DropOperand>>
        /\ \A ops : EndsIn(Tail(c), ops) <=> EndsIn(c, ops)
        /\ Tail(c)[Len(Tail(c))] = c[Len(c)]
        /\ \A x : (\E k \in DOMAIN c : c[k] = x) => x = c[1] \/ \E k \in DOMAIN Tail(c) : Tail(c)[k] = x
        /\ \A j : Released(Tail(c), j) => Released(c, j)
    BY <1>2, <1>4, TailWritten
  <2> QED
    BY <1>3, <2>1
<1>6. \A m \in DOMAIN d : m + 1 \in DOMAIN c /\ d[m] = c[m + 1]
  BY <1>3, CodeTail
<1>7. Written(s, i, d)
  <2>1. ASSUME NEW m \in DOMAIN d, d[m].op = "DEC_REF_SLOT" PROVE Intact(s[d[m].scope])
    <3>1. m + 1 \in DOMAIN c /\ d[m] = c[m + 1]
      BY <1>6
    <3> QED
      BY <1>2, <2>1, <3>1 DEF Written
  <2> QED
    BY <1>2, <1>3, <1>4, <2>1, TailWritten
<1>8. \A j : Releases(c, j) => Releases(d, j)
  <2>1. \A j : DecRefSlot(j) # c[1]
    BY DEF DecRefSlot
  <2> QED
    BY <1>5, <2>1 DEF Releases
<1>9. LeaveCode(s, i, d)
  <2>1. ASSUME NEW m \in DOMAIN c, c[m].op = "DEC_REF_CAUGHT" PROVE \E k \in DOMAIN d : d[k].op = "DEC_REF_CAUGHT"
    <3>1. c[m] # c[1]
      BY <2>1
    <3> QED
      BY <1>5, <2>1, <3>1
  <2> QED
    BY <1>5, <1>8, <2>1 DEF LevelOK, LeaveCode
<1>10. UnwindCode(s, i, d)
  BY <1>5, <1>8 DEF LevelOK, UnwindCode
<1>11. LoopCode(s, i, d)
  BY <1>5, <1>8 DEF LevelOK, LoopCode
<1>12. ReturnCode(s, i, d, rs)
  <2> SUFFICES ASSUME EndsIn(c, {"RETURN"}) PROVE ReturnCode(s, i, d, rs)
    BY <1>5 DEF ReturnCode
  <2>1. \A j \in 1 .. i - 1 :
         /\ s[j].kind # "finally"
         /\ s[j].owns => Releases(c, j)
         /\ s[j].exc # Null => "catch" \in Habits
         /\ HasFinally(s[j]) => rs[s[j].of] = 1 \/ \E m \in DOMAIN c : c[m] = Finally(j)
    BY DEF LevelOK, ReturnCode
  <2>2. \A m \in DOMAIN c : c[m].op = "finally" =>
         c[m].scope \in 1 .. i - 1 /\ HasFinally(s[c[m].scope]) /\ rs[s[c[m].scope].of] = 0
    BY DEF LevelOK, ReturnCode
  <2>3. \A j : Finally(j) # c[1]
    BY DEF Finally
  <2>4. \A j \in 1 .. i - 1 :
         /\ s[j].kind # "finally"
         /\ s[j].owns => Releases(d, j)
         /\ s[j].exc # Null => "catch" \in Habits
         /\ HasFinally(s[j]) => rs[s[j].of] = 1 \/ \E m \in DOMAIN d : d[m] = Finally(j)
    BY <1>5, <1>8, <2>1, <2>3
  <2>5. \A m \in DOMAIN d : d[m].op = "finally" =>
         d[m].scope \in 1 .. i - 1 /\ HasFinally(s[d[m].scope]) /\ rs[s[d[m].scope].of] = 0
    BY <1>6, <2>2
  <2> QED
    BY <2>4, <2>5 DEF ReturnCode
<1>13. Unrun(s, i, d, rs) /\ Statement(s, i, d)
  BY <1>5 DEF LevelOK, Unrun, Statement
<1> QED
  BY <1>3, <1>5, <1>7, <1>9, <1>10, <1>11, <1>12, <1>13 DEF LevelOK

(* A finally block is entered on the way of a return statement. *)
LEMMA TailFinally ==
  ASSUME NEW s \in Scopings, NEW i \in Nat, i - 1 <= Len(s), NEW c \in Code, c # <<>>,
         NEW rs \in [Try -> Nat],
         c[1].op = "finally", LevelOK(s, i, c, rs),
         \A j, k \in 1 .. i - 1 : HasFinally(s[j]) /\ HasFinally(s[k]) /\ s[j].of = s[k].of => j = k
  PROVE  /\ c[1].scope \in 1 .. i - 1 /\ HasFinally(s[c[1].scope]) /\ rs[s[c[1].scope].of] = 0
         /\ LevelOK(s, i, Tail(c), [rs EXCEPT ![s[c[1].scope].of] = 1])
         /\ EndsIn(Tail(c), {"RETURN"}) /\ Tail(c) # <<DropOperand>>
<1>1. c # <<DropOperand>> /\ 1 \in DOMAIN c
  <2>1. <<DropOperand>>[1].op = "DEC_REF_OPERAND"
    BY DEF DropOperand
  <2> QED
    BY <2>1, CodeTail
<1>2. Written(s, i, c)
  BY <1>1 DEF LevelOK
<1>3. PICK d, k : d = Tail(c) /\ k = c[1].scope
  OBVIOUS
<1>4. EndsIn(c, {"RETURN"})
  BY <1>1, <1>2 DEF Written
<1>5. /\ \A j \in 1 .. i - 1 :
           /\ s[j].kind # "finally"
           /\ s[j].owns => Releases(c, j)
           /\ s[j].exc # Null => "catch" \in Habits
           /\ HasFinally(s[j]) => rs[s[j].of] = 1 \/ \E m \in DOMAIN c : c[m] = Finally(j)
      /\ \A m \in DOMAIN c : c[m].op = "finally" =>
           c[m].scope \in 1 .. i - 1 /\ HasFinally(s[c[m].scope]) /\ rs[s[c[m].scope].of] = 0
  BY <1>4 DEF LevelOK, ReturnCode
<1>6. k \in 1 .. i - 1 /\ HasFinally(s[k]) /\ rs[s[k].of] = 0
  BY <1>1, <1>3, <1>5
<1>7. \A j \in 1 .. i - 1 : j \in DOMAIN s /\ s[j] \in ScopeRecords
  BY DEF Scopings
<1>8. PICK t : t = s[k].of
  OBVIOUS
<1>9. t \in Try
  BY <1>6, <1>7, <1>8 DEF ScopeRecords, HasFinally
<1>10. PICK rz : rz = [rs EXCEPT ![t] = 1]
  OBVIOUS
<1>11. rz[t] = 1 /\ \A u \in Try : u # t => rz[u] = rs[u]
  BY <1>9, <1>10
<1>12. /\ Len(c) > 1 /\ d # <<>> /\ d # <<DropOperand>> /\ d \in Code
       /\ \A ops : EndsIn(d, ops) <=> EndsIn(c, ops)
       /\ \A m \in DOMAIN d : c[m + 1] # c[1]
       /\ \A x : (\E m \in DOMAIN c : c[m] = x) => x = c[1] \/ \E m \in DOMAIN d : d[m] = x
  <2>1. c[1].op \notin Final
    BY DEF Final
  <2>2. /\ Len(c) > 1 /\ Tail(c) # <<>> /\ Tail(c) # <<DropOperand>>
        /\ \A ops : EndsIn(Tail(c), ops) <=> EndsIn(c, ops)
        /\ \A m \in DOMAIN Tail(c) : c[m + 1] # c[1]
        /\ \A x : (\E m \in DOMAIN c : c[m] = x) => x = c[1] \/ \E m \in DOMAIN Tail(c) : Tail(c)[m] = x
    BY <1>2, <2>1, TailWritten
  <2>3. Tail(c) \in Code
    BY CodeTail
  <2> QED
    BY <1>3, <2>2, <2>3
<1>13. /\ Len(c) \in Nat \ {0} /\ Len(d) = Len(c) - 1
       /\ \A m \in DOMAIN d : m \in Nat /\ m + 1 \in DOMAIN c /\ d[m] = c[m + 1]
       /\ \A m \in DOMAIN c : m \in 1 .. Len(c) /\ c[m] \in [op : Ops, scope : Nat]
  BY <1>3, CodeTail
<1>14. Written(s, i, d)
  <2>1. ASSUME NEW m \in DOMAIN d, d[m].op = "DEC_REF_SLOT" PROVE Intact(s[d[m].scope])
    <3>1. m + 1 \in DOMAIN c /\ d[m] = c[m + 1]
      BY <1>13
    <3> QED
      BY <1>2, <2>1, <3>1 DEF Written
  <2>2. c[1].op \notin Final
    BY DEF Final
  <2> QED
    BY <1>2, <1>3, <2>1, <2>2, TailWritten
<1>15. ~EndsIn(c, {"unwind"}) /\ ~EndsIn(c, {"break", "continue"}) /\ ~EndsIn(c, {"leave"})
  BY <1>4 DEF EndsIn
<1>16. UnwindCode(s, i, d) /\ LoopCode(s, i, d) /\ LeaveCode(s, i, d)
  BY <1>12, <1>15 DEF UnwindCode, LoopCode, LeaveCode
<1>17. Unrun(s, i, d, rz) /\ Statement(s, i, d)
  BY <1>4, <1>12 DEF Unrun, Statement
<1>18. ReturnCode(s, i, d, rz)
  <2>1. ASSUME NEW j \in 1 .. i - 1
        PROVE  /\ s[j].kind # "finally"
               /\ s[j].owns => Releases(d, j)
               /\ s[j].exc # Null => "catch" \in Habits
               /\ HasFinally(s[j]) => rz[s[j].of] = 1 \/ \E m \in DOMAIN d : d[m] = Finally(j)
    <3>1. DecRefSlot(j) # c[1]
      BY DEF DecRefSlot
    <3>2. s[j].owns => Releases(d, j)
      BY <1>5, <1>12, <3>1 DEF Releases
    <3>3. ASSUME HasFinally(s[j]) PROVE rz[s[j].of] = 1 \/ \E m \in DOMAIN d : d[m] = Finally(j)
      <4>1. s[j].of \in Try
        BY <1>7, <3>3 DEF ScopeRecords, HasFinally
      <4>2. CASE s[j].of = t
        BY <1>11, <4>2
      <4>3. CASE s[j].of # t
        <5>1. Finally(j) # c[1]
          BY <1>3, <1>8, <4>3 DEF Finally
        <5> QED
          BY <1>5, <1>11, <1>12, <3>3, <4>1, <4>3, <5>1
      <4> QED
        BY <4>2, <4>3
    <3> QED
      BY <1>5, <3>2, <3>3
  <2>2. ASSUME NEW m \in DOMAIN d, d[m].op = "finally"
        PROVE  d[m].scope \in 1 .. i - 1 /\ HasFinally(s[d[m].scope]) /\ rz[s[d[m].scope].of] = 0
    <3>1. m + 1 \in DOMAIN c /\ d[m] = c[m + 1] /\ c[m + 1] # c[1]
      BY <1>12, <1>13
    <3>2. PICK j : j = d[m].scope
      OBVIOUS
    <3>3. j \in 1 .. i - 1 /\ HasFinally(s[j]) /\ rs[s[j].of] = 0
      BY <1>5, <2>2, <3>1, <3>2
    <3>4. c[m + 1] \in [op : Ops, scope : Nat] /\ c[1] \in [op : Ops, scope : Nat]
      BY <1>1, <1>13, <3>1
    <3>5. j # k
      BY <1>3, <2>2, <3>1, <3>2, <3>4
    <3>6. s[j].of # t
      BY <1>6, <1>8, <3>3, <3>5
    <3>7. s[j].of \in Try
      BY <1>7, <3>3 DEF ScopeRecords, HasFinally
    <3> QED
      BY <1>11, <3>2, <3>3, <3>6, <3>7
  <2> QED
    BY <2>1, <2>2 DEF ReturnCode
<1> QED
  BY <1>3, <1>4, <1>6, <1>8, <1>10, <1>12, <1>14, <1>16, <1>17, <1>18 DEF LevelOK


(* Induction, for a set. *)
LEMMA Induction ==
  ASSUME NEW S, 1 \in S, \A n \in Nat \ {0} : n \in S => n + 1 \in S
  PROVE  \A n \in Nat \ {0} : n \in S
<1> SUFFICES ASSUME NEW b \in Nat \ {0}, b \notin S PROVE FALSE
  OBVIOUS
<1> DEFINE R == {ss \in Nat \X Nat : ss[1] < ss[2]}
           N == {n \in Nat \ {0} : n \notin S}
<1>1. IsWellFoundedOn(R, Nat)
  BY NatLessThanWellFounded DEF OpToRel
<1>2. \A x \in Nat, y \in Nat : <<y, x>> \notin R => x <= y
  OBVIOUS
<1>3. N \in SUBSET Nat /\ N # {}
  OBVIOUS
<1> HIDE DEF R
<1>4. PICK x \in N : \A y \in N : <<y, x>> \notin R
  BY <1>1, <1>3, WFMin
<1>5. x \in Nat \ {0} /\ x \notin S /\ x # 1
  BY <1>4
<1>6. x - 1 \in Nat \ {0} /\ (x - 1) + 1 = x
  BY <1>5
<1>7. x - 1 \in N
  BY <1>5, <1>6
<1>8. x <= x - 1
  BY <1>2, <1>4, <1>5, <1>6, <1>7
<1> QED
  BY <1>5, <1>8

(* FlattenSeq concatenates. *)
LEMMA Flattened ==
  ASSUME NEW T, NEW seqs \in Seq(Seq(T)), seqs # <<>>
  PROVE  \E f \in [1 .. Len(seqs) -> Seq(T)] :
           /\ FlattenSeq(seqs) = f[Len(seqs)]
           /\ \A i \in 1 .. Len(seqs) : f[i] = IF i = 1 THEN seqs[i] ELSE f[i - 1] \o seqs[i]
<1>1. Len(seqs) \in Nat \ {0} /\ \A i \in 1 .. Len(seqs) : seqs[i] \in Seq(T)
  OBVIOUS
<1> DEFINE Steps(f, m) == \A i \in 1 .. m : f[i] = IF i = 1 THEN seqs[i] ELSE f[i - 1] \o seqs[i]
           Built(m) == \E f \in [1 .. m -> Seq(T)] : Steps(f, m)
           S == {m \in Nat : m \in 1 .. Len(seqs) => Built(m)}
<1>2. 1 \in S
  <2> SUFFICES Built(1)
    OBVIOUS
  <2> DEFINE f == [i \in 1 .. 1 |-> seqs[1]]
  <2>1. f \in [1 .. 1 -> Seq(T)] /\ Steps(f, 1)
    BY <1>1
  <2> QED
    BY <2>1
<1>3. ASSUME NEW n \in Nat \ {0}, n \in S PROVE n + 1 \in S
  <2> SUFFICES ASSUME n + 1 \in 1 .. Len(seqs) PROVE Built(n + 1)
    <3> HIDE DEF Built
    <3> QED
      OBVIOUS
  <2>1. n \in 1 .. Len(seqs)
    BY <1>1
  <2>2. PICK g \in [1 .. n -> Seq(T)] : Steps(g, n)
    BY <1>3, <2>1
  <2> DEFINE f == [i \in 1 .. n + 1 |-> IF i = n + 1 THEN g[n] \o seqs[n + 1] ELSE g[i]]
  <2>3. /\ n \in 1 .. n /\ \A i \in 1 .. n + 1 : i # n + 1 => i \in 1 .. n
        /\ \A i \in 1 .. n : i # 1 => i - 1 \in 1 .. n
        /\ \A i \in 1 .. n : i \in 1 .. n + 1 /\ i # n + 1
    OBVIOUS
  <2>4. g[n] \in Seq(T) /\ seqs[n + 1] \in Seq(T)
    BY <1>1, <2>3
  <2>5. g[n] \o seqs[n + 1] \in Seq(T)
    BY <2>4
  <2>6. f \in [1 .. n + 1 -> Seq(T)]
    BY <2>3, <2>5
  <2>7. \A i \in 1 .. n : f[i] = g[i]
    BY <2>3
  <2>8. n + 1 \in 1 .. n + 1 /\ n + 1 # 1 /\ (n + 1) - 1 = n
    OBVIOUS
  <2>9. f[n + 1] = f[n] \o seqs[n + 1]
    BY <2>3, <2>7, <2>8
  <2> HIDE DEF f
  <2>10. ASSUME NEW i \in 1 .. n + 1 PROVE f[i] = IF i = 1 THEN seqs[i] ELSE f[i - 1] \o seqs[i]
    <3>1. CASE i = n + 1
      BY <2>8, <2>9, <3>1
    <3>2. CASE i # n + 1
      <4>1. i \in 1 .. n /\ f[i] = g[i]
        BY <2>3, <2>7, <3>2
      <4>2. g[i] = IF i = 1 THEN seqs[i] ELSE g[i - 1] \o seqs[i]
        BY <2>2, <4>1
      <4> QED
        BY <2>3, <2>7, <4>1, <4>2
    <3> QED
      BY <3>1, <3>2
  <2> QED
    BY <2>6, <2>10
<1> HIDE DEF S
<1>4. Len(seqs) \in S
  BY <1>1, <1>2, <1>3, Induction
<1>5. PICK f \in [1 .. Len(seqs) -> Seq(T)] : Steps(f, Len(seqs))
  <2>1. Len(seqs) \in 1 .. Len(seqs)
    BY <1>1
  <2>2. Built(Len(seqs))
    <3> HIDE DEF Built
    <3> QED
      BY <1>4, <2>1 DEF S
  <2> QED
    BY <2>2
<1> DEFINE F(h) == [i \in 1 .. Len(seqs) |-> IF i = 1 THEN seqs[i] ELSE h[i - 1] \o seqs[i]]
           Fix == CHOOSE h : h = F(h)
<1>6. f = F(f)
  BY <1>5
<1>7. Fix = F(Fix)
  BY <1>6
<1>8. FlattenSeq(seqs) = Fix[Len(seqs)]
  BY <1>1 DEF FlattenSeq
<1> HIDE DEF Fix
<1>9. \A i \in 1 .. Len(seqs) : Fix[i] = IF i = 1 THEN seqs[i] ELSE Fix[i - 1] \o seqs[i]
  BY <1>7
<1> DEFINE E == {m \in Nat : m \in 1 .. Len(seqs) => Fix[m] = f[m]}
<1>10. 1 \in E
  BY <1>1, <1>5, <1>9
<1>11. ASSUME NEW n \in Nat \ {0}, n \in E PROVE n + 1 \in E
  <2> SUFFICES ASSUME n + 1 \in 1 .. Len(seqs) PROVE Fix[n + 1] = f[n + 1]
    OBVIOUS
  <2>1. n \in 1 .. Len(seqs) /\ n + 1 # 1 /\ (n + 1) - 1 = n
    BY <1>1
  <2>2. Fix[n] = f[n]
    BY <1>11, <2>1
  <2>3. Fix[n + 1] = Fix[n] \o seqs[n + 1]
    BY <1>9, <2>1
  <2>4. f[n + 1] = f[n] \o seqs[n + 1]
    BY <1>5, <2>1
  <2> QED
    BY <2>2, <2>3, <2>4
<1> HIDE DEF E
<1>12. Len(seqs) \in E
  BY <1>1, <1>10, <1>11, Induction
<1>13. Fix[Len(seqs)] = f[Len(seqs)]
  BY <1>1, <1>12 DEF E
<1> QED
  BY <1>5, <1>8, <1>13


(* The code of a return statement: every variable is released, and every
   finally block run, once. *)
Exits(d, n) ==
  /\ \A p \in DOMAIN d :
       /\ d[p].scope \in n .. Inner
       /\ \/ d[p] = DecRefSlot(d[p].scope)
          \/ d[p] = Finally(d[p].scope) /\ HasFinally(Scopes[d[p].scope])
  /\ \A j \in n .. Inner : /\ \E p \in DOMAIN d : d[p] = DecRefSlot(j)
                           /\ HasFinally(Scopes[j]) => \E p \in DOMAIN d : d[p] = Finally(j)
  /\ \A p, q \in DOMAIN d : d[p] = d[q] => p = q

LEMMA ExitsOne ==
  ASSUME NEW i \in Nat \ {0}
  PROVE  /\ ExitCode(i) \in Code /\ Len(ExitCode(i)) \in {1, 2}
         /\ ExitCode(i)[1] = DecRefSlot(i)
         /\ HasFinally(Scopes[i]) <=> Len(ExitCode(i)) = 2
         /\ HasFinally(Scopes[i]) => ExitCode(i)[2] = Finally(i)
<1> DEFINE T == [op : Ops, scope : Nat]
<1>1. DecRefSlot(i) \in T /\ Finally(i) \in T
  BY DEF DecRefSlot, Finally, Ops
<1> HIDE DEF T
<1>2. <<DecRefSlot(i)>> \in Seq(T) /\ <<Finally(i)>> \in Seq(T) /\ <<>> \in Seq(T)
  BY <1>1
<1>3. CASE HasFinally(Scopes[i])
  <2>1. ExitCode(i) = <<DecRefSlot(i)>> \o <<Finally(i)>>
    BY <1>3 DEF ExitCode
  <2>2. /\ ExitCode(i) \in Seq(T) /\ Len(ExitCode(i)) = 2
        /\ ExitCode(i)[1] = DecRefSlot(i) /\ ExitCode(i)[2] = Finally(i)
    BY <1>2, <2>1
  <2> QED
    BY <1>3, <2>2 DEF T, Code
<1>4. CASE ~HasFinally(Scopes[i])
  <2>1. ExitCode(i) = <<DecRefSlot(i)>> \o <<>>
    BY <1>4 DEF ExitCode
  <2>2. ExitCode(i) \in Seq(T) /\ Len(ExitCode(i)) = 1 /\ ExitCode(i)[1] = DecRefSlot(i)
    BY <1>2, <2>1
  <2> QED
    BY <1>4, <2>2 DEF T, Code
<1> QED
  BY <1>3, <1>4

LEMMA Appended ==
  ASSUME NEW T, NEW c \in Seq(T), NEW d \in Seq(T)
  PROVE  /\ c \o d \in Seq(T) /\ Len(c) \in Nat /\ Len(d) \in Nat /\ Len(c \o d) = Len(c) + Len(d)
         /\ DOMAIN c = 1 .. Len(c) /\ DOMAIN d = 1 .. Len(d) /\ DOMAIN (c \o d) = 1 .. Len(c) + Len(d)
         /\ \A p \in DOMAIN c : p \in DOMAIN (c \o d) /\ (c \o d)[p] = c[p]
         /\ \A p \in DOMAIN d : Len(c) + p \in DOMAIN (c \o d) /\ (c \o d)[Len(c) + p] = d[p]
         /\ \A p \in DOMAIN (c \o d) :
              \/ p \in DOMAIN c /\ (c \o d)[p] = c[p]
              \/ p - Len(c) \in DOMAIN d /\ (c \o d)[p] = d[p - Len(c)]
OBVIOUS

LEMMA ExitsMore ==
  ASSUME NEW n \in Nat \ {0}, n < Inner, Inner \in Nat, NEW c \in Code, Exits(c, n + 1)
  PROVE  Exits(c \o ExitCode(n), n)
<1>1. PICK e : e = ExitCode(n)
  OBVIOUS
<1>2. /\ e \in Code /\ Len(e) \in {1, 2} /\ e[1] = DecRefSlot(n)
      /\ HasFinally(Scopes[n]) <=> Len(e) = 2
      /\ HasFinally(Scopes[n]) => e[2] = Finally(n)
  BY <1>1, ExitsOne
<1>3. PICK d : d = c \o e
  OBVIOUS
<1>4. /\ d \in Code /\ Len(c) \in Nat
      /\ DOMAIN c = 1 .. Len(c) /\ DOMAIN e = 1 .. Len(e) /\ DOMAIN d = 1 .. Len(c) + Len(e)
      /\ \A p \in DOMAIN c : p \in DOMAIN d /\ d[p] = c[p]
      /\ \A p \in DOMAIN e : Len(c) + p \in DOMAIN d /\ d[Len(c) + p] = e[p]
      /\ \A p \in DOMAIN d : \/ p \in DOMAIN c /\ d[p] = c[p]
                             \/ p - Len(c) \in DOMAIN e /\ d[p] = e[p - Len(c)]
  <2> DEFINE T == [op : Ops, scope : Nat]
  <2>1. c \in Seq(T) /\ e \in Seq(T)
    BY <1>2 DEF Code
  <2> HIDE DEF T
  <2>2. /\ c \o e \in Seq(T) /\ Len(c) \in Nat
        /\ DOMAIN c = 1 .. Len(c) /\ DOMAIN e = 1 .. Len(e) /\ DOMAIN (c \o e) = 1 .. Len(c) + Len(e)
        /\ \A p \in DOMAIN c : p \in DOMAIN (c \o e) /\ (c \o e)[p] = c[p]
        /\ \A p \in DOMAIN e : Len(c) + p \in DOMAIN (c \o e) /\ (c \o e)[Len(c) + p] = e[p]
        /\ \A p \in DOMAIN (c \o e) : \/ p \in DOMAIN c /\ (c \o e)[p] = c[p]
                                      \/ p - Len(c) \in DOMAIN e /\ (c \o e)[p] = e[p - Len(c)]
    BY <2>1, Appended
  <2> QED
    BY <1>3, <2>2 DEF T, Code
<1>5. \A p \in DOMAIN e : \/ p = 1 /\ e[p] = DecRefSlot(n)
                          \/ p = 2 /\ e[p] = Finally(n) /\ HasFinally(Scopes[n])
  BY <1>2, <1>4
<1>6. \A p \in DOMAIN e : e[p].scope = n
  BY <1>5 DEF DecRefSlot, Finally
<1>7. \A p, q \in DOMAIN e : e[p] = e[q] => p = q
  <2>1. DecRefSlot(n) # Finally(n)
    <3>1. DecRefSlot(n).op # Finally(n).op
      BY DEF DecRefSlot, Finally
    <3> QED
      BY <3>1
  <2> QED
    BY <1>5, <2>1
<1>8. \A p \in DOMAIN c : c[p].scope \in n + 1 .. Inner
  BY DEF Exits
<1>9. ASSUME NEW p \in DOMAIN d
      PROVE  /\ d[p].scope \in n .. Inner
             /\ \/ d[p] = DecRefSlot(d[p].scope)
                \/ d[p] = Finally(d[p].scope) /\ HasFinally(Scopes[d[p].scope])
  <2>1. CASE p \in DOMAIN c /\ d[p] = c[p]
    <3>1. c[p].scope \in n .. Inner
      BY <1>8, <2>1
    <3> QED
      BY <2>1, <3>1 DEF Exits
  <2>2. CASE p - Len(c) \in DOMAIN e /\ d[p] = e[p - Len(c)]
    BY <1>5, <1>6, <2>2
  <2> QED
    BY <1>4, <2>1, <2>2
<1>10. ASSUME NEW j \in n .. Inner
       PROVE  /\ \E p \in DOMAIN d : d[p] = DecRefSlot(j)
              /\ HasFinally(Scopes[j]) => \E p \in DOMAIN d : d[p] = Finally(j)
  <2>1. CASE j = n
    BY <1>2, <1>4, <2>1
  <2>2. CASE j # n
    <3>1. j \in n + 1 .. Inner
      BY <2>2
    <3> QED
      BY <1>4, <3>1 DEF Exits
  <2> QED
    BY <2>1, <2>2
<1>11. ASSUME NEW p \in DOMAIN d, NEW q \in DOMAIN d, d[p] = d[q] PROVE p = q
  <2>1. CASE p \in DOMAIN c /\ d[p] = c[p] /\ q \in DOMAIN c /\ d[q] = c[q]
    BY <1>11, <2>1 DEF Exits
  <2>2. CASE p - Len(c) \in DOMAIN e /\ d[p] = e[p - Len(c)] /\ q - Len(c) \in DOMAIN e /\ d[q] = e[q - Len(c)]
    <3>1. p - Len(c) = q - Len(c)
      BY <1>7, <1>11, <2>2
    <3> QED
      BY <1>4, <3>1
  <2>3. ASSUME NEW x \in DOMAIN c, NEW y \in DOMAIN e PROVE c[x] # e[y]
    BY <1>6, <1>8
  <2> QED
    BY <1>4, <1>11, <2>1, <2>2, <2>3
<1> QED
  BY <1>1, <1>3, <1>9, <1>10, <1>11 DEF Exits

LEMMA ReturnWritten ==
  ASSUME Inner \in Nat \ {0}
  PROVE  LET d == FlattenSeq([k \in 1 .. Inner |-> ExitCode(Inner + 1 - k)])
         IN  d \in Code /\ Exits(d, 1)
<1>1. PICK n : n = Inner
  OBVIOUS
<1>2. PICK E : E = [k \in 1 .. n |-> ExitCode(n + 1 - k)]
  OBVIOUS
<1>3. \A k \in 1 .. n : n + 1 - k \in Nat \ {0} /\ E[k] = ExitCode(n + 1 - k) /\ E[k] \in Code
  BY <1>1, <1>2, ExitsOne
<1> DEFINE T == [op : Ops, scope : Nat]
<1>4. E \in Seq(Seq(T)) /\ Len(E) = n /\ E # <<>>
  <2>1. E \in [1 .. n -> Seq(T)]
    BY <1>2, <1>3 DEF Code
  <2> HIDE DEF T
  <2>2. n \in Nat \ {0}
    BY <1>1
  <2> QED
    BY <2>1, <2>2
<1> HIDE DEF T
<1>5. PICK f \in [1 .. n -> Seq(T)] :
        /\ FlattenSeq(E) = f[n]
        /\ \A i \in 1 .. n : f[i] = IF i = 1 THEN E[i] ELSE f[i - 1] \o E[i]
  <2>1. \E f \in [1 .. Len(E) -> Seq(T)] :
          /\ FlattenSeq(E) = f[Len(E)]
          /\ \A i \in 1 .. Len(E) : f[i] = IF i = 1 THEN E[i] ELSE f[i - 1] \o E[i]
    BY <1>4, Flattened
  <2> QED
    BY <1>4, <2>1
<1>6. \A i \in 1 .. n : f[i] \in Code
  BY <1>5 DEF T, Code
<1> DEFINE S == {m \in Nat : m \in 1 .. n => Exits(f[m], n + 1 - m)}
<1>7. 1 \in S
  <2>1. 1 \in 1 .. n /\ n + 1 - 1 = n
    BY <1>1
  <2>2. f[1] = ExitCode(n)
    BY <1>3, <1>5, <2>1
  <2>3. PICK e : e = ExitCode(n)
    OBVIOUS
  <2>4. /\ e \in Code /\ Len(e) \in {1, 2} /\ e[1] = DecRefSlot(n)
        /\ HasFinally(Scopes[n]) <=> Len(e) = 2
        /\ HasFinally(Scopes[n]) => e[2] = Finally(n)
    BY <1>1, <2>3, ExitsOne
  <2>5. DOMAIN e = 1 .. Len(e)
    BY <2>4 DEF Code
  <2>6. \A p \in DOMAIN e : \/ p = 1 /\ e[p] = DecRefSlot(n)
                            \/ p = 2 /\ e[p] = Finally(n) /\ HasFinally(Scopes[n])
    BY <2>4, <2>5
  <2>7. \A p \in DOMAIN e : e[p].scope = n
    BY <2>6 DEF DecRefSlot, Finally
  <2>8. DecRefSlot(n).op # Finally(n).op
    BY DEF DecRefSlot, Finally
  <2>9. \A p, q \in DOMAIN e : e[p] = e[q] => p = q
    BY <2>6, <2>8
  <2>10. n \in Nat /\ \A j \in n .. n : j = n
    BY <1>1
  <2>11. /\ n \in n .. n
         /\ \A j \in n .. n : /\ \E p \in DOMAIN e : e[p] = DecRefSlot(j)
                              /\ HasFinally(Scopes[j]) => \E p \in DOMAIN e : e[p] = Finally(j)
    BY <2>4, <2>5, <2>10
  <2>12. Exits(e, n)
    BY <1>1, <2>6, <2>7, <2>9, <2>11 DEF Exits
  <2> QED
    BY <2>1, <2>2, <2>3, <2>12
<1>8. ASSUME NEW m \in Nat \ {0}, m \in S PROVE m + 1 \in S
  <2> SUFFICES ASSUME m + 1 \in 1 .. n PROVE Exits(f[m + 1], n + 1 - (m + 1))
    OBVIOUS
  <2>1. /\ m \in 1 .. n /\ m + 1 # 1 /\ (m + 1) - 1 = m /\ n + 1 - (m + 1) = n - m
        /\ n - m \in Nat \ {0} /\ n - m < n /\ (n - m) + 1 = n + 1 - m
    BY <1>1
  <2>2. Exits(f[m], n + 1 - m)
    BY <1>8, <2>1
  <2>3. f[m + 1] = f[m] \o ExitCode(n - m)
    <3>1. f[m + 1] = f[m] \o E[m + 1]
      BY <1>5, <2>1
    <3> QED
      BY <1>3, <2>1, <3>1
  <2>4. f[m] \in Code
    BY <1>6, <2>1
  <2> QED
    BY <1>1, <2>1, <2>2, <2>3, <2>4, ExitsMore
<1> HIDE DEF S
<1>9. n \in S
  BY <1>1, <1>7, <1>8, Induction
<1>10. n \in 1 .. n /\ n + 1 - n = 1
  BY <1>1
<1>11. Exits(f[n], 1)
  BY <1>1, <1>9, <1>10 DEF S
<1> QED
  BY <1>1, <1>2, <1>5, <1>6, <1>10, <1>11


(* Code that ends in an instruction that leaves. *)
CanEnd(s, i, d, x) ==
  /\ x.op \in Final
  /\ x.op \in {"leave", "unwind", "RETURN"} => x.scope = 0
  /\ \A p, q \in DOMAIN d : d[p] = d[q] => p = q
  /\ \A p \in DOMAIN d :
       /\ d[p].op \in {"DEC_REF_SLOT", "DEC_REF_CAUGHT", "CALL_SUPER", "finally"}
       /\ d[p].op = "CALL_SUPER" => d[p].scope = 0
       /\ d[p].op = "DEC_REF_CAUGHT" => x.op = "leave" /\ d[p].scope = 0
       /\ d[p].op = "finally" => x.op = "RETURN"
       /\ d[p].op = "DEC_REF_SLOT" => d[p].scope \in 1 .. i - 1 /\ Intact(s[d[p].scope])
Ended(s, i, d, x, c) ==
  /\ c \in Code /\ c # <<DropOperand>> /\ c # <<>>
  /\ c[Len(c)] = x
  /\ \A ops : EndsIn(c, ops) <=> x.op \in ops
  /\ \A p \in DOMAIN d : p \in DOMAIN c /\ c[p] = d[p]
  /\ \A p \in DOMAIN c : c[p] = x \/ (p \in DOMAIN d /\ c[p] = d[p])
  /\ Written(s, i, c)

LEMMA EndedCode ==
  ASSUME NEW s, NEW i, NEW d \in Code, NEW x \in [op : Ops, scope : Nat], NEW c,
         c = d \o <<x>>, CanEnd(s, i, d, x)
  PROVE  Ended(s, i, d, x, c)
<1>1. /\ x.op \in Final
      /\ x.op \in {"leave", "unwind", "RETURN"} => x.scope = 0
      /\ \A p, q \in DOMAIN d : d[p] = d[q] => p = q
      /\ \A p \in DOMAIN d :
           /\ d[p].op \in {"DEC_REF_SLOT", "DEC_REF_CAUGHT", "CALL_SUPER", "finally"}
           /\ d[p].op = "CALL_SUPER" => d[p].scope = 0
           /\ d[p].op = "DEC_REF_CAUGHT" => x.op = "leave" /\ d[p].scope = 0
           /\ d[p].op = "finally" => x.op = "RETURN"
           /\ d[p].op = "DEC_REF_SLOT" => d[p].scope \in 1 .. i - 1 /\ Intact(s[d[p].scope])
  BY DEF CanEnd
<1>2. /\ c \in Code /\ Len(d) \in Nat /\ Len(c) = Len(d) + 1
      /\ DOMAIN d = 1 .. Len(d) /\ DOMAIN c = 1 .. Len(d) + 1
      /\ \A p \in DOMAIN d : p \in DOMAIN c /\ c[p] = d[p]
      /\ c[Len(d) + 1] = x
      /\ \A p \in DOMAIN c : p # Len(d) + 1 => p \in DOMAIN d
  <2> DEFINE T == [op : Ops, scope : Nat]
  <2>1. d \in Seq(T) /\ x \in T
    BY DEF Code
  <2> HIDE DEF T
  <2>2. <<x>> \in Seq(T) /\ Len(<<x>>) = 1 /\ <<x>>[1] = x
    BY <2>1
  <2>3. /\ d \o <<x>> \in Seq(T) /\ Len(d) \in Nat /\ Len(d \o <<x>>) = Len(d) + 1
        /\ DOMAIN d = 1 .. Len(d) /\ DOMAIN (d \o <<x>>) = 1 .. Len(d) + 1
        /\ \A p \in DOMAIN d : p \in DOMAIN (d \o <<x>>) /\ (d \o <<x>>)[p] = d[p]
        /\ (d \o <<x>>)[Len(d) + 1] = x
    BY <2>1, <2>2
  <2>4. \A p \in 1 .. Len(d) + 1 : p # Len(d) + 1 => p \in 1 .. Len(d)
    BY <2>3
  <2> QED
    BY <2>3, <2>4 DEF T, Code
<1>3. c # <<>> /\ Len(c) \in DOMAIN c /\ c[Len(c)] = x
  BY <1>2
<1>4. \A ops : EndsIn(c, ops) <=> x.op \in ops
  BY <1>3 DEF EndsIn
<1>5. c # <<DropOperand>>
  <2>1. Len(<<DropOperand>>) = 1 /\ <<DropOperand>>[1].op = "DEC_REF_OPERAND"
    BY DEF DropOperand
  <2>2. x.op # "DEC_REF_OPERAND"
    BY <1>1 DEF Final
  <2> QED
    BY <1>3, <2>1, <2>2
<1>6. \A p \in DOMAIN c : p # Len(c) => p \in DOMAIN d /\ c[p] = d[p]
  BY <1>2
<1>7. \A p \in DOMAIN d : p # Len(c)
  BY <1>2
<1>8. \A p \in DOMAIN d : d[p].op \notin Final
  BY <1>1 DEF Final
<1>9. \A p \in DOMAIN c : c[p].op \in Final <=> p = Len(c)
  BY <1>1, <1>3, <1>6, <1>8
<1>10. \A p, q \in DOMAIN c : c[p] = c[q] => p = q
  BY <1>1, <1>6, <1>8, <1>9
<1>11. ASSUME NEW p \in DOMAIN c
       PROVE  /\ c[p].op # "DEC_REF_OPERAND"
              /\ c[p].op = "DEC_REF_CAUGHT" => EndsIn(c, {"leave"}) /\ c[p].scope = 0
              /\ c[p].op = "finally" => EndsIn(c, {"RETURN"})
              /\ c[p].op = "DEC_REF_SLOT" => c[p].scope \in 1 .. i - 1 /\ Intact(s[c[p].scope])
              /\ c[p].op \in {"leave", "unwind", "RETURN", "CALL_SUPER"} => c[p].scope = 0
  <2>1. CASE p = Len(c)
    BY <1>1, <1>3, <2>1 DEF Final
  <2>2. CASE p # Len(c)
    BY <1>1, <1>4, <1>6, <2>2
  <2> QED
    BY <2>1, <2>2
<1>12. Written(s, i, c)
  BY <1>9, <1>10, <1>11 DEF Written
<1>13. \A p \in DOMAIN c : c[p] = x \/ (p \in DOMAIN d /\ c[p] = d[p])
  BY <1>3, <1>6
<1> QED
  BY <1>2, <1>3, <1>4, <1>5, <1>12, <1>13 DEF Ended

(* return *)
LEMMA ReturnLevel ==
  ASSUME Scopes \in Scopings, Inner \in Nat \ {0}, NEW d \in Code, Exits(d, 1), NEW rs,
         \A j \in 1 .. Inner : /\ Intact(Scopes[j]) /\ Scopes[j].kind # "finally"
                               /\ Scopes[j].exc # Null => "catch" \in Habits
                               /\ HasFinally(Scopes[j]) => rs[Scopes[j].of] = 0
  PROVE  LevelOK(Scopes, Inner + 1, d \o <<ReturnOp>>, rs) /\ d \o <<ReturnOp>> \in Code
<1>1. PICK c, s, n : c = d \o <<ReturnOp>> /\ s = Scopes /\ n = Inner
  OBVIOUS
<1>2. ReturnOp \in [op : Ops, scope : Nat] /\ ReturnOp.op = "RETURN" /\ ReturnOp.scope = 0
  BY DEF ReturnOp, Ops
<1>3. (n + 1) - 1 = n
  BY <1>1
<1>4. \A p \in DOMAIN d : /\ d[p].scope \in 1 .. n
                          /\ \/ d[p] = DecRefSlot(d[p].scope)
                             \/ d[p] = Finally(d[p].scope) /\ HasFinally(s[d[p].scope])
  BY <1>1 DEF Exits
<1>5. \A j : DecRefSlot(j).op = "DEC_REF_SLOT" /\ Finally(j).op = "finally"
  BY DEF DecRefSlot, Finally
<1>6. ASSUME NEW p \in DOMAIN d
      PROVE  /\ d[p].op \in {"DEC_REF_SLOT", "DEC_REF_CAUGHT", "finally"}
             /\ d[p].op = "DEC_REF_CAUGHT" => ReturnOp.op = "leave" /\ d[p].scope = 0
             /\ d[p].op = "finally" => ReturnOp.op = "RETURN"
             /\ d[p].op = "DEC_REF_SLOT" => d[p].scope \in 1 .. (n + 1) - 1 /\ Intact(s[d[p].scope])
  <2>1. d[p].op \in {"DEC_REF_SLOT", "finally"}
    BY <1>4, <1>5
  <2> QED
    BY <1>1, <1>2, <1>3, <1>4, <2>1
<1>7. \A p, q \in DOMAIN d : d[p] = d[q] => p = q
  BY DEF Exits
<1>8. ReturnOp.op \in Final
  BY <1>2 DEF Final
<1>9. /\ c \in Code /\ c # <<DropOperand>> /\ c # <<>>
      /\ \A ops : EndsIn(c, ops) <=> ReturnOp.op \in ops
      /\ \A p \in DOMAIN d : p \in DOMAIN c /\ c[p] = d[p]
      /\ \A p \in DOMAIN c : c[p] = ReturnOp \/ (p \in DOMAIN d /\ c[p] = d[p])
      /\ Written(s, n + 1, c)
  <2>1. CanEnd(s, n + 1, d, ReturnOp)
    BY <1>2, <1>6, <1>7, <1>8 DEF CanEnd
  <2>2. Ended(s, n + 1, d, ReturnOp, c)
    BY <1>1, <1>2, <2>1, EndedCode
  <2> QED
    BY <2>2 DEF Ended
<1>10. ~EndsIn(c, {"leave"}) /\ ~EndsIn(c, {"unwind"}) /\ ~EndsIn(c, {"break", "continue"}) /\ EndsIn(c, {"RETURN"})
  BY <1>2, <1>9
<1>11. ASSUME NEW j \in 1 .. n
       PROVE  /\ s[j].kind # "finally"
              /\ s[j].owns => Releases(c, j)
              /\ s[j].exc # Null => "catch" \in Habits
              /\ HasFinally(s[j]) => rs[s[j].of] = 1 \/ \E k \in DOMAIN c : c[k] = Finally(j)
  <2>1. \E p \in DOMAIN d : d[p] = DecRefSlot(j)
    BY <1>1 DEF Exits
  <2>2. HasFinally(s[j]) => \E p \in DOMAIN d : d[p] = Finally(j)
    BY <1>1 DEF Exits
  <2> QED
    BY <1>1, <1>9, <2>1, <2>2 DEF Releases
<1>12. ASSUME NEW k \in DOMAIN c, c[k].op = "finally"
       PROVE  c[k].scope \in 1 .. n /\ HasFinally(s[c[k].scope]) /\ rs[s[c[k].scope].of] = 0
  <2>1. k \in DOMAIN d /\ c[k] = d[k]
    BY <1>2, <1>9, <1>12
  <2>2. d[k].scope \in 1 .. n /\ d[k] = Finally(d[k].scope) /\ HasFinally(s[d[k].scope])
    BY <1>4, <1>5, <1>12, <2>1
  <2> QED
    BY <1>1, <2>1, <2>2
<1>13. ReturnCode(s, n + 1, c, rs)
  BY <1>3, <1>11, <1>12 DEF ReturnCode
<1> QED
  BY <1>1, <1>9, <1>10, <1>13 DEF LevelOK, LeaveCode, UnwindCode, LoopCode, Unrun, Statement

(* break and continue *)
LEMMA LoopLevel ==
  ASSUME NEW s \in Scopings, NEW n \in Nat, n = Len(s), NEW j \in 1 .. n, s[j].kind = "loop", NEW rs,
         NEW op \in {"break", "continue"},
         \A k \in 1 .. n : k \in Live(s, n + 1) =>
           Intact(s[k]) /\ Untouched(s[k]) /\ (HasFinally(s[k]) => rs[s[k].of] = 0),
         \A k \in j .. n : /\ Intact(s[k]) /\ s[k].kind # "finally"
                           /\ s[k].exc # Null => "catch" \in Habits
                           /\ HasFinally(s[k]) => "jump" \in Habits
  PROVE  LET c == [k \in 1 .. n + 1 - j |-> DecRefSlot(n + 1 - k)] \o <<[op |-> op, scope |-> j]>>
         IN  LevelOK(s, n + 1, c, rs) /\ c \in Code
<1>1. PICK d : d = [k \in 1 .. n + 1 - j |-> DecRefSlot(n + 1 - k)]
  OBVIOUS
<1>2. PICK x : x = [op |-> op, scope |-> j]
  OBVIOUS
<1>3. PICK c : c = d \o <<x>>
  OBVIOUS
<1>4. /\ \A k \in 1 .. n + 1 - j : n + 1 - k \in j .. n /\ n + 1 - k \in Nat
      /\ \A k \in j .. n : n + 1 - k \in 1 .. n + 1 - j /\ n + 1 - (n + 1 - k) = k /\ k \in 1 .. n
      /\ n + 1 - j \in Nat /\ (n + 1) - 1 = n
  OBVIOUS
<1>5. /\ DOMAIN d = 1 .. n + 1 - j
      /\ \A k \in DOMAIN d : d[k].op = "DEC_REF_SLOT" /\ d[k].scope = n + 1 - k /\ d[k] = DecRefSlot(n + 1 - k)
  BY <1>1 DEF DecRefSlot
<1>6. d \in Code
  <2> DEFINE T == [op : Ops, scope : Nat]
  <2>1. \A k \in 1 .. n + 1 - j : DecRefSlot(n + 1 - k) \in T
    BY <1>4 DEF DecRefSlot, Ops
  <2> HIDE DEF T
  <2>2. PICK e : e = n + 1 - j
    OBVIOUS
  <2>3. d \in [1 .. e -> T] /\ e \in Nat
    BY <1>1, <1>4, <2>1, <2>2
  <2>4. d \in Seq(T)
    BY <2>3
  <2> QED
    BY <2>4 DEF T, Code
<1>7. x \in [op : Ops, scope : Nat] /\ x.op = op /\ x.scope = j
  BY <1>2 DEF Ops
<1>8. \A p, q \in DOMAIN d : d[p] = d[q] => p = q
  <2> SUFFICES ASSUME NEW p \in DOMAIN d, NEW q \in DOMAIN d, d[p] = d[q] PROVE p = q
    OBVIOUS
  <2>1. n + 1 - p = n + 1 - q /\ p \in Int /\ q \in Int
    BY <1>5
  <2> QED
    BY <2>1
<1>9. \A p \in DOMAIN d :
           /\ d[p].op \in {"DEC_REF_SLOT", "DEC_REF_CAUGHT", "CALL_SUPER", "finally"}
           /\ d[p].op = "CALL_SUPER" => d[p].scope = 0
           /\ d[p].op = "DEC_REF_CAUGHT" => x.op = "leave" /\ d[p].scope = 0
           /\ d[p].op = "finally" => x.op = "RETURN"
           /\ d[p].op = "DEC_REF_SLOT" => d[p].scope \in 1 .. (n + 1) - 1 /\ Intact(s[d[p].scope])
  <2> SUFFICES ASSUME NEW p \in DOMAIN d PROVE d[p].scope \in 1 .. (n + 1) - 1 /\ Intact(s[d[p].scope])
    BY <1>5
  <2> QED
    BY <1>4, <1>5
<1>10. x.op \in Final /\ x.op \notin {"leave", "unwind", "RETURN"}
  BY <1>7 DEF Final
<1>11. /\ c \in Code /\ c # <<DropOperand>> /\ c # <<>>
       /\ c[Len(c)] = x
       /\ \A ops : EndsIn(c, ops) <=> x.op \in ops
       /\ \A p \in DOMAIN d : p \in DOMAIN c /\ c[p] = d[p]
       /\ \A p \in DOMAIN c : c[p] = x \/ (p \in DOMAIN d /\ c[p] = d[p])
       /\ Written(s, n + 1, c)
  <2>1. CanEnd(s, n + 1, d, x)
    BY <1>8, <1>9, <1>10 DEF CanEnd
  <2>2. Ended(s, n + 1, d, x, c)
    BY <1>3, <1>6, <1>7, <2>1, EndedCode
  <2> QED
    BY <2>2 DEF Ended
<1>12. ~EndsIn(c, {"leave"}) /\ ~EndsIn(c, {"unwind"}) /\ ~EndsIn(c, {"RETURN"})
  BY <1>10, <1>11
<1>13. \A k \in 1 .. c[Len(c)].scope - 1 : ~Released(c, k)
  <2> SUFFICES ASSUME NEW k \in 1 .. j - 1, NEW p \in DOMAIN c, c[p].op = "DEC_REF_SLOT", c[p].scope = k
               PROVE  FALSE
    BY <1>7, <1>11 DEF Released
  <2>1. p \in DOMAIN d /\ c[p] = d[p]
    BY <1>7, <1>11
  <2>2. k \in j .. n
    BY <1>4, <1>5, <2>1
  <2> QED
    BY <2>2
<1>14. \A k \in j .. n : Releases(c, k)
  <2> SUFFICES ASSUME NEW k \in j .. n PROVE Releases(c, k)
    OBVIOUS
  <2>1. PICK p : p = n + 1 - k
    OBVIOUS
  <2>2. p \in 1 .. n + 1 - j /\ n + 1 - p = k
    BY <1>4, <2>1
  <2>3. p \in DOMAIN d /\ d[p] = DecRefSlot(k)
    BY <1>5, <2>2
  <2> QED
    BY <1>11, <2>3 DEF Releases
<1>15. \A k \in Live(s, n + 1) : k \in 1 .. n
  BY <1>4 DEF Live
<1>16. LoopCode(s, n + 1, c)
  BY <1>4, <1>7, <1>11, <1>13, <1>14, <1>15 DEF LoopCode
<1>17. LevelOK(s, n + 1, c, rs)
  BY <1>11, <1>12, <1>15, <1>16 DEF LevelOK, LeaveCode, UnwindCode, ReturnCode, Unrun, Statement
<1> QED
  BY <1>1, <1>2, <1>3, <1>11, <1>17

(* The closing brace of a block. *)
LEMMA EndLevel ==
  ASSUME NEW s \in Scopings, NEW n \in Nat \ {0}, n = Len(s), NEW rs,
         s[n].kind = "body" <=> n = 1, ScopeOK(s[n]),
         \A k \in Live(s, n + 1) :
           Intact(s[k]) /\ Untouched(s[k]) /\ (HasFinally(s[k]) => rs[s[k].of] = 0),
         NEW code, code = <<DecRefSlot(n)>> \o (CASE s[n].kind = "body" -> <<ReturnOp>>
                                                  [] s[n].kind = "catch" -> <<ReleaseCaught, Leave>>
                                                  [] OTHER -> <<Leave>>)
  PROVE  LevelOK(s, n + 1, code, rs) /\ code \in Code /\ ~EndsIn(code, {"unwind"})
<1> DEFINE T == [op : Ops, scope : Nat]
<1>1. /\ DecRefSlot(n) \in T /\ ReturnOp \in T /\ Leave \in T /\ ReleaseCaught \in T
      /\ DecRefSlot(n).op = "DEC_REF_SLOT" /\ DecRefSlot(n).scope = n
      /\ ReturnOp.op = "RETURN" /\ ReturnOp.scope = 0 /\ Leave.op = "leave" /\ Leave.scope = 0
      /\ ReleaseCaught.op = "DEC_REF_CAUGHT" /\ ReleaseCaught.scope = 0
  BY DEF DecRefSlot, ReturnOp, Leave, ReleaseCaught, Ops
<1>2. /\ n \in Live(s, n + 1) /\ (n + 1) - 1 = n /\ (n + 1) - 2 = n - 1
      /\ \A k \in Live(s, n + 1) : k \in 1 .. n
  BY DEF Live
<1>3. Intact(s[n]) /\ n \in 1 .. n
  BY <1>2
<1>4. ReturnOp.op \in Final /\ Leave.op \in Final
  BY <1>1 DEF Final
<1>5. CASE s[n].kind = "body"
  <2>1. PICK d : d = <<DecRefSlot(n)>>
    OBVIOUS
  <2>2. d \in Code /\ DOMAIN d = {1} /\ d[1] = DecRefSlot(n)
    <3> HIDE DEF T
    <3>1. d \in Seq(T) /\ DOMAIN d = {1} /\ d[1] = DecRefSlot(n)
      BY <1>1, <2>1
    <3> QED
      BY <3>1 DEF T, Code
  <2>3. PICK c : c = d \o <<ReturnOp>>
    OBVIOUS
  <2>4. /\ c \in Code /\ c # <<DropOperand>> /\ c # <<>>
        /\ c[Len(c)] = ReturnOp
        /\ \A ops : EndsIn(c, ops) <=> ReturnOp.op \in ops
        /\ \A p \in DOMAIN d : p \in DOMAIN c /\ c[p] = d[p]
        /\ \A p \in DOMAIN c : c[p] = ReturnOp \/ (p \in DOMAIN d /\ c[p] = d[p])
        /\ Written(s, n + 1, c)
    <3>1. CanEnd(s, n + 1, d, ReturnOp)
      BY <1>1, <1>2, <1>3, <1>4, <2>2 DEF CanEnd
    <3>2. Ended(s, n + 1, d, ReturnOp, c)
      BY <1>1, <2>2, <2>3, <3>1, EndedCode DEF T
    <3> QED
      BY <3>2 DEF Ended
  <2>5. n = 1
    BY <1>5
  <2>6. ~EndsIn(c, {"leave"}) /\ ~EndsIn(c, {"unwind"}) /\ ~EndsIn(c, {"break", "continue"}) /\ EndsIn(c, {"RETURN"})
    BY <1>1, <2>4
  <2>7. Releases(c, n)
    BY <2>2, <2>4 DEF Releases
  <2>8. s[n].exc = Null /\ ~HasFinally(s[n])
    BY <1>5 DEF ScopeOK, HasFinally
  <2>9. \A p \in DOMAIN c : c[p].op # "finally"
    BY <1>1, <2>2, <2>4
  <2>10. ReturnCode(s, n + 1, c, rs)
    BY <1>2, <1>5, <2>5, <2>7, <2>8, <2>9 DEF ReturnCode
  <2>11. LevelOK(s, n + 1, c, rs)
    BY <2>4, <2>6, <2>10 DEF LevelOK, LeaveCode, UnwindCode, LoopCode, Unrun, Statement
  <2>12. code = c
    BY <1>5, <2>1, <2>3
  <2> QED
    BY <2>4, <2>6, <2>11, <2>12
<1>6. CASE s[n].kind # "body"
  <2>1. PICK d : d = IF s[n].kind = "catch" THEN <<DecRefSlot(n), ReleaseCaught>> ELSE <<DecRefSlot(n)>>
    OBVIOUS
  <2>2. /\ d \in Code /\ 1 \in DOMAIN d /\ DOMAIN d \subseteq {1, 2}
        /\ d[1] = DecRefSlot(n)
        /\ 2 \in DOMAIN d => d[2] = ReleaseCaught
        /\ s[n].kind = "catch" => 2 \in DOMAIN d
    <3> HIDE DEF T
    <3>1. CASE s[n].kind = "catch"
      <4>1. d = <<DecRefSlot(n), ReleaseCaught>>
        BY <2>1, <3>1
      <4>2. d \in Seq(T) /\ DOMAIN d = {1, 2} /\ d[1] = DecRefSlot(n) /\ d[2] = ReleaseCaught
        BY <1>1, <4>1
      <4> QED
        BY <4>2 DEF T, Code
    <3>2. CASE s[n].kind # "catch"
      <4>1. d = <<DecRefSlot(n)>>
        BY <2>1, <3>2
      <4>2. d \in Seq(T) /\ DOMAIN d = {1} /\ d[1] = DecRefSlot(n)
        BY <1>1, <4>1
      <4> QED
        BY <3>2, <4>2 DEF T, Code
    <3> QED
      BY <3>1, <3>2
  <2>3. PICK c : c = d \o <<Leave>>
    OBVIOUS
  <2>4. \A p \in DOMAIN d :
           /\ d[p].op \in {"DEC_REF_SLOT", "DEC_REF_CAUGHT", "finally"}
           /\ d[p].op = "DEC_REF_CAUGHT" => Leave.op = "leave" /\ d[p].scope = 0
           /\ d[p].op = "finally" => Leave.op = "RETURN"
           /\ d[p].op = "DEC_REF_SLOT" => d[p].scope \in 1 .. (n + 1) - 1 /\ Intact(s[d[p].scope])
    <3> SUFFICES ASSUME NEW p \in DOMAIN d
                 PROVE  /\ d[p].op \in {"DEC_REF_SLOT", "DEC_REF_CAUGHT"}
                        /\ d[p].op = "DEC_REF_CAUGHT" => d[p].scope = 0
                        /\ d[p].op = "DEC_REF_SLOT" => d[p].scope = n
      BY <1>1, <1>2, <1>3
    <3>1. p \in {1, 2}
      BY <2>2
    <3>2. CASE p = 1
      BY <1>1, <2>2, <3>2
    <3>3. CASE p = 2
      BY <1>1, <2>2, <3>3
    <3> QED
      BY <3>1, <3>2, <3>3
  <2>5. \A p, q \in DOMAIN d : d[p] = d[q] => p = q
    <3> SUFFICES ASSUME NEW p \in DOMAIN d, NEW q \in DOMAIN d, d[p] = d[q], p # q PROVE FALSE
      OBVIOUS
    <3>1. p \in {1, 2} /\ q \in {1, 2}
      BY <2>2
    <3>2. DecRefSlot(n) = ReleaseCaught
      BY <2>2, <3>1
    <3> QED
      BY <1>1, <3>2
  <2>6. /\ c \in Code /\ c # <<DropOperand>> /\ c # <<>>
        /\ c[Len(c)] = Leave
        /\ \A ops : EndsIn(c, ops) <=> Leave.op \in ops
        /\ \A p \in DOMAIN d : p \in DOMAIN c /\ c[p] = d[p]
        /\ \A p \in DOMAIN c : c[p] = Leave \/ (p \in DOMAIN d /\ c[p] = d[p])
        /\ Written(s, n + 1, c)
    <3>1. CanEnd(s, n + 1, d, Leave)
      BY <1>1, <1>4, <2>4, <2>5 DEF CanEnd
    <3>2. Ended(s, n + 1, d, Leave, c)
      BY <1>1, <2>2, <2>3, <3>1, EndedCode DEF T
    <3> QED
      BY <3>2 DEF Ended
  <2>7. n + 1 > 2
    BY <1>6
  <2>8. EndsIn(c, {"leave"}) /\ ~EndsIn(c, {"unwind"}) /\ ~EndsIn(c, {"break", "continue"}) /\ ~EndsIn(c, {"RETURN"})
    BY <1>1, <2>6
  <2>9. \A j \in 1 .. n - 1 : ~Released(c, j)
    <3> SUFFICES ASSUME NEW j \in 1 .. n - 1, NEW p \in DOMAIN c, c[p].op = "DEC_REF_SLOT", c[p].scope = j
                 PROVE  FALSE
      BY DEF Released
    <3>1. p \in DOMAIN d /\ c[p] = d[p]
      BY <1>1, <2>6
    <3>2. p = 1
      BY <1>1, <2>2, <3>1
    <3>3. j = n
      BY <1>1, <2>2, <3>1, <3>2
    <3> QED
      BY <3>3
  <2>10. Releases(c, n)
    BY <2>2, <2>6 DEF Releases
  <2>11. s[n].exc # Null => \E k \in DOMAIN c : c[k].op = "DEC_REF_CAUGHT"
    <3>1. s[n].exc # Null => s[n].kind = "catch"
      BY DEF ScopeOK
    <3> QED
      BY <1>1, <2>2, <2>6, <3>1
  <2>12. LeaveCode(s, n + 1, c)
    BY <1>2, <2>7, <2>9, <2>10, <2>11 DEF LeaveCode
  <2>13. LevelOK(s, n + 1, c, rs)
    BY <2>6, <2>8, <2>12 DEF LevelOK, UnwindCode, LoopCode, ReturnCode, Unrun, Statement
  <2>14. <<DecRefSlot(n)>> \o (CASE s[n].kind = "body" -> <<ReturnOp>>
                                 [] s[n].kind = "catch" -> <<ReleaseCaught, Leave>>
                                 [] OTHER -> <<Leave>>) = c
    <3> HIDE DEF T
    <3>1. CASE s[n].kind = "catch"
      <4>1. d = <<DecRefSlot(n), ReleaseCaught>>
        BY <2>1, <3>1
      <4>2. <<DecRefSlot(n)>> \o <<ReleaseCaught, Leave>> = <<DecRefSlot(n), ReleaseCaught>> \o <<Leave>>
        BY <1>1
      <4> QED
        BY <1>6, <2>3, <3>1, <4>1, <4>2
    <3>2. CASE s[n].kind # "catch"
      BY <1>6, <2>1, <2>3, <3>2
    <3> QED
      BY <3>1, <3>2
  <2> QED
    BY <2>6, <2>8, <2>13, <2>14
<1> QED
  BY <1>5, <1>6


(* The last instruction of some code. *)
LEMMA AtFinal ==
  ASSUME NEW s \in Scopings, NEW i \in Nat, NEW c \in Code, c # <<>>, NEW rs,
         c[1].op \in Final, LevelOK(s, i, c, rs)
  PROVE  /\ Len(c) = 1 /\ DOMAIN c = {1}
         /\ \A j : ~Releases(c, j)
         /\ \A k \in DOMAIN c : c[k].op # "DEC_REF_CAUGHT" /\ c[k].op # "finally" /\ c[k].op # "DEC_REF_SLOT"
         /\ \A ops : EndsIn(c, ops) <=> c[1].op \in ops
<1>1. 1 \in DOMAIN c /\ DOMAIN c = 1 .. Len(c) /\ Len(c) \in Nat \ {0}
  BY CodeTail
<1>2. c # <<DropOperand>>
  <2>1. <<DropOperand>>[1].op \notin Final
    BY DEF DropOperand, Final
  <2> QED
    BY <2>1
<1>3. Len(c) = 1
  BY <1>1, <1>2 DEF LevelOK, Written
<1>4. DOMAIN c = {1}
  BY <1>1, <1>3
<1>5. c[1].op # "DEC_REF_CAUGHT" /\ c[1].op # "finally" /\ c[1].op # "DEC_REF_SLOT"
  BY DEF Final
<1>6. \A j : ~Releases(c, j)
  BY <1>4, <1>5 DEF Releases, DecRefSlot
<1> QED
  BY <1>3, <1>4, <1>5, <1>6 DEF EndsIn

(* Blocks are changed from level m on. *)
ChangedFrom(s, z, m, rs, rz) ==
  /\ m - 1 <= Len(s) /\ m - 1 <= Len(z) /\ z # <<>>
  /\ \A j \in 1 .. m - 1 : z[j] = s[j]
  /\ \A i \in DOMAIN s : i <= m /\ s[i].kind = "finally" =>
       \A j \in 1 .. i - 1 : HasFinally(s[j]) => rz[s[j].of] = rs[s[j].of]
  /\ \A j \in DOMAIN z : j >= m =>
       /\ ScopeOK(z[j]) /\ (z[j].kind = "body" <=> j = 1)
       /\ z[j].kind = "finally" =>
            \/ LevelOK(z, j, z[j].after, rz)
            \/ j = m /\ j \in DOMAIN s /\ s[j].kind = "finally" /\ z[j].after = s[j].after

LEMMA ScopesChange ==
  ASSUME NEW s \in Scopings, NEW z \in Scopings, NEW rs, NEW rz, ScopesOK(s, rs),
         NEW m \in Nat \ {0}, ChangedFrom(s, z, m, rs, rz)
  PROVE  ScopesOK(z, rz)
<1> USE DEF ChangedFrom
<1>1. /\ Len(s) \in Nat /\ DOMAIN s = 1 .. Len(s) /\ \A j \in DOMAIN s : s[j] \in ScopeRecords
      /\ Len(z) \in Nat /\ DOMAIN z = 1 .. Len(z) /\ \A j \in DOMAIN z : z[j] \in ScopeRecords
  BY ScopingType
<1>2. ASSUME NEW i \in DOMAIN z, i < m
      PROVE  z[i] = s[i] /\ i \in DOMAIN s /\ i \in 1 .. m
  BY <1>1, <1>2
<1>3. \A i \in DOMAIN z : ScopeOK(z[i]) /\ (z[i].kind = "body" <=> i = 1)
  <2> SUFFICES ASSUME NEW i \in DOMAIN z PROVE ScopeOK(z[i]) /\ (z[i].kind = "body" <=> i = 1)
    OBVIOUS
  <2>1. CASE i < m
    BY <1>2, <2>1 DEF ScopesOK
  <2>2. CASE ~(i < m)
    BY <1>1, <2>2
  <2> QED
    BY <2>1, <2>2
<1>4. ASSUME NEW i \in DOMAIN z, i <= m, i \in DOMAIN s, s[i].kind = "finally"
      PROVE  LevelOK(z, i, s[i].after, rz)
  <2>1. LevelOK(s, i, s[i].after, rs)
    BY <1>4 DEF ScopesOK
  <2>2. s[i].after \in Code
    BY <1>1, <1>4 DEF ScopeRecords
  <2>3. i \in Nat /\ i - 1 <= Len(s) /\ i - 1 <= Len(z) /\ i \in 1 .. m
    BY <1>1, <1>4
  <2>4. \A j \in 1 .. i - 1 : z[j] = s[j]
    BY <2>3
  <2>5. \A j \in 1 .. i - 1 : HasFinally(s[j]) => rz[s[j].of] = rs[s[j].of]
    BY <1>4, <2>3
  <2> QED
    BY <2>1, <2>2, <2>3, <2>4, <2>5, SamePrefix
<1>5. \A i \in DOMAIN z : z[i].kind = "finally" => LevelOK(z, i, z[i].after, rz)
  <2> SUFFICES ASSUME NEW i \in DOMAIN z, z[i].kind = "finally" PROVE LevelOK(z, i, z[i].after, rz)
    OBVIOUS
  <2>1. CASE i < m
    BY <1>2, <1>4, <2>1
  <2>2. CASE ~(i < m)
    <3>1. i >= m
      BY <1>1, <2>2
    <3>2. CASE i = m /\ i \in DOMAIN s /\ s[i].kind = "finally" /\ z[i].after = s[i].after
      BY <1>1, <1>4, <3>2
    <3> QED
      BY <3>1, <3>2
  <2> QED
    BY <2>1, <2>2
<1> QED
  BY <1>3, <1>5 DEF ScopesOK

(* Live blocks. *)
LEMMA LiveTop ==
  ASSUME NEW s, NEW m \in Nat \ {0}
  PROVE  /\ Live(s, m + 1) \subseteq 1 .. m /\ m \in Live(s, m + 1)
         /\ ~Returning(s[m]) => \A j \in Live(s, m) : j \in Live(s, m + 1) /\ j < m
         /\ ~Returning(s[m]) => \A j \in Live(s, m + 1) : j = m \/ j \in Live(s, m)
         /\ Returning(s[m]) => \A j \in Live(s, m + 1) : j = m
<1>1. (m + 1) - 1 = m /\ m - 1 \in Nat
  OBVIOUS
<1>2. Live(s, m + 1) \subseteq 1 .. m /\ m \in Live(s, m + 1)
  BY <1>1 DEF Live
<1>3. ASSUME ~Returning(s[m]), NEW j \in Live(s, m)
      PROVE  j \in Live(s, m + 1) /\ j < m
  <2>1. j \in 1 .. m - 1 /\ \A k \in j + 1 .. m - 1 : ~Returning(s[k])
    BY <1>3 DEF Live
  <2>2. j \in 1 .. m /\ j < m /\ \A k \in j + 1 .. m : k = m \/ k \in j + 1 .. m - 1
    BY <2>1
  <2>3. \A k \in j + 1 .. m : ~Returning(s[k])
    BY <1>3, <2>1, <2>2
  <2> QED
    BY <1>1, <2>2, <2>3 DEF Live
<1>4. ASSUME NEW j \in Live(s, m + 1), j # m
      PROVE  j \in Live(s, m) /\ ~Returning(s[m])
  <2>1. j \in 1 .. m /\ \A k \in j + 1 .. m : ~Returning(s[k])
    BY <1>1, <1>4 DEF Live
  <2>2. j \in 1 .. m - 1 /\ m \in j + 1 .. m /\ \A k \in j + 1 .. m - 1 : k \in j + 1 .. m
    BY <1>4, <2>1
  <2> QED
    BY <2>1, <2>2 DEF Live
<1> QED
  BY <1>2, <1>3, <1>4

LEMMA LivePrefix ==
  ASSUME NEW s, NEW z, NEW i \in Nat,
         \A j \in 1 .. i - 1 : z[j].kind = s[j].kind /\ z[j].after = s[j].after
  PROVE  Live(z, i) = Live(s, i) /\ \A j \in Live(s, i) : j \in 1 .. i - 1
<1>1. \A j \in 1 .. i - 1 : Returning(z[j]) <=> Returning(s[j])
  BY DEF Returning
<1>2. \A j \in 1 .. i - 1 : \A k \in j + 1 .. i - 1 : k \in 1 .. i - 1
  OBVIOUS
<1> QED
  BY <1>1, <1>2 DEF Live

(* Frames in which no return statement is leaving a block. *)
LEMMA AllLive ==
  ASSUME NEW s, NEW i \in Nat, NEW j \in Nat, 0 < j, j <= i,
         \A k \in j .. i - 1 : s[k].kind # "finally"
  PROVE  /\ \A k \in 1 .. i - 1 : k >= j => k \in Live(s, i)
         /\ \A k \in Live(s, j) : k \in Live(s, i) /\ k < j
<1>1. \A k \in j .. i - 1 : ~Returning(s[k])
  BY DEF Returning
<1>2. ASSUME NEW k \in 1 .. i - 1, k >= j PROVE k \in Live(s, i)
  <2>1. \A l \in k + 1 .. i - 1 : l \in j .. i - 1
    BY <1>2
  <2> QED
    BY <1>1, <2>1 DEF Live
<1>3. ASSUME NEW k \in Live(s, j) PROVE k \in Live(s, i) /\ k < j
  <2>1. k \in 1 .. j - 1 /\ \A l \in k + 1 .. j - 1 : ~Returning(s[l])
    BY DEF Live
  <2>2. k \in 1 .. i - 1 /\ \A l \in k + 1 .. i - 1 : l \in k + 1 .. j - 1 \/ l \in j .. i - 1
    BY <1>3, <2>1
  <2>3. \A l \in k + 1 .. i - 1 : ~Returning(s[l])
    BY <1>1, <2>1, <2>2
  <2> QED
    BY <2>1, <2>2, <2>3 DEF Live
<1> QED
  BY <1>2, <1>3


(* Blocks are opened and closed. *)
LEMMA Pushed ==
  ASSUME NEW s \in Scopings, NEW x \in ScopeRecords
  PROVE  /\ Append(s, x) \in Scopings /\ Append(s, x) # <<>>
         /\ Len(Append(s, x)) = Len(s) + 1 /\ DOMAIN Append(s, x) = 1 .. Len(s) + 1
         /\ \A j \in 1 .. Len(s) : Append(s, x)[j] = s[j]
         /\ Append(s, x)[Len(s) + 1] = x
<1> DEFINE T == ScopeRecords
<1>1. s \in Seq(T) /\ x \in T
  BY DEF Scopings
<1> HIDE DEF T
<1>2. /\ Append(s, x) \in Seq(T)
      /\ Len(Append(s, x)) = Len(s) + 1 /\ DOMAIN Append(s, x) = 1 .. Len(s) + 1
      /\ \A j \in 1 .. Len(s) : Append(s, x)[j] = s[j]
      /\ Append(s, x)[Len(s) + 1] = x
  BY <1>1
<1>3. Append(s, x) # <<>>
  BY <1>1, <1>2
<1> QED
  BY <1>2, <1>3 DEF T, Scopings

LEMMA CutAt ==
  ASSUME NEW s \in Scopings, NEW j \in 0 .. Len(s)
  PROVE  /\ SubSeq(s, 1, j) \in Scopings /\ Len(SubSeq(s, 1, j)) = j
         /\ DOMAIN SubSeq(s, 1, j) = 1 .. j
         /\ \A k \in 1 .. j : SubSeq(s, 1, j)[k] = s[k]
<1> DEFINE T == ScopeRecords
<1>1. s \in Seq(T)
  BY DEF Scopings
<1> HIDE DEF T
<1>2. /\ SubSeq(s, 1, j) \in Seq(T) /\ Len(SubSeq(s, 1, j)) = j
      /\ DOMAIN SubSeq(s, 1, j) = 1 .. j
      /\ \A k \in 1 .. j : SubSeq(s, 1, j)[k] = s[k]
  BY <1>1
<1> QED
  BY <1>2 DEF T, Scopings

LEMMA FrontCut ==
  ASSUME NEW s \in Scopings, s # <<>>
  PROVE  /\ Front(s) = SubSeq(s, 1, Len(s) - 1) /\ Last(s) = s[Len(s)]
         /\ Len(s) \in Nat \ {0} /\ Len(s) - 1 \in 0 .. Len(s) /\ Len(s) \in DOMAIN s
<1> DEFINE T == ScopeRecords
<1>1. s \in Seq(T)
  BY DEF Scopings
<1> HIDE DEF T
<1>2. Len(s) \in Nat \ {0} /\ Len(s) - 1 \in 0 .. Len(s) /\ Len(s) \in DOMAIN s
  BY <1>1
<1> QED
  BY <1>2 DEF Front, Last

LEMMA CutScopes ==
  ASSUME NEW s \in Scopings, NEW rs, ScopesOK(s, rs), NEW j \in 1 .. Len(s)
  PROVE  SubSeq(s, 1, j) \in Scopings /\ ScopesOK(SubSeq(s, 1, j), rs)
<1>1. PICK z : z = SubSeq(s, 1, j)
  OBVIOUS
<1>2. Len(s) \in Nat /\ j \in 0 .. Len(s) /\ j \in Nat
  BY ScopingType
<1>3. z \in Scopings /\ Len(z) = j /\ DOMAIN z = 1 .. j /\ \A k \in 1 .. j : z[k] = s[k]
  BY <1>1, <1>2, CutAt
<1>4. PICK m : m = j + 1
  OBVIOUS
<1>5. /\ m \in Nat \ {0} /\ m - 1 = j /\ m - 1 <= Len(s) /\ m - 1 <= Len(z) /\ z # <<>>
      /\ \A k \in DOMAIN z : ~(k >= m)
  BY <1>2, <1>3, <1>4
<1>6. ScopesOK(z, rs)
  <2>1. ChangedFrom(s, z, m, rs, rs)
    BY <1>3, <1>5 DEF ChangedFrom
  <2> QED
    BY <1>3, <1>5, <2>1, ScopesChange
<1> QED
  BY <1>1, <1>3, <1>6

(* A block is opened. *)
LEMMA PushLevel ==
  ASSUME NEW s \in Scopings, NEW x \in ScopeRecords, NEW rs, NEW rz, ScopesOK(s, rs),
         \A i \in DOMAIN s : s[i].kind = "finally" =>
           \A j \in 1 .. i - 1 : HasFinally(s[j]) => rz[s[j].of] = rs[s[j].of],
         ScopeOK(x), x.kind # "body", Untouched(x),
         HasFinally(x) => rz[x.of] = 0,
         x.kind = "finally" => LevelOK(s, Len(s) + 1, x.after, rz),
         ~Returning(x) => \A j \in Live(s, Len(s) + 1) :
                            Untouched(s[j]) /\ (HasFinally(s[j]) => rz[s[j].of] = 0)
  PROVE  Level(Append(s, x), <<>>, rz)
<1>1. PICK z, n : z = Append(s, x) /\ n = Len(s)
  OBVIOUS
<1>2. s # <<>> /\ n \in Nat \ {0} /\ DOMAIN s = 1 .. n
  <2>1. s # <<>>
    BY DEF ScopesOK
  <2> QED
    BY <1>1, <2>1, FrontCut, ScopingType
<1>3. /\ z \in Scopings /\ z # <<>> /\ Len(z) = n + 1 /\ DOMAIN z = 1 .. n + 1
      /\ \A j \in 1 .. n : z[j] = s[j]
      /\ z[n + 1] = x
  BY <1>1, Pushed
<1>4. PICK m : m = n + 1
  OBVIOUS
<1>5. /\ m \in Nat \ {0} /\ m - 1 = n /\ m - 1 <= Len(s) /\ m - 1 <= Len(z)
      /\ \A j \in DOMAIN z : j >= m => j = m
      /\ m # 1 /\ z[m] = x /\ m - 1 \in Nat
  BY <1>1, <1>2, <1>3, <1>4
<1>6. x.kind = "finally" => LevelOK(z, m, x.after, rz)
  <2> SUFFICES ASSUME x.kind = "finally" PROVE LevelOK(z, m, x.after, rz)
    OBVIOUS
  <2>1. LevelOK(s, m, x.after, rz)
    BY <1>1, <1>4
  <2>2. x.after \in Code
    BY DEF ScopeRecords
  <2>3. \A j \in 1 .. m - 1 : z[j] = s[j]
    BY <1>3, <1>5
  <2> QED
    BY <1>3, <1>5, <2>1, <2>2, <2>3, SamePrefix
<1>7. \A j \in DOMAIN z : j >= m =>
           /\ ScopeOK(z[j]) /\ (z[j].kind = "body" <=> j = 1)
           /\ z[j].kind = "finally" =>
                \/ LevelOK(z, j, z[j].after, rz)
                \/ j = m /\ j \in DOMAIN s /\ s[j].kind = "finally" /\ z[j].after = s[j].after
  BY <1>5, <1>6
<1>8. \A j \in 1 .. m - 1 : z[j] = s[j]
  BY <1>3, <1>5
<1>9. ScopesOK(z, rz)
  <2>1. ChangedFrom(s, z, m, rs, rz)
    BY <1>3, <1>5, <1>7, <1>8 DEF ChangedFrom
  <2> QED
    BY <1>3, <1>5, <2>1, ScopesChange
<1>10. \A j \in Live(z, m + 1) : Untouched(z[j]) /\ (HasFinally(z[j]) => rz[z[j].of] = 0)
  <2> SUFFICES ASSUME NEW j \in Live(z, m + 1), j # m
               PROVE  Untouched(z[j]) /\ (HasFinally(z[j]) => rz[z[j].of] = 0)
    BY <1>5
  <2>1. ~Returning(x) /\ j \in Live(z, m)
    BY <1>5, LiveTop
  <2>2. Live(z, m) = Live(s, m) /\ j \in 1 .. m - 1
    BY <1>5, <1>8, <2>1, LivePrefix
  <2> QED
    BY <1>1, <1>4, <1>8, <2>1, <2>2
<1>11. LevelOK(z, m + 1, <<>>, rz)
  BY <1>3, <1>5, <1>10, NoCode
<1>12. <<>> \in Code
  BY DEF Code
<1> QED
  BY <1>1, <1>3, <1>4, <1>9, <1>11, <1>12 DEF Level

LEMMA OpenLevel ==
  ASSUME NEW s, NEW rs, Level(s, <<>>, rs),
         NEW kind \in {"block", "loop", "try"}, NEW t \in Try \cup {Null}, kind # "try" => t = Null,
         \A j \in DOMAIN s : HasFinally(s[j]) => s[j].of # t,
         NEW rz, \A u \in Try : rz[u] = IF u = t THEN 0 ELSE rs[u]
  PROVE  Level(Append(s, Scope(kind, t, Null, <<>>)), <<>>, rz)
<1>1. PICK x, e : x = Scope(kind, t, Null, e) /\ e = <<>>
  OBVIOUS
<1>2. kind \in Kinds /\ e \in Code /\ (t = Null \/ t \in Try)
  BY <1>1 DEF Kinds, Code
<1>3. /\ x \in ScopeRecords /\ x.kind = kind /\ x.of = t /\ x.exc = Null /\ x.after = e
      /\ x.owns = FALSE /\ x.declared = FALSE /\ x.slot = Null /\ Untouched(x)
  BY <1>1, <1>2 DEF Scope, ScopeRecords, Untouched
<1>4. /\ s \in Scopings /\ ScopesOK(s, rs) /\ LevelOK(s, Len(s) + 1, <<>>, rs)
      /\ Len(s) \in Nat /\ DOMAIN s = 1 .. Len(s) /\ \A j \in DOMAIN s : s[j] \in ScopeRecords
  BY ScopingType DEF Level
<1>5. \A j \in DOMAIN s : HasFinally(s[j]) => rz[s[j].of] = rs[s[j].of]
  <2>1. \A j \in DOMAIN s : HasFinally(s[j]) => s[j].of \in Try /\ s[j].of # t
    BY <1>4 DEF HasFinally, ScopeRecords
  <2> QED
    BY <2>1
<1>6. \A i \in DOMAIN s : s[i].kind = "finally" =>
           \A j \in 1 .. i - 1 : HasFinally(s[j]) => rz[s[j].of] = rs[s[j].of]
  BY <1>4, <1>5
<1>7. \A j \in Live(s, Len(s) + 1) : Untouched(s[j]) /\ (HasFinally(s[j]) => rs[s[j].of] = 0)
  BY <1>4, AtStatement
<1>8. \A j \in Live(s, Len(s) + 1) : j \in DOMAIN s
  BY <1>4 DEF Live
<1>9. \A j \in Live(s, Len(s) + 1) : Untouched(s[j]) /\ (HasFinally(s[j]) => rz[s[j].of] = 0)
  BY <1>5, <1>7, <1>8
<1>10. ScopeOK(x) /\ x.kind # "body" /\ x.kind # "finally"
  <2>1. e # <<DropOperand>>
    BY <1>1
  <2> QED
    BY <1>1, <1>3, <2>1 DEF ScopeOK
<1>11. HasFinally(x) => rz[x.of] = 0
  BY <1>3 DEF HasFinally
<1> QED
  BY <1>1, <1>3, <1>4, <1>6, <1>9, <1>10, <1>11, PushLevel


(* A block gets another variable or loses what it has. *)
Reshaped(s, z, k, x, n, rs) ==
  /\ z \in Scopings /\ ScopesOK(z, rs)
  /\ Len(z) = n /\ DOMAIN z = DOMAIN s /\ z[k] = x /\ \A j \in DOMAIN s : j # k => z[j] = s[j]
  /\ Live(z, n + 1) = Live(s, n + 1) /\ \A j \in Live(s, n + 1) : j \in DOMAIN s
  /\ \A j \in DOMAIN s : /\ z[j].kind = s[j].kind /\ z[j].of = s[j].of /\ z[j].after = s[j].after
                         /\ HasFinally(z[j]) <=> HasFinally(s[j])
                         /\ Returning(z[j]) <=> Returning(s[j])

LEMMA ChangeScopes ==
  ASSUME NEW s \in Scopings, NEW rs, ScopesOK(s, rs), NEW k \in DOMAIN s, NEW x \in ScopeRecords,
         x.kind = s[k].kind, x.after = s[k].after, x.of = s[k].of, ScopeOK(x),
         \A i \in DOMAIN s : s[i].kind = "finally" => i <= k,
         NEW z, z = [s EXCEPT ![k] = x], NEW n, n = Len(s)
  PROVE  Reshaped(s, z, k, x, n, rs)
<1>1. Len(s) \in Nat /\ DOMAIN s = 1 .. Len(s) /\ k \in Nat \ {0} /\ k <= Len(s)
  BY ScopingType
<1>2. z \in Scopings /\ Len(z) = Len(s) /\ DOMAIN z = DOMAIN s /\ z[k] = x
      /\ \A j \in DOMAIN s : j # k => z[j] = s[j]
  <2> DEFINE T == ScopeRecords
  <2>1. s \in Seq(T) /\ x \in T
    BY DEF Scopings
  <2> HIDE DEF T
  <2>2. z \in Seq(T) /\ Len(z) = Len(s) /\ DOMAIN z = DOMAIN s /\ z[k] = x
      /\ \A j \in DOMAIN s : j # k => z[j] = s[j]
    BY <1>1, <2>1
  <2> QED
    BY <2>2 DEF T, Scopings
<1>3. \A j \in DOMAIN s : z[j].kind = s[j].kind /\ z[j].of = s[j].of /\ z[j].after = s[j].after
  <2> SUFFICES ASSUME NEW j \in DOMAIN s
               PROVE  z[j].kind = s[j].kind /\ z[j].of = s[j].of /\ z[j].after = s[j].after
    OBVIOUS
  <2>1. CASE j = k
    BY <1>2, <2>1
  <2>2. CASE j # k
    BY <1>2, <2>2
  <2> QED
    BY <2>1, <2>2
<1>4. \A j \in DOMAIN s : /\ HasFinally(z[j]) <=> HasFinally(s[j])
                          /\ Returning(z[j]) <=> Returning(s[j])
  BY <1>3 DEF HasFinally, Returning
<1>5. Live(z, Len(s) + 1) = Live(s, Len(s) + 1) /\ \A j \in Live(s, Len(s) + 1) : j \in DOMAIN s
  <2>1. (Len(s) + 1) - 1 = Len(s) /\ Len(s) + 1 \in Nat
    BY <1>1
  <2>2. \A j \in 1 .. (Len(s) + 1) - 1 : z[j].kind = s[j].kind /\ z[j].after = s[j].after
    BY <1>1, <1>3, <2>1
  <2> QED
    BY <1>1, <2>1, <2>2, LivePrefix
<1>6. ASSUME NEW j \in DOMAIN z, j >= k
      PROVE  /\ ScopeOK(z[j]) /\ (z[j].kind = "body" <=> j = 1)
             /\ z[j].kind = "finally" => j = k
  <2>1. ScopeOK(s[j]) /\ (s[j].kind = "body" <=> j = 1) /\ s[k].kind = x.kind
    BY <1>2 DEF ScopesOK
  <2>2. CASE j = k
    BY <1>2, <2>1, <2>2
  <2>3. CASE j # k
    BY <1>1, <1>2, <1>6, <2>1, <2>3
  <2> QED
    BY <2>2, <2>3
<1>7. ChangedFrom(s, z, k, rs, rs)
  <2>1. k - 1 <= Len(s) /\ k - 1 <= Len(z) /\ z # <<>> /\ \A j \in 1 .. k - 1 : j \in DOMAIN s /\ j # k
    BY <1>1, <1>2
  <2>2. \A j \in 1 .. k - 1 : z[j] = s[j]
    BY <1>2, <2>1
  <2>3. z[k].kind = "finally" => s[k].kind = "finally" /\ z[k].after = s[k].after
    BY <1>3
  <2> QED
    BY <1>6, <2>1, <2>2, <2>3 DEF ChangedFrom
<1>8. ScopesOK(z, rs)
  BY <1>1, <1>2, <1>7, ScopesChange
<1> QED
  BY <1>2, <1>3, <1>4, <1>5, <1>8 DEF Reshaped

(* Facts about a level. *)
LEMMA LevelType ==
  ASSUME NEW s, NEW c, NEW rs, Level(s, c, rs)
  PROVE  /\ s \in Scopings /\ c \in Code /\ ScopesOK(s, rs) /\ LevelOK(s, Len(s) + 1, c, rs)
         /\ Len(s) \in Nat \ {0} /\ DOMAIN s = 1 .. Len(s) /\ Len(s) \in DOMAIN s /\ s # <<>>
         /\ (Len(s) + 1) - 1 = Len(s) /\ (Len(s) + 1) - 2 = Len(s) - 1 /\ Len(s) + 1 \in Nat
         /\ \A j \in DOMAIN s : s[j] \in ScopeRecords /\ ScopeOK(s[j]) /\ (s[j].kind = "body" <=> j = 1)
         /\ \A j \in Live(s, Len(s) + 1) : j \in DOMAIN s
         /\ Len(s) \in Live(s, Len(s) + 1)
<1>1. s \in Scopings /\ c \in Code /\ ScopesOK(s, rs) /\ LevelOK(s, Len(s) + 1, c, rs)
  BY DEF Level
<1>2. /\ Len(s) \in Nat /\ DOMAIN s = 1 .. Len(s) /\ \A j \in DOMAIN s : s[j] \in ScopeRecords
      /\ s # <<>>
  BY <1>1, ScopingType DEF ScopesOK
<1>3. Len(s) \in Nat \ {0} /\ Len(s) \in DOMAIN s
  BY <1>1, <1>2, FrontCut
<1>4. (Len(s) + 1) - 1 = Len(s) /\ (Len(s) + 1) - 2 = Len(s) - 1 /\ Len(s) + 1 \in Nat
  BY <1>3
<1>5. \A j \in Live(s, Len(s) + 1) : j \in DOMAIN s
  BY <1>2, <1>4 DEF Live
<1>6. Len(s) \in Live(s, Len(s) + 1)
  BY <1>3, LiveTop
<1> QED
  BY <1>1, <1>2, <1>3, <1>4, <1>5, <1>6 DEF ScopesOK

LEMMA DeclareLevel ==
  ASSUME NEW s, NEW rs, Level(s, <<>>, rs), NEW o \in Obj, NEW z,
         z = [s EXCEPT ![Len(s)].slot = o, ![Len(s)].owns = TRUE, ![Len(s)].declared = TRUE]
  PROVE  Level(z, <<>>, rs)
<1>1. PICK n, x : n = Len(s) /\ x = [s[n] EXCEPT !.slot = o, !.owns = TRUE, !.declared = TRUE]
  OBVIOUS
<1>2. /\ s \in Scopings /\ <<>> \in Code /\ ScopesOK(s, rs) /\ LevelOK(s, n + 1, <<>>, rs)
      /\ n \in Nat \ {0} /\ DOMAIN s = 1 .. n /\ n \in DOMAIN s /\ n + 1 \in Nat
      /\ s[n] \in ScopeRecords /\ ScopeOK(s[n])
  BY <1>1, LevelType
<1>3. z = [s EXCEPT ![n] = x]
  BY <1>1, <1>2
<1>4. /\ x \in ScopeRecords /\ x.kind = s[n].kind /\ x.after = s[n].after /\ x.of = s[n].of
      /\ x.exc = s[n].exc /\ x.owns = TRUE /\ x.declared = TRUE /\ x.slot = o
  BY <1>1, <1>2 DEF ScopeRecords
<1>5. ScopeOK(x) /\ Untouched(x)
  BY <1>2, <1>4, NullAssumption DEF ScopeOK, Untouched
<1>6. \A i \in DOMAIN s : s[i].kind = "finally" => i <= n
  BY <1>2
<1>7. /\ z \in Scopings /\ ScopesOK(z, rs)
      /\ Len(z) = n /\ DOMAIN z = DOMAIN s /\ z[n] = x /\ \A j \in DOMAIN s : j # n => z[j] = s[j]
      /\ Live(z, n + 1) = Live(s, n + 1) /\ \A j \in Live(s, n + 1) : j \in DOMAIN s
      /\ \A j \in DOMAIN s : /\ z[j].kind = s[j].kind /\ z[j].of = s[j].of
                             /\ HasFinally(z[j]) <=> HasFinally(s[j])
  <2>1. Reshaped(s, z, n, x, n, rs)
    BY <1>1, <1>2, <1>3, <1>4, <1>5, <1>6, ChangeScopes
  <2> QED
    BY <2>1 DEF Reshaped
<1>8. \A j \in Live(s, n + 1) : Untouched(s[j]) /\ (HasFinally(s[j]) => rs[s[j].of] = 0)
  BY <1>2, AtStatement
<1>9. \A j \in Live(z, n + 1) : Untouched(z[j]) /\ (HasFinally(z[j]) => rs[z[j].of] = 0)
  <2> SUFFICES ASSUME NEW j \in Live(s, n + 1), j \in DOMAIN s
               PROVE Untouched(z[j]) /\ (HasFinally(z[j]) => rs[z[j].of] = 0)
    BY <1>7
  <2>1. HasFinally(z[j]) => rs[z[j].of] = 0
    BY <1>7, <1>8
  <2>2. CASE j = n
    BY <1>5, <1>7, <2>1, <2>2
  <2>3. CASE j # n
    BY <1>7, <1>8, <2>1, <2>3
  <2> QED
    BY <2>2, <2>3
<1>10. LevelOK(z, n + 1, <<>>, rs)
  BY <1>2, <1>7, <1>9, NoCode
<1> QED
  BY <1>2, <1>7, <1>10 DEF Level

(* A throw. *)
LEMMA ThrowLevel ==
  ASSUME NEW s, NEW rs, Level(s, <<>>, rs), \A j \in DOMAIN s : s[j].declared \/ s[j].slot = Null
  PROVE  Level(s, CleanupOf(Len(s)), rs) /\ \A j \in Live(s, Len(s) + 1) : Intact(s[j])
<1>1. PICK n : n = Len(s)
  OBVIOUS
<1>2. /\ s \in Scopings /\ ScopesOK(s, rs) /\ LevelOK(s, n + 1, <<>>, rs)
      /\ n \in Nat \ {0} /\ n + 1 \in Nat /\ n <= Len(s)
      /\ \A j \in Live(s, n + 1) : j \in DOMAIN s
  <2>1. n \in Nat \ {0}
    BY <1>1, LevelType
  <2>2. n <= Len(s)
    BY <1>1, <2>1
  <2> QED
    BY <1>1, <2>1, <2>2, LevelType
<1>3. \A j \in Live(s, n + 1) : Untouched(s[j]) /\ (HasFinally(s[j]) => rs[s[j].of] = 0)
  BY <1>2, AtStatement
<1>4. \A j \in Live(s, n + 1) : Intact(s[j]) /\ (HasFinally(s[j]) => rs[s[j].of] = 0)
  BY <1>2, <1>3 DEF Intact, Untouched
<1>5. LevelOK(s, n + 1, CleanupOf(n), rs) /\ CleanupOf(n) \in Code
  BY <1>2, <1>4, CleanupCode
<1> QED
  BY <1>1, <1>2, <1>4, <1>5 DEF Level

LEMMA RethrowLevel ==
  ASSUME NEW s, NEW rs, Level(s, <<>>, rs), \A j \in DOMAIN s : s[j].declared \/ s[j].slot = Null,
         NEW i \in DOMAIN s, \A j \in i + 1 .. Len(s) : s[j].kind # "finally",
         NEW z, z = [s EXCEPT ![i].exc = Null]
  PROVE  Level(z, CleanupOf(Len(s)), rs) /\ Len(z) = Len(s)
<1>1. PICK n, x : n = Len(s) /\ x = [s[i] EXCEPT !.exc = Null]
  OBVIOUS
<1>2. /\ s \in Scopings /\ ScopesOK(s, rs) /\ LevelOK(s, n + 1, <<>>, rs)
      /\ n \in Nat \ {0} /\ DOMAIN s = 1 .. n /\ n + 1 \in Nat
      /\ s[i] \in ScopeRecords /\ ScopeOK(s[i])
  BY <1>1, LevelType
<1>3. z = [s EXCEPT ![i] = x]
  BY <1>1
<1>4. /\ x \in ScopeRecords /\ x.kind = s[i].kind /\ x.after = s[i].after /\ x.of = s[i].of
      /\ x.exc = Null /\ x.owns = s[i].owns /\ x.declared = s[i].declared /\ x.slot = s[i].slot
  BY <1>1, <1>2 DEF ScopeRecords
<1>5. ScopeOK(x) /\ (Intact(s[i]) => Intact(x))
  BY <1>2, <1>4 DEF ScopeOK, Intact
<1>6. \A j \in DOMAIN s : s[j].kind = "finally" => j <= i
  BY <1>1, <1>2
<1>7. /\ z \in Scopings /\ ScopesOK(z, rs)
      /\ Len(z) = n /\ DOMAIN z = DOMAIN s /\ z[i] = x /\ \A j \in DOMAIN s : j # i => z[j] = s[j]
      /\ Live(z, n + 1) = Live(s, n + 1) /\ \A j \in Live(s, n + 1) : j \in DOMAIN s
      /\ \A j \in DOMAIN s : /\ z[j].kind = s[j].kind /\ z[j].of = s[j].of
                             /\ HasFinally(z[j]) <=> HasFinally(s[j])
  <2>1. Reshaped(s, z, i, x, n, rs)
    BY <1>1, <1>2, <1>3, <1>4, <1>5, <1>6, ChangeScopes
  <2> QED
    BY <2>1 DEF Reshaped
<1>8. \A j \in Live(s, n + 1) : Untouched(s[j]) /\ (HasFinally(s[j]) => rs[s[j].of] = 0)
  BY <1>2, AtStatement
<1>9. \A j \in Live(z, n + 1) : Intact(z[j]) /\ (HasFinally(z[j]) => rs[z[j].of] = 0)
  <2> SUFFICES ASSUME NEW j \in Live(s, n + 1), j \in DOMAIN s
               PROVE Intact(z[j]) /\ (HasFinally(z[j]) => rs[z[j].of] = 0)
    BY <1>7
  <2>1. HasFinally(z[j]) => rs[z[j].of] = 0
    BY <1>7, <1>8
  <2>2. Intact(s[j])
    BY <1>8 DEF Intact, Untouched
  <2>3. CASE j = i
    BY <1>5, <1>7, <2>1, <2>2, <2>3
  <2>4. CASE j # i
    BY <1>7, <2>1, <2>2, <2>4
  <2> QED
    BY <2>3, <2>4
<1>10. LevelOK(z, n + 1, CleanupOf(n), rs) /\ CleanupOf(n) \in Code
  <2>1. n <= Len(z) /\ n \in Nat \ {0} /\ z \in Scopings
    BY <1>2, <1>7
  <2> QED
    BY <1>9, <2>1, CleanupCode
<1> QED
  BY <1>1, <1>7, <1>10 DEF Level


(* Statements that leave blocks. *)
LEMMA CarefulLevel ==
  ASSUME NEW s, NEW rs, Level(s, <<>>, rs), \A j \in DOMAIN s : s[j].declared \/ s[j].slot = Null
  PROVE  /\ \A j \in Live(s, Len(s) + 1) :
              Intact(s[j]) /\ Untouched(s[j]) /\ (HasFinally(s[j]) => rs[s[j].of] = 0)
         /\ \A j \in DOMAIN s : j \in Live(s, Len(s) + 1) =>
              Intact(s[j]) /\ Untouched(s[j]) /\ (HasFinally(s[j]) => rs[s[j].of] = 0)
<1>1. /\ s \in Scopings /\ LevelOK(s, Len(s) + 1, <<>>, rs) /\ Len(s) + 1 \in Nat
      /\ \A j \in Live(s, Len(s) + 1) : j \in DOMAIN s
  BY LevelType
<1>2. \A j \in Live(s, Len(s) + 1) : Untouched(s[j]) /\ (HasFinally(s[j]) => rs[s[j].of] = 0)
  BY <1>1, AtStatement
<1>3. \A j \in Live(s, Len(s) + 1) : Intact(s[j])
  BY <1>1, <1>2 DEF Intact, Untouched
<1> QED
  BY <1>2, <1>3

LEMMA EndBlockLevel ==
  ASSUME NEW s, NEW rs, Level(s, <<>>, rs), \A j \in DOMAIN s : s[j].declared \/ s[j].slot = Null,
         NEW c, c = <<DecRefSlot(Len(s))>> \o (CASE s[Len(s)].kind = "body" -> <<ReturnOp>>
                                                 [] s[Len(s)].kind = "catch" -> <<ReleaseCaught, Leave>>
                                                 [] OTHER -> <<Leave>>)
  PROVE  Level(s, c, rs) /\ ~EndsIn(c, {"unwind"})
<1>1. PICK n : n = Len(s)
  OBVIOUS
<1>2. /\ s \in Scopings /\ ScopesOK(s, rs) /\ n \in Nat \ {0}
      /\ (s[n].kind = "body" <=> n = 1) /\ ScopeOK(s[n])
  BY <1>1, LevelType
<1>3. \A j \in Live(s, n + 1) : Intact(s[j]) /\ Untouched(s[j]) /\ (HasFinally(s[j]) => rs[s[j].of] = 0)
  BY <1>1, CarefulLevel
<1>4. LevelOK(s, n + 1, c, rs) /\ c \in Code /\ ~EndsIn(c, {"unwind"})
  BY <1>1, <1>2, <1>3, EndLevel
<1> QED
  BY <1>1, <1>2, <1>4 DEF Level

(* The closing brace of a destructor that calls the one of the base. *)
LEMMA EndDestructorLevel ==
  ASSUME NEW s, NEW rs, Level(s, <<>>, rs), \A j \in DOMAIN s : s[j].declared \/ s[j].slot = Null,
         Len(s) = 1, NEW code, code = <<DecRefSlot(1), CallSuper, ReturnOp>>
  PROVE  Level(s, code, rs) /\ ~EndsIn(code, {"unwind"})
<1> DEFINE T == [op : Ops, scope : Nat]
<1>1. PICK n : n = Len(s)
  OBVIOUS
<1>2. /\ s \in Scopings /\ ScopesOK(s, rs) /\ n = 1
      /\ (s[n].kind = "body" <=> n = 1) /\ ScopeOK(s[n])
  BY <1>1, LevelType
<1>3. \A j \in Live(s, n + 1) : Intact(s[j])
  BY <1>1, CarefulLevel
<1>4. n \in Live(s, n + 1) /\ (n + 1) - 1 = n /\ n + 1 = 2
  BY <1>2 DEF Live
<1>5. Intact(s[n]) /\ s[n].exc = Null /\ ~HasFinally(s[n]) /\ s[n].kind = "body"
  BY <1>2, <1>3, <1>4 DEF ScopeOK, HasFinally
<1>6. /\ DecRefSlot(n) \in T /\ CallSuper \in T /\ ReturnOp \in T
      /\ DecRefSlot(n).op = "DEC_REF_SLOT" /\ DecRefSlot(n).scope = n
      /\ CallSuper.op = "CALL_SUPER" /\ CallSuper.scope = 0
      /\ ReturnOp.op = "RETURN" /\ ReturnOp.scope = 0
  BY <1>2 DEF DecRefSlot, CallSuper, ReturnOp, Ops
<1>7. PICK d : d = <<DecRefSlot(n), CallSuper>>
  OBVIOUS
<1>8. PICK c : c = d \o <<ReturnOp>>
  OBVIOUS
<1>9. d \in Code /\ DOMAIN d = {1, 2} /\ d[1] = DecRefSlot(n) /\ d[2] = CallSuper /\ code = c
  <2> HIDE DEF T
  <2>1. d \in Seq(T) /\ DOMAIN d = {1, 2} /\ d[1] = DecRefSlot(n) /\ d[2] = CallSuper
    BY <1>6, <1>7
  <2>2. code \in Seq(T) /\ DOMAIN code = 1 .. 3 /\ code[1] = d[1] /\ code[2] = d[2] /\ code[3] = ReturnOp
    BY <1>2, <1>6, <2>1
  <2>3. code = c
    <3>1. c \in Seq(T) /\ DOMAIN c = 1 .. 3 /\ c[1] = d[1] /\ c[2] = d[2] /\ c[3] = ReturnOp
      <4>1. PICK e : e = <<ReturnOp>>
        OBVIOUS
      <4>2. e \in Seq(T) /\ Len(e) = 1 /\ e[1] = ReturnOp
        BY <1>6, <4>1
      <4>3. Len(d) = 2
        BY <1>7
      <4>4. /\ d \o e \in Seq(T) /\ Len(d \o e) = Len(d) + Len(e)
            /\ \A k \in 1 .. Len(d) : (d \o e)[k] = d[k]
            /\ \A k \in Len(d) + 1 .. Len(d) + Len(e) : (d \o e)[k] = e[k - Len(d)]
        <5>1. d \in Seq(T) /\ e \in Seq(T)
          BY <2>1, <4>2
        <5> QED
          BY <5>1, ConcatProperties
      <4>5. /\ DOMAIN (d \o e) = 1 .. 3
            /\ (d \o e)[1] = d[1] /\ (d \o e)[2] = d[2] /\ (d \o e)[3] = e[1]
        <5>1. Len(d \o e) = 3 /\ DOMAIN (d \o e) = 1 .. Len(d \o e)
          BY <4>2, <4>3, <4>4
        <5>2. 1 \in 1 .. Len(d) /\ 2 \in 1 .. Len(d) /\ 3 \in Len(d) + 1 .. Len(d) + Len(e) /\ 3 - Len(d) = 1
          BY <4>2, <4>3
        <5> QED
          BY <4>4, <5>1, <5>2
      <4> QED
        BY <1>8, <4>1, <4>2, <4>4, <4>5
    <3>2. \A k \in 1 .. 3 : code[k] = c[k]
      BY <2>2, <3>1
    <3>3. code \in [1 .. 3 -> T] /\ c \in [1 .. 3 -> T]
      BY <2>2, <3>1
    <3> QED
      BY <3>2, <3>3
  <2> QED
    BY <2>1, <2>3 DEF T, Code
<1>10. \A p \in DOMAIN d :
         /\ d[p].op \in {"DEC_REF_SLOT", "CALL_SUPER"}
         /\ d[p].op = "CALL_SUPER" => d[p].scope = 0
         /\ d[p].op = "DEC_REF_SLOT" => d[p].scope = n
  <2> SUFFICES ASSUME NEW p \in DOMAIN d
               PROVE  /\ d[p].op \in {"DEC_REF_SLOT", "CALL_SUPER"}
                      /\ d[p].op = "CALL_SUPER" => d[p].scope = 0
                      /\ d[p].op = "DEC_REF_SLOT" => d[p].scope = n
    OBVIOUS
  <2>1. CASE p = 1
    BY <1>6, <1>9, <2>1
  <2>2. CASE p = 2
    BY <1>6, <1>9, <2>2
  <2> QED
    BY <1>9, <2>1, <2>2
<1>11. \A p, q \in DOMAIN d : d[p] = d[q] => p = q
  <2>1. DecRefSlot(n) # CallSuper
    BY <1>6
  <2> QED
    BY <1>9, <2>1
<1>12. Ended(s, n + 1, d, ReturnOp, c)
  <2>1. CanEnd(s, n + 1, d, ReturnOp)
    <3>1. ReturnOp.op \in Final
      BY <1>6 DEF Final
    <3>2. n \in 1 .. (n + 1) - 1
      BY <1>2, <1>4
    <3> QED
      BY <1>5, <1>6, <1>10, <1>11, <3>1, <3>2 DEF CanEnd
  <2> QED
    BY <1>6, <1>8, <1>9, <2>1, EndedCode DEF T
<1>13. /\ c \in Code /\ c # <<DropOperand>> /\ c # <<>> /\ Written(s, n + 1, c)
       /\ \A ops : EndsIn(c, ops) <=> ReturnOp.op \in ops
       /\ \A p \in DOMAIN d : p \in DOMAIN c /\ c[p] = d[p]
       /\ \A p \in DOMAIN c : c[p] = ReturnOp \/ (p \in DOMAIN d /\ c[p] = d[p])
  BY <1>12 DEF Ended
<1>14. /\ ~EndsIn(c, {"leave"}) /\ ~EndsIn(c, {"unwind"}) /\ ~EndsIn(c, {"break", "continue"})
       /\ EndsIn(c, {"RETURN"})
  BY <1>6, <1>13
<1>15. Releases(c, n)
  <2>1. 1 \in DOMAIN d
    BY <1>9
  <2> QED
    BY <1>9, <1>13, <2>1 DEF Releases
<1>16. \A p \in DOMAIN c : c[p].op # "finally"
  BY <1>6, <1>10, <1>13
<1>17. ReturnCode(s, n + 1, c, rs)
  <2>1. \A j \in 1 .. (n + 1) - 1 : j = n
    BY <1>2
  <2> QED
    BY <1>5, <1>15, <1>16, <2>1 DEF ReturnCode
<1>18. LevelOK(s, n + 1, c, rs)
  BY <1>13, <1>14, <1>17 DEF LevelOK, LeaveCode, UnwindCode, LoopCode, Unrun, Statement
<1> QED
  BY <1>1, <1>2, <1>9, <1>13, <1>14, <1>18 DEF Level

LEMMA LoopLeaves ==
  ASSUME NEW s, NEW rs, Level(s, <<>>, rs), \A j \in DOMAIN s : s[j].declared \/ s[j].slot = Null,
         NEW j \in DOMAIN s, s[j].kind = "loop", NEW op \in {"break", "continue"},
         \A k \in j .. Len(s) : /\ s[k].kind # "finally"
                                /\ s[k].kind = "catch" => "catch" \in Habits
                                /\ HasFinally(s[k]) => "jump" \in Habits,
         NEW c, c = [k \in 1 .. Len(s) + 1 - j |-> DecRefSlot(Len(s) + 1 - k)] \o <<[op |-> op, scope |-> j]>>
  PROVE  Level(s, c, rs) /\ ~EndsIn(c, {"unwind"})
<1>1. PICK n : n = Len(s)
  OBVIOUS
<1>2. /\ s \in Scopings /\ ScopesOK(s, rs) /\ n \in Nat /\ j \in 1 .. n /\ DOMAIN s = 1 .. n
      /\ \A k \in DOMAIN s : ScopeOK(s[k])
  BY <1>1, LevelType
<1>3. \A k \in 1 .. n : k \in Live(s, n + 1) =>
        Intact(s[k]) /\ Untouched(s[k]) /\ (HasFinally(s[k]) => rs[s[k].of] = 0)
  BY <1>1, <1>2, CarefulLevel
<1>4. \A k \in 1 .. (n + 1) - 1 : k >= j => k \in Live(s, n + 1)
  <2>1. n + 1 \in Nat /\ j \in Nat /\ 0 < j /\ j <= n + 1 /\ (n + 1) - 1 = n
    BY <1>2
  <2>2. \A k \in j .. (n + 1) - 1 : s[k].kind # "finally"
    BY <1>1, <2>1
  <2> QED
    BY <2>1, <2>2, AllLive
<1>5. \A k \in j .. n : /\ Intact(s[k]) /\ s[k].kind # "finally"
                        /\ s[k].exc # Null => "catch" \in Habits
                        /\ HasFinally(s[k]) => "jump" \in Habits
  <2> SUFFICES ASSUME NEW k \in j .. n
               PROVE  /\ Intact(s[k]) /\ s[k].kind # "finally"
                      /\ s[k].exc # Null => "catch" \in Habits
                      /\ HasFinally(s[k]) => "jump" \in Habits
    OBVIOUS
  <2>1. k \in 1 .. n /\ k \in Live(s, n + 1)
    BY <1>2, <1>4
  <2>2. s[k].exc # Null => s[k].kind = "catch"
    BY <1>2, <2>1 DEF ScopeOK
  <2> QED
    BY <1>1, <1>3, <2>1, <2>2
<1>6. LevelOK(s, n + 1, c, rs) /\ c \in Code
  BY <1>1, <1>2, <1>3, <1>5, LoopLevel
<1>7. ~EndsIn(c, {"unwind"})
  <2>1. PICK d, x : d = [k \in 1 .. n + 1 - j |-> DecRefSlot(n + 1 - k)] /\ x = [op |-> op, scope |-> j]
    OBVIOUS
  <2>2. PICK e : e = n + 1 - j
    OBVIOUS
  <2>3. e \in Nat /\ \A k \in 1 .. e : n + 1 - k \in Nat
    BY <1>2, <2>2
  <2> DEFINE T == [op : Ops, scope : Nat]
  <2>4. x \in T /\ x.op # "unwind" /\ \A k \in 1 .. e : DecRefSlot(n + 1 - k) \in T
    BY <1>2, <2>1, <2>3 DEF DecRefSlot, Ops
  <2> HIDE DEF T
  <2>5. d \in Seq(T)
    <3>1. d \in [1 .. e -> T]
      BY <2>1, <2>2, <2>4
    <3> QED
      BY <2>3, <3>1
  <2>6. c = d \o <<x>>
    BY <1>1, <2>1
  <2>7. c[Len(c)] = x
    <3>1. x \in T
      BY <2>4
    <3>2. Len(d \o <<x>>) = Len(d) + 1 /\ (d \o <<x>>)[Len(d) + 1] = x
      BY <2>5, <3>1
    <3> QED
      BY <2>6, <3>2
  <2> QED
    BY <2>4, <2>7 DEF EndsIn
<1> QED
  BY <1>1, <1>2, <1>6, <1>7 DEF Level

LEMMA ReturnLeaves ==
  ASSUME NEW rs, Level(Scopes, <<>>, rs), \A j \in DOMAIN Scopes : Scopes[j].declared \/ Scopes[j].slot = Null,
         \A k \in 1 .. Inner : /\ Scopes[k].kind # "finally"
                               /\ Scopes[k].kind = "catch" => "catch" \in Habits,
         NEW c, c = FlattenSeq([k \in 1 .. Inner |-> ExitCode(Inner + 1 - k)]) \o <<ReturnOp>>
  PROVE  Level(Scopes, c, rs) /\ ~EndsIn(c, {"unwind"})
<1>1. PICK s, n : s = Scopes /\ n = Inner
  OBVIOUS
<1>2. /\ s \in Scopings /\ ScopesOK(s, rs) /\ n \in Nat \ {0} /\ DOMAIN s = 1 .. n
      /\ \A k \in DOMAIN s : ScopeOK(s[k])
  BY <1>1, LevelType DEF Inner
<1>3. \A k \in 1 .. n : k \in Live(s, n + 1) =>
        Intact(s[k]) /\ Untouched(s[k]) /\ (HasFinally(s[k]) => rs[s[k].of] = 0)
  BY <1>1, <1>2, CarefulLevel DEF Inner
<1>4. \A k \in 1 .. (n + 1) - 1 : k >= 1 => k \in Live(s, n + 1)
  <2>1. n + 1 \in Nat /\ 1 <= n + 1 /\ (n + 1) - 1 = n
    BY <1>2
  <2>2. \A k \in 1 .. (n + 1) - 1 : s[k].kind # "finally"
    BY <1>1, <2>1
  <2> QED
    BY <2>1, <2>2, AllLive
<1>5. \A k \in 1 .. n : /\ Intact(s[k]) /\ s[k].kind # "finally"
                        /\ s[k].exc # Null => "catch" \in Habits
                        /\ HasFinally(s[k]) => rs[s[k].of] = 0
  <2> SUFFICES ASSUME NEW k \in 1 .. n
               PROVE  /\ Intact(s[k]) /\ s[k].kind # "finally"
                      /\ s[k].exc # Null => "catch" \in Habits
                      /\ HasFinally(s[k]) => rs[s[k].of] = 0
    OBVIOUS
  <2>1. k \in Live(s, n + 1)
    BY <1>2, <1>4
  <2>2. s[k].exc # Null => s[k].kind = "catch"
    BY <1>2 DEF ScopeOK
  <2> QED
    BY <1>1, <1>3, <2>1, <2>2
<1>6. PICK d : d = FlattenSeq([k \in 1 .. Inner |-> ExitCode(Inner + 1 - k)])
  OBVIOUS
<1>7. d \in Code /\ Exits(d, 1)
  BY <1>1, <1>2, <1>6, ReturnWritten
<1>8. c = d \o <<ReturnOp>>
  BY <1>6
<1>9. LevelOK(s, n + 1, d \o <<ReturnOp>>, rs) /\ d \o <<ReturnOp>> \in Code
  <2>1. Scopes \in Scopings /\ Inner \in Nat \ {0}
    BY <1>1, <1>2
  <2>2. \A j \in 1 .. Inner : /\ Intact(Scopes[j]) /\ Scopes[j].kind # "finally"
                              /\ Scopes[j].exc # Null => "catch" \in Habits
                              /\ HasFinally(Scopes[j]) => rs[Scopes[j].of] = 0
    BY <1>1, <1>5
  <2>3. LevelOK(Scopes, Inner + 1, d \o <<ReturnOp>>, rs) /\ d \o <<ReturnOp>> \in Code
    BY <1>7, <2>1, <2>2, ReturnLevel
  <2> QED
    BY <1>1, <2>3
<1>10. ~EndsIn(c, {"unwind"})
  <2> DEFINE T == [op : Ops, scope : Nat]
  <2>1. d \in Seq(T) /\ ReturnOp \in T /\ ReturnOp.op # "unwind"
    BY <1>7 DEF Code, ReturnOp, Ops
  <2> HIDE DEF T
  <2>2. c[Len(c)] = ReturnOp
    BY <1>8, <2>1
  <2> QED
    BY <2>1, <2>2 DEF EndsIn
<1> QED
  <2>1. Len(Scopes) = n
    BY <1>1 DEF Inner
  <2> QED
    BY <1>1, <1>2, <1>8, <1>9, <1>10, <2>1 DEF Level


(* Instructions that release. *)
LEMMA SlotLevel ==
  ASSUME NEW s, NEW c, NEW rs, Level(s, c, rs), c # <<>>, c[1].op = "DEC_REF_SLOT",
         NEW k, k = c[1].scope, NEW z, z = [s EXCEPT ![k].owns = FALSE]
  PROVE  /\ k \in DOMAIN s /\ Intact(s[k]) /\ Level(z, Tail(c), rs)
         /\ Len(z) = Len(s) /\ \A j \in DOMAIN s : j # k => z[j] = s[j]
         /\ z[k] = [s[k] EXCEPT !.owns = FALSE]
         /\ \A ops : EndsIn(Tail(c), ops) <=> EndsIn(c, ops)
         /\ Tail(c) # <<DropOperand>> /\ c # <<DropOperand>> /\ Tail(c) # <<>>
<1>1. PICK n, d : n = Len(s) /\ d = Tail(c)
  OBVIOUS
<1>2. /\ s \in Scopings /\ ScopesOK(s, rs) /\ n \in Nat \ {0} /\ DOMAIN s = 1 .. n /\ c \in Code
      /\ \A j \in DOMAIN s : ScopeOK(s[j]) /\ s[j] \in ScopeRecords
      /\ LevelOK(s, n + 1, c, rs) /\ n + 1 \in Nat /\ (n + 1) - 1 = n /\ (n + 1) - 2 = n - 1
      /\ (n + 1) - 1 <= Len(s)
  <2>1. n \in Nat
    BY <1>1, LevelType
  <2>2. (n + 1) - 1 <= Len(s)
    BY <1>1, <2>1
  <2> QED
    BY <1>1, <2>2, LevelType
<1>3. k \in 1 .. n /\ Intact(s[k]) /\ LevelOK(z, n + 1, d, rs)
  BY <1>1, <1>2, TailRelease
<1>4. c[1].op \notin Final /\ c # <<DropOperand>>
  BY DEF Final, DropOperand
<1>5. Written(s, n + 1, c) /\ 1 \in DOMAIN c /\ d \in Code
  BY <1>1, <1>2, <1>4, CodeTail DEF LevelOK
<1>6. /\ \A ops : EndsIn(d, ops) <=> EndsIn(c, ops)
      /\ d # <<DropOperand>> /\ d # <<>>
  BY <1>1, <1>2, <1>4, <1>5, TailWritten
<1>7. \A i \in DOMAIN s : s[i].kind = "finally" => i <= k
  <2> SUFFICES ASSUME NEW i \in DOMAIN s, s[i].kind = "finally", k < i PROVE FALSE
    BY <1>2, <1>3
  <2>1. Released(c, k)
    BY <1>5 DEF Released
  <2>2. Len(c) \in DOMAIN c /\ c[Len(c)].op \in Final
    BY <1>2, <1>5, CodeTail DEF Written
  <2>3. k \in 1 .. n - 1 /\ i \in 1 .. n
    BY <1>2, <1>3
  <2>4. ~EndsIn(c, {"leave"})
    BY <1>2, <2>1, <2>3 DEF LevelOK, LeaveCode
  <2>5. ~EndsIn(c, {"unwind"})
    BY <1>2, <2>1, <2>3 DEF LevelOK, UnwindCode
  <2>6. ~EndsIn(c, {"RETURN"})
    BY <1>2, <2>3 DEF LevelOK, ReturnCode
  <2>7. EndsIn(c, {"break", "continue"})
    BY <2>2, <2>4, <2>5, <2>6 DEF EndsIn, Final
  <2>8. PICK j : j = c[Len(c)].scope
    OBVIOUS
  <2>9. /\ j \in 1 .. n
        /\ \A l \in 1 .. j - 1 : ~Released(c, l)
        /\ \A l \in j .. n : s[l].kind # "finally"
    BY <1>2, <2>7, <2>8 DEF LevelOK, LoopCode
  <2>10. ~(k \in 1 .. j - 1)
    BY <2>1, <2>9
  <2>11. i \in j .. n
    BY <2>3, <2>9, <2>10
  <2> QED
    BY <2>9, <2>11
<1>8. PICK x : x = [s[k] EXCEPT !.owns = FALSE]
  OBVIOUS
<1>9. z = [s EXCEPT ![k] = x]
  BY <1>8
<1>10. /\ x \in ScopeRecords /\ x.kind = s[k].kind /\ x.after = s[k].after /\ x.of = s[k].of
       /\ x.exc = s[k].exc /\ x.owns = FALSE /\ x.declared = s[k].declared /\ x.slot = s[k].slot
  BY <1>2, <1>3, <1>8 DEF ScopeRecords
<1>11. ScopeOK(x)
  BY <1>2, <1>3, <1>10 DEF ScopeOK
<1>12. Reshaped(s, z, k, x, n, rs)
  BY <1>1, <1>2, <1>3, <1>7, <1>9, <1>10, <1>11, ChangeScopes
<1>13. z \in Scopings /\ ScopesOK(z, rs) /\ Len(z) = n /\ z[k] = x /\ \A j \in DOMAIN s : j # k => z[j] = s[j]
  BY <1>12 DEF Reshaped
<1>14. Level(z, d, rs)
  BY <1>3, <1>5, <1>13 DEF Level
<1> QED
  BY <1>1, <1>2, <1>3, <1>4, <1>6, <1>8, <1>13, <1>14

ReleasesCaught(s, d, z, k, rs) ==
  /\ Level(z, d, rs) /\ Len(z) = Len(s) /\ \A j \in DOMAIN s : j # k => z[j] = s[j]
  /\ z[k] = [s[k] EXCEPT !.exc = Null] /\ ~EndsIn(d, {"unwind"})
LEMMA CaughtLevel ==
  ASSUME NEW s, NEW c, NEW rs, Level(s, c, rs), c # <<>>, c[1].op = "DEC_REF_CAUGHT",
         NEW k, k = Len(s), NEW z, z = [s EXCEPT ![k].exc = Null], NEW d, d = Tail(c)
  PROVE  ReleasesCaught(s, d, z, k, rs)
<1>1. PICK n : n = Len(s)
  OBVIOUS
<1>2. /\ s \in Scopings /\ ScopesOK(s, rs) /\ n \in Nat \ {0} /\ DOMAIN s = 1 .. n /\ c \in Code
      /\ s[n] \in ScopeRecords /\ ScopeOK(s[n])
      /\ LevelOK(s, n + 1, c, rs) /\ n + 1 \in Nat /\ (n + 1) - 1 = n
      /\ (n + 1) - 1 <= Len(s)
  <2>1. n \in Nat
    BY <1>1, LevelType
  <2>2. (n + 1) - 1 <= Len(s)
    BY <1>1, <2>1
  <2> QED
    BY <1>1, <2>2, LevelType
<1>3. LevelOK(z, n + 1, d, rs)
  <2>1. LevelOK([s EXCEPT ![(n + 1) - 1].exc = Null], n + 1, d, rs)
    BY <1>1, <1>2, TailCaught
  <2> QED
    BY <1>1, <1>2, <2>1
<1>4. c[1].op \notin Final /\ c # <<DropOperand>>
  BY DEF Final, DropOperand
<1>5. Written(s, n + 1, c) /\ 1 \in DOMAIN c /\ d \in Code
  BY <1>1, <1>2, <1>4, CodeTail DEF LevelOK
<1>6. /\ \A ops : EndsIn(d, ops) <=> EndsIn(c, ops)
      /\ d # <<DropOperand>> /\ d # <<>>
  BY <1>1, <1>2, <1>4, <1>5, TailWritten
<1>7. EndsIn(c, {"leave"})
  BY <1>5 DEF Written
<1>8. EndsIn(d, {"leave"}) /\ ~EndsIn(d, {"unwind"})
  <2>1. EndsIn(d, {"leave"})
    BY <1>6, <1>7
  <2> QED
    BY <2>1 DEF EndsIn
<1>9. PICK x : x = [s[n] EXCEPT !.exc = Null]
  OBVIOUS
<1>10. z = [s EXCEPT ![n] = x]
  BY <1>1, <1>9
<1>11. /\ x \in ScopeRecords /\ x.kind = s[n].kind /\ x.after = s[n].after /\ x.of = s[n].of
       /\ x.exc = Null /\ x.owns = s[n].owns /\ x.declared = s[n].declared /\ x.slot = s[n].slot
  BY <1>2, <1>9 DEF ScopeRecords
<1>12. ScopeOK(x)
  BY <1>2, <1>11 DEF ScopeOK
<1>13. Reshaped(s, z, n, x, n, rs)
  <2>1. \A i \in DOMAIN s : s[i].kind = "finally" => i <= n
    BY <1>2
  <2>2. n \in DOMAIN s
    BY <1>2
  <2> QED
    BY <1>1, <1>2, <1>10, <1>11, <1>12, <2>1, <2>2, ChangeScopes
<1>14. z \in Scopings /\ ScopesOK(z, rs) /\ Len(z) = n /\ z[n] = x /\ \A j \in DOMAIN s : j # n => z[j] = s[j]
  BY <1>13 DEF Reshaped
<1>15. Level(z, d, rs)
  BY <1>3, <1>5, <1>14 DEF Level
<1> QED
  BY <1>1, <1>8, <1>9, <1>14, <1>15 DEF ReleasesCaught

(* The destructor of the base is called. *)
LEMMA SuperLevel ==
  ASSUME NEW s, NEW c, NEW rs, Level(s, c, rs), c # <<>>, c[1].op = "CALL_SUPER",
         NEW d, d = Tail(c)
  PROVE  Level(s, d, rs) /\ \A ops : EndsIn(d, ops) <=> EndsIn(c, ops)
<1>1. PICK n : n = Len(s)
  OBVIOUS
<1>2. /\ s \in Scopings /\ ScopesOK(s, rs) /\ c \in Code /\ LevelOK(s, n + 1, c, rs) /\ n + 1 \in Nat
  BY <1>1, LevelType
<1>3. LevelOK(s, n + 1, d, rs) /\ \A ops : EndsIn(d, ops) <=> EndsIn(c, ops)
  BY <1>2, TailSuper
<1>4. d \in Code
  BY <1>2, CodeTail
<1> QED
  BY <1>1, <1>2, <1>3, <1>4 DEF Level

LEMMA OperandLevel ==
  ASSUME NEW s, NEW rs
  PROVE  Level(s, <<DropOperand>>, rs) <=> Level(s, <<>>, rs)
<1>1. <<>> \in Code /\ <<DropOperand>> \in Code
  BY DEF Code, DropOperand, Ops
<1>2. ASSUME NEW c, NEW d, c \in {<<>>, <<DropOperand>>}, d \in {<<>>, <<DropOperand>>}, Level(s, c, rs)
      PROVE  Level(s, d, rs)
  <2>1. s \in Scopings /\ Len(s) + 1 \in Nat /\ LevelOK(s, Len(s) + 1, c, rs) /\ ScopesOK(s, rs)
    BY <1>2, LevelType
  <2>2. \A j \in Live(s, Len(s) + 1) : Untouched(s[j]) /\ (HasFinally(s[j]) => rs[s[j].of] = 0)
    BY <1>2, <2>1, AtStatement
  <2>3. LevelOK(s, Len(s) + 1, <<>>, rs)
    BY <2>1, <2>2, NoCode
  <2>4. LevelOK(s, Len(s) + 1, <<DropOperand>>, rs)
    BY <2>1, <2>2, OperandCode
  <2> QED
    BY <1>1, <1>2, <2>1, <2>3, <2>4 DEF Level
<1> QED
  BY <1>2


(* Instructions that open or close blocks. *)
RunsFinally(s, c, k, t, z, rs, rz) ==
  /\ k \in DOMAIN s /\ HasFinally(s[k]) /\ t \in Try /\ rs[t] = 0
  /\ Level(z, <<>>, rz)
  /\ ~EndsIn(Tail(c), {"unwind"}) /\ c # <<DropOperand>>
LEMMA RunFinallyLevel ==
  ASSUME NEW s, NEW c, NEW rs \in [Try -> Nat], Level(s, c, rs), c # <<>>, c[1].op = "finally",
         \A j, k \in DOMAIN s : HasFinally(s[j]) /\ HasFinally(s[k]) /\ s[j].of = s[k].of => j = k,
         NEW k, k = c[1].scope, NEW t, t = s[k].of,
         NEW z, z = Append(s, Scope("finally", t, Null, Tail(c))), NEW rz, rz = [rs EXCEPT ![t] = 1]
  PROVE  RunsFinally(s, c, k, t, z, rs, rz)
<1>1. PICK n, d : n = Len(s) /\ d = Tail(c)
  OBVIOUS
<1>2. /\ s \in Scopings /\ ScopesOK(s, rs) /\ n \in Nat \ {0} /\ DOMAIN s = 1 .. n /\ c \in Code
      /\ \A j \in DOMAIN s : ScopeOK(s[j]) /\ s[j] \in ScopeRecords
      /\ LevelOK(s, n + 1, c, rs) /\ n + 1 \in Nat /\ (n + 1) - 1 = n
      /\ (n + 1) - 1 <= Len(s)
  <2>1. n \in Nat
    BY <1>1, LevelType
  <2>2. (n + 1) - 1 <= Len(s)
    BY <1>1, <2>1
  <2> QED
    BY <1>1, <2>2, LevelType
<1>3. /\ k \in 1 .. n /\ HasFinally(s[k]) /\ rs[t] = 0
      /\ LevelOK(s, n + 1, d, rz)
      /\ EndsIn(d, {"RETURN"}) /\ d # <<DropOperand>>
  <2>1. \A j, l \in 1 .. (n + 1) - 1 : HasFinally(s[j]) /\ HasFinally(s[l]) /\ s[j].of = s[l].of => j = l
    BY <1>2
  <2>2. /\ c[1].scope \in 1 .. (n + 1) - 1 /\ HasFinally(s[c[1].scope]) /\ rs[s[c[1].scope].of] = 0
        /\ LevelOK(s, n + 1, Tail(c), [rs EXCEPT ![s[c[1].scope].of] = 1])
        /\ EndsIn(Tail(c), {"RETURN"}) /\ Tail(c) # <<DropOperand>>
    BY <1>2, <2>1, TailFinally
  <2> QED
    BY <1>1, <1>2, <2>2
<1>4. t \in Try
  BY <1>2, <1>3 DEF HasFinally, ScopeRecords
<1>5. /\ d \in Code /\ d # <<>> /\ d[Len(d)] = ReturnOp
  <2>1. d \in Code /\ d # <<>> /\ d[Len(d)].op = "RETURN"
    BY <1>1, <1>2, <1>3, CodeTail DEF EndsIn
  <2>2. Written(s, n + 1, d)
    BY <1>3 DEF LevelOK
  <2>3. Len(d) \in DOMAIN d /\ d[Len(d)] \in [op : Ops, scope : Nat]
    BY <2>1, CodeTail
  <2>4. d[Len(d)].scope = 0
    BY <2>1, <2>2, <2>3 DEF Written
  <2> QED
    BY <2>1, <2>3, <2>4 DEF ReturnOp
<1>6. PICK x : x = Scope("finally", t, Null, d)
  OBVIOUS
<1>7. /\ x \in ScopeRecords /\ x.kind = "finally" /\ x.of = t /\ x.exc = Null /\ x.after = d
      /\ x.owns = FALSE /\ x.declared = FALSE /\ x.slot = Null /\ Untouched(x)
  BY <1>4, <1>5, <1>6 DEF Scope, ScopeRecords, Untouched, Kinds
<1>8. ScopeOK(x) /\ Returning(x) /\ ~HasFinally(x)
  <2>1. t # Null
    BY <1>4, NullAssumption
  <2> QED
    BY <1>3, <1>5, <1>7, <2>1 DEF ScopeOK, Returning, HasFinally, Last
<1>9. \A i \in DOMAIN s : s[i].kind # "finally"
  <2>1. EndsIn(c, {"RETURN"})
    <3>1. c # <<DropOperand>>
      BY DEF DropOperand
    <3> QED
      BY <1>2, <3>1, CodeTail DEF LevelOK, Written
  <2> QED
    BY <1>2, <2>1 DEF LevelOK, ReturnCode
<1>10. x.kind = "finally" => LevelOK(s, Len(s) + 1, x.after, rz)
  BY <1>1, <1>3, <1>7
<1>11. Level(Append(s, x), <<>>, rz)
  BY <1>2, <1>7, <1>8, <1>9, <1>10, PushLevel
<1>12. ~EndsIn(d, {"unwind"}) /\ c # <<DropOperand>>
  BY <1>3 DEF EndsIn, DropOperand
<1> QED
  BY <1>1, <1>2, <1>3, <1>4, <1>6, <1>11, <1>12 DEF RunsFinally

Leaves(s, c, rs, n) ==
  /\ n > 1 /\ n - 1 \in Nat \ {0} /\ n - 1 \in 1 .. Len(s) /\ c # <<DropOperand>>
  /\ Front(s) = SubSeq(s, 1, n - 1) /\ Last(s) = s[n]
  /\ s[n].owns = FALSE /\ s[n].exc = Null
  /\ \A j \in Live(s, n + 1) : j < n => Untouched(s[j])
  /\ \A j \in Live(s, n + 1) : HasFinally(s[j]) => rs[s[j].of] = 0
  /\ ~EndsIn(c, {"unwind"})

LEMMA LeaveFacts ==
  ASSUME NEW s, NEW c, NEW rs, Level(s, c, rs), c # <<>>, c[1].op = "leave", NEW n, n = Len(s)
  PROVE  Leaves(s, c, rs, n)
<1>1. /\ s \in Scopings /\ n \in Nat \ {0} /\ c \in Code /\ s # <<>>
      /\ LevelOK(s, n + 1, c, rs) /\ n + 1 \in Nat /\ (n + 1) - 1 = n
      /\ s[n] \in ScopeRecords
  BY LevelType
<1>2. c[1].op \in Final /\ c # <<DropOperand>>
  BY DEF Final, DropOperand
<1>3. /\ \A j : ~Releases(c, j)
      /\ \A k \in DOMAIN c : c[k].op # "DEC_REF_CAUGHT"
      /\ \A ops : EndsIn(c, ops) <=> c[1].op \in ops
  BY <1>1, <1>2, AtFinal
<1>4. EndsIn(c, {"leave"}) /\ ~EndsIn(c, {"RETURN"}) /\ ~EndsIn(c, {"unwind"})
  BY <1>3
<1>5. /\ n + 1 > 2
      /\ \A j \in Live(s, n + 1) : j < n => Untouched(s[j])
      /\ ~s[n].owns /\ s[n].exc = Null
  BY <1>1, <1>3, <1>4 DEF LevelOK, LeaveCode
<1>6. s[n].owns = FALSE
  BY <1>1, <1>5 DEF ScopeRecords
<1>7. \A j \in Live(s, n + 1) : HasFinally(s[j]) => rs[s[j].of] = 0
  BY <1>1, <1>4 DEF LevelOK, Unrun
<1>8. n > 1 /\ n - 1 \in Nat \ {0} /\ n - 1 \in 1 .. Len(s)
  BY <1>1, <1>5
<1>9. Front(s) = SubSeq(s, 1, n - 1) /\ Last(s) = s[n]
  BY <1>1, FrontCut
<1> QED
  BY <1>2, <1>4, <1>5, <1>6, <1>7, <1>8, <1>9 DEF Leaves

(* The blocks that are left when the innermost one is closed. *)
Fronts(s, rs, n, y) ==
  /\ y \in Scopings /\ ScopesOK(y, rs)
  /\ Len(y) = n - 1 /\ DOMAIN y = 1 .. n - 1
  /\ \A j \in 1 .. n - 1 : y[j] = s[j] /\ j \in DOMAIN s
  /\ \A j \in Live(y, n) : j \in 1 .. n - 1 /\ j \in Live(s, n + 1) /\ j < n

LEMMA FrontLevel ==
  ASSUME NEW s \in Scopings, NEW rs, ScopesOK(s, rs), NEW n, n = Len(s), n > 1, ~Returning(s[n]),
         NEW z, z = Front(s)
  PROVE  Fronts(s, rs, n, z)
<1>1. n \in Nat \ {0} /\ n - 1 \in 1 .. Len(s) /\ n - 1 \in 0 .. Len(s) /\ DOMAIN s = 1 .. n /\ n - 1 \in Nat
  BY ScopingType
<1>3. s # <<>> /\ z = SubSeq(s, 1, n - 1)
  BY FrontCut DEF ScopesOK
<1>4. z \in Scopings /\ ScopesOK(z, rs)
  BY <1>1, <1>3, CutScopes
<1>5. Len(z) = n - 1 /\ DOMAIN z = 1 .. n - 1 /\ \A j \in 1 .. n - 1 : z[j] = s[j]
  BY <1>1, <1>3, CutAt
<1>6. Live(z, n) = Live(s, n) /\ \A j \in Live(s, n) : j \in 1 .. n - 1
  BY <1>1, <1>5, LivePrefix
<1>7. \A j \in Live(s, n) : j \in Live(s, n + 1) /\ j < n
  BY <1>1, LiveTop
<1> QED
  BY <1>1, <1>4, <1>5, <1>6, <1>7 DEF Fronts

LEMMA LeaveLevel ==
  ASSUME NEW s, NEW c, NEW rs, Level(s, c, rs), c # <<>>, c[1].op = "leave"
  PROVE  Level(Front(s), Last(s).after, rs) /\ Last(s).after # <<DropOperand>>
<1>1. PICK n, z, d : n = Len(s) /\ z = Front(s) /\ d = s[n].after
  OBVIOUS
<1>2. /\ n > 1 /\ n - 1 \in Nat \ {0} /\ n - 1 \in 1 .. Len(s)
      /\ z = SubSeq(s, 1, n - 1) /\ Last(s) = s[n]
      /\ \A j \in Live(s, n + 1) : j < n => Untouched(s[j])
      /\ \A j \in Live(s, n + 1) : HasFinally(s[j]) => rs[s[j].of] = 0
  <2>1. Leaves(s, c, rs, n)
    BY <1>1, LeaveFacts
  <2> QED
    BY <1>1, <2>1 DEF Leaves
<1>3. /\ s \in Scopings /\ ScopesOK(s, rs) /\ n \in Nat \ {0} /\ DOMAIN s = 1 .. n /\ n \in DOMAIN s
      /\ s[n] \in ScopeRecords /\ ScopeOK(s[n])
  BY <1>1, LevelType
<1>4. z \in Scopings /\ ScopesOK(z, rs)
  BY <1>2, <1>3, CutScopes
<1>5. Len(z) = n - 1 /\ \A j \in 1 .. n - 1 : z[j] = s[j]
  <2>1. n - 1 \in 0 .. Len(s)
    BY <1>2
  <2> QED
    BY <1>2, <1>3, <2>1, CutAt
<1>6. d \in Code /\ d # <<DropOperand>>
  BY <1>1, <1>3 DEF ScopeRecords, ScopeOK
<1>7. CASE d = <<>>
  <2>1. ~Returning(s[n])
    BY <1>1, <1>7 DEF Returning
  <2>2. \A j \in Live(z, n) : j \in 1 .. n - 1 /\ j \in Live(s, n + 1) /\ j < n
    <3>1. Fronts(s, rs, n, z)
      BY <1>1, <1>2, <1>3, <2>1, FrontLevel
    <3> QED
      BY <3>1 DEF Fronts
  <2>3. \A j \in Live(z, n) : Untouched(z[j]) /\ (HasFinally(z[j]) => rs[z[j].of] = 0)
    BY <1>2, <1>5, <2>2
  <2>4. LevelOK(z, n, <<>>, rs)
    BY <1>3, <1>4, <2>3, NoCode
  <2> QED
    BY <1>1, <1>2, <1>3, <1>4, <1>5, <1>6, <1>7, <2>4 DEF Level
<1>8. CASE d # <<>>
  <2>1. s[n].kind = "finally"
    BY <1>1, <1>3, <1>8 DEF ScopeOK
  <2>2. LevelOK(s, n, d, rs)
    BY <1>1, <1>3, <2>1 DEF ScopesOK
  <2>3. n \in Nat /\ n - 1 <= Len(s) /\ n - 1 <= Len(z)
    BY <1>1, <1>3, <1>5
  <2>4. LevelOK(z, n, d, rs)
    BY <1>3, <1>4, <1>5, <1>6, <2>2, <2>3, SamePrefix
  <2>5. Len(z) + 1 = n
    BY <1>3, <1>5
  <2> QED
    BY <1>1, <1>2, <1>4, <1>6, <2>4, <2>5 DEF Level
<1> QED
  BY <1>7, <1>8


LEMMA LeaveTryLevel ==
  ASSUME NEW s, NEW c, NEW rs \in [Try -> Nat], Level(s, c, rs), c # <<>>, c[1].op = "leave",
         \A j, k \in DOMAIN s : HasFinally(s[j]) /\ HasFinally(s[k]) /\ s[j].of = s[k].of => j = k,
         NEW t, t = Last(s).of, HasFinally(Last(s)),
         NEW z, z = Append(Front(s), Scope("finally", t, Null, <<>>))
  PROVE  t \in Try /\ rs[t] = 0 /\ Level(z, <<>>, [rs EXCEPT ![t] = 1])
<1>1. PICK n, y, rz, e : n = Len(s) /\ y = Front(s) /\ rz = [rs EXCEPT ![t] = 1] /\ e = <<>>
  OBVIOUS
<1>2. Leaves(s, c, rs, n)
  BY <1>1, LeaveFacts
<1>3. /\ n > 1 /\ Last(s) = s[n]
      /\ \A j \in Live(s, n + 1) : j < n => Untouched(s[j])
      /\ \A j \in Live(s, n + 1) : HasFinally(s[j]) => rs[s[j].of] = 0
  BY <1>2 DEF Leaves
<1>4. /\ s \in Scopings /\ ScopesOK(s, rs) /\ n \in Nat \ {0} /\ DOMAIN s = 1 .. n /\ n \in DOMAIN s
      /\ \A j \in DOMAIN s : s[j] \in ScopeRecords
      /\ n \in Live(s, n + 1)
  BY <1>1, LevelType
<1>5. ~Returning(s[n]) /\ HasFinally(s[n])
  BY <1>3 DEF HasFinally, Returning
<1>6. t \in Try /\ rs[t] = 0
  BY <1>3, <1>4, <1>5 DEF HasFinally, ScopeRecords
<1>7. /\ y \in Scopings /\ ScopesOK(y, rs) /\ Len(y) = n - 1 /\ DOMAIN y = 1 .. n - 1
      /\ \A j \in 1 .. n - 1 : y[j] = s[j] /\ j \in DOMAIN s
      /\ \A j \in Live(y, n) : j \in 1 .. n - 1 /\ j \in Live(s, n + 1) /\ j < n
  <2>1. Fronts(s, rs, n, y)
    BY <1>1, <1>3, <1>4, <1>5, FrontLevel
  <2> QED
    BY <2>1 DEF Fronts
<1>8. \A j \in 1 .. n - 1 : HasFinally(y[j]) => rz[y[j].of] = rs[y[j].of]
  <2> SUFFICES ASSUME NEW j \in 1 .. n - 1, HasFinally(s[j]) PROVE rz[s[j].of] = rs[s[j].of]
    BY <1>7
  <2>1. j \in DOMAIN s /\ j # n
    BY <1>4, <1>7
  <2>2. s[j].of # t /\ s[j].of \in Try
    BY <1>3, <1>4, <1>5, <2>1 DEF HasFinally, ScopeRecords
  <2> QED
    BY <1>1, <2>2
<1>9. \A j \in Live(y, n) : Untouched(y[j]) /\ (HasFinally(y[j]) => rz[y[j].of] = 0)
  BY <1>3, <1>7, <1>8
<1>10. PICK x : x = Scope("finally", t, Null, e)
  OBVIOUS
<1>11. /\ x \in ScopeRecords /\ x.kind = "finally" /\ x.of = t /\ x.exc = Null /\ x.after = e
       /\ x.owns = FALSE /\ x.declared = FALSE /\ x.slot = Null /\ Untouched(x)
  BY <1>1, <1>6, <1>10 DEF Scope, ScopeRecords, Untouched, Kinds, Code
<1>12. ScopeOK(x) /\ ~HasFinally(x)
  <2>1. t # Null /\ e # <<DropOperand>>
    BY <1>1, <1>6, NullAssumption
  <2> QED
    BY <1>11, <2>1 DEF ScopeOK, HasFinally
<1>13. LevelOK(y, Len(y) + 1, x.after, rz) /\ Len(y) + 1 = n
  <2>1. Len(y) + 1 = n /\ n \in Nat
    BY <1>4, <1>7
  <2>2. LevelOK(y, n, e, rz)
    BY <1>1, <1>7, <1>9, <2>1, NoCode
  <2> QED
    BY <1>11, <2>1, <2>2
<1>14. \A i \in DOMAIN y : y[i].kind = "finally" =>
           \A j \in 1 .. i - 1 : HasFinally(y[j]) => rz[y[j].of] = rs[y[j].of]
  <2> SUFFICES ASSUME NEW i \in 1 .. n - 1, NEW j \in 1 .. i - 1, HasFinally(y[j])
               PROVE rz[y[j].of] = rs[y[j].of]
    BY <1>7
  <2>1. j \in 1 .. n - 1
    BY <1>4
  <2> QED
    BY <1>8, <2>1
<1>15. Level(Append(y, x), <<>>, rz)
  BY <1>7, <1>9, <1>11, <1>12, <1>13, <1>14, PushLevel
<1> QED
  BY <1>1, <1>6, <1>10, <1>15

(* A loop is left or goes round again. *)
Loops(s, rs, n, j) ==
  /\ j \in DOMAIN s /\ s[j].kind = "loop"
  /\ \A k \in Live(s, j) : Untouched(s[k]) /\ (HasFinally(s[k]) => rs[s[k].of] = 0)
  /\ \A k \in j .. n : /\ s[k].kind # "finally"
                       /\ s[k].owns = FALSE
                       /\ s[k].exc # Null => "catch" \in Habits
                       /\ HasFinally(s[k]) => "jump" \in Habits

LEMMA LoopFacts ==
  ASSUME NEW s, NEW c, NEW rs, Level(s, c, rs), c # <<>>, c[1].op \in {"break", "continue"},
         NEW n, n = Len(s), NEW j, j = c[1].scope
  PROVE  Loops(s, rs, n, j) /\ c # <<DropOperand>> /\ ~EndsIn(c, {"unwind"})
<1>1. /\ s \in Scopings /\ n \in Nat \ {0} /\ c \in Code /\ s # <<>> /\ DOMAIN s = 1 .. n
      /\ LevelOK(s, n + 1, c, rs) /\ n + 1 \in Nat /\ (n + 1) - 1 = n
      /\ \A k \in DOMAIN s : s[k] \in ScopeRecords
  BY LevelType
<1>2. c[1].op \in Final /\ c # <<DropOperand>>
  BY DEF Final, DropOperand
<1>3. /\ Len(c) = 1
      /\ \A k : ~Releases(c, k)
      /\ \A ops : EndsIn(c, ops) <=> c[1].op \in ops
  BY <1>1, <1>2, AtFinal
<1>4. EndsIn(c, {"break", "continue"}) /\ ~EndsIn(c, {"RETURN"}) /\ ~EndsIn(c, {"unwind"})
  BY <1>3
<1>5. /\ j \in 1 .. n /\ s[j].kind = "loop"
      /\ \A k \in Live(s, n + 1) : k < j => Untouched(s[k])
      /\ \A k \in j .. n : /\ s[k].kind # "finally"
                           /\ ~s[k].owns
                           /\ s[k].exc # Null => "catch" \in Habits
                           /\ HasFinally(s[k]) => "jump" \in Habits
  BY <1>1, <1>3, <1>4 DEF LevelOK, LoopCode
<1>6. \A k \in Live(s, n + 1) : HasFinally(s[k]) => rs[s[k].of] = 0
  BY <1>1, <1>4 DEF LevelOK, Unrun
<1>7. \A k \in Live(s, j) : k \in Live(s, n + 1) /\ k < j
  <2>1. j \in Nat /\ 0 < j /\ j <= n + 1
    BY <1>1, <1>5
  <2> QED
    BY <1>1, <1>5, <2>1, AllLive
<1>8. \A k \in j .. n : k \in DOMAIN s /\ s[k].owns = FALSE
  <2> SUFFICES ASSUME NEW k \in j .. n PROVE k \in DOMAIN s /\ s[k].owns = FALSE
    OBVIOUS
  <2>1. k \in DOMAIN s /\ s[k] \in ScopeRecords /\ ~s[k].owns
    BY <1>1, <1>5
  <2> QED
    BY <2>1 DEF ScopeRecords
<1>9. \A k \in Live(s, j) : Untouched(s[k]) /\ (HasFinally(s[k]) => rs[s[k].of] = 0)
  BY <1>5, <1>6, <1>7
<1> QED
  BY <1>1, <1>2, <1>4, <1>5, <1>8, <1>9 DEF Loops

BreaksOut(s, z, j, rs) == Level(z, <<>>, rs) /\ Len(z) = j - 1 /\ \A k \in 1 .. j - 1 : z[k] = s[k]
LEMMA BreakLevel ==
  ASSUME NEW s, NEW c, NEW rs, Level(s, c, rs), NEW j, Loops(s, rs, Len(s), j),
         NEW z, z = SubSeq(s, 1, j - 1)
  PROVE  BreaksOut(s, z, j, rs)
<1>1. PICK n : n = Len(s)
  OBVIOUS
<1>2. /\ s \in Scopings /\ ScopesOK(s, rs) /\ n \in Nat \ {0} /\ DOMAIN s = 1 .. n
      /\ \A k \in DOMAIN s : s[k].kind = "body" <=> k = 1
  BY <1>1, LevelType
<1>3. /\ j \in DOMAIN s /\ s[j].kind = "loop"
      /\ \A k \in Live(s, j) : Untouched(s[k]) /\ (HasFinally(s[k]) => rs[s[k].of] = 0)
  BY DEF Loops
<1>4. j # 1
  BY <1>2, <1>3
<1>5. j - 1 \in 1 .. Len(s) /\ j - 1 \in 0 .. Len(s) /\ j \in Nat
  BY <1>1, <1>2, <1>3, <1>4
<1>6. z \in Scopings /\ ScopesOK(z, rs) /\ Len(z) = j - 1 /\ \A k \in 1 .. j - 1 : z[k] = s[k]
  BY <1>2, <1>5, CutScopes, CutAt
<1>7. Live(z, j) = Live(s, j) /\ \A k \in Live(s, j) : k \in 1 .. j - 1
  BY <1>5, <1>6, LivePrefix
<1>8. \A k \in Live(z, j) : Untouched(z[k]) /\ (HasFinally(z[k]) => rs[z[k].of] = 0)
  BY <1>3, <1>6, <1>7
<1>9. LevelOK(z, j, <<>>, rs) /\ Len(z) + 1 = j
  <2>1. j \in Nat /\ z \in Scopings /\ Len(z) + 1 = j
    BY <1>5, <1>6
  <2> QED
    BY <1>8, <2>1, NoCode
<1>10. <<>> \in Code
  BY DEF Code
<1> QED
  BY <1>6, <1>9, <1>10 DEF Level, BreaksOut

GoesAgain(s, z, j, rs) ==
  /\ Level(z, <<>>, rs) /\ Len(z) = j /\ j \in Nat \ {0} /\ j <= Len(s)
  /\ \A k \in 1 .. j - 1 : z[k] = s[k]
  /\ z[j].kind = s[j].kind /\ z[j].after = s[j].after /\ z[j].of = s[j].of
  /\ z[j].exc = s[j].exc /\ z[j].owns = FALSE /\ z[j].slot = s[j].slot
LEMMA AgainLevel ==
  ASSUME NEW s, NEW c, NEW rs, Level(s, c, rs), NEW j, j \in DOMAIN s, s[j].kind = "loop",
         \A k \in Live(s, j) : Untouched(s[k]) /\ (HasFinally(s[k]) => rs[s[k].of] = 0),
         NEW z, z = [SubSeq(s, 1, j) EXCEPT ![j].declared = FALSE, ![j].owns = FALSE]
  PROVE  GoesAgain(s, z, j, rs)
<1>1. PICK n, y : n = Len(s) /\ y = SubSeq(s, 1, j)
  OBVIOUS
<1>2. /\ s \in Scopings /\ ScopesOK(s, rs) /\ n \in Nat \ {0} /\ DOMAIN s = 1 .. n
      /\ \A k \in DOMAIN s : s[k] \in ScopeRecords /\ ScopeOK(s[k])
  BY <1>1, LevelType
<1>3. j \in 1 .. Len(s) /\ j \in 0 .. Len(s) /\ j \in Nat \ {0} /\ j \in 1 .. j
  BY <1>1, <1>2
<1>4. /\ y \in Scopings /\ ScopesOK(y, rs) /\ Len(y) = j /\ DOMAIN y = 1 .. j
      /\ \A k \in 1 .. j : y[k] = s[k]
  BY <1>1, <1>2, <1>3, CutScopes, CutAt
<1>5. PICK x : x = [s[j] EXCEPT !.declared = FALSE, !.owns = FALSE]
  OBVIOUS
<1>6. z = [y EXCEPT ![j] = x]
  BY <1>1, <1>3, <1>4, <1>5
<1>7. /\ x \in ScopeRecords /\ x.kind = s[j].kind /\ x.after = s[j].after /\ x.of = s[j].of
      /\ x.exc = s[j].exc /\ x.owns = FALSE /\ x.declared = FALSE /\ x.slot = s[j].slot
  BY <1>2, <1>5 DEF ScopeRecords
<1>8. ScopeOK(x) /\ Untouched(x) /\ ~HasFinally(x) /\ ~Returning(s[j])
  BY <1>2, <1>7 DEF ScopeOK, Untouched, HasFinally, Returning
<1>9. Reshaped(y, z, j, x, j, rs)
  <2>1. \A i \in DOMAIN y : y[i].kind = "finally" => i <= j
    BY <1>3, <1>4
  <2>2. j \in DOMAIN y /\ y[j] = s[j]
    BY <1>3, <1>4
  <2> QED
    BY <1>4, <1>6, <1>7, <1>8, <2>1, <2>2, ChangeScopes
<1>10. /\ z \in Scopings /\ ScopesOK(z, rs) /\ Len(z) = j /\ z[j] = x
       /\ \A k \in 1 .. j : k # j => z[k] = y[k]
       /\ Live(z, j + 1) = Live(y, j + 1) /\ \A k \in Live(y, j + 1) : k \in 1 .. j
  BY <1>4, <1>9 DEF Reshaped
<1>11. \A k \in 1 .. j - 1 : k \in 1 .. j /\ k # j /\ z[k] = s[k] /\ y[k] = s[k]
  BY <1>3, <1>4, <1>10
<1>12. \A k \in Live(z, j + 1) : k = j \/ (k \in Live(s, j) /\ k \in 1 .. j - 1)
  <2> SUFFICES ASSUME NEW k \in Live(y, j + 1), k # j PROVE k \in Live(s, j) /\ k \in 1 .. j - 1
    BY <1>10
  <2>1. k \in Live(y, j)
    BY <1>3, <1>4, <1>8, LiveTop
  <2>2. Live(y, j) = Live(s, j) /\ \A l \in Live(s, j) : l \in 1 .. j - 1
    BY <1>3, <1>11, LivePrefix
  <2> QED
    BY <2>1, <2>2
<1>13. \A k \in Live(z, j + 1) : Untouched(z[k]) /\ (HasFinally(z[k]) => rs[z[k].of] = 0)
  <2> SUFFICES ASSUME NEW k \in Live(z, j + 1) PROVE Untouched(z[k]) /\ (HasFinally(z[k]) => rs[z[k].of] = 0)
    OBVIOUS
  <2>1. CASE k = j
    BY <1>8, <1>10, <2>1
  <2>2. CASE k # j
    BY <1>11, <1>12, <2>2
  <2> QED
    BY <2>1, <2>2
<1>14. LevelOK(z, j + 1, <<>>, rs)
  <2>1. j + 1 \in Nat
    BY <1>3
  <2> QED
    BY <1>10, <1>13, <2>1, NoCode
<1>15. <<>> \in Code
  BY DEF Code
<1>16. Level(z, <<>>, rs)
  BY <1>10, <1>14, <1>15 DEF Level
<1>17. j <= Len(s)
  BY <1>3
<1> QED
  BY <1>3, <1>7, <1>10, <1>11, <1>16, <1>17 DEF GoesAgain


(* An exception leaves a block. *)
Unwound(s, c, rs, n) ==
  /\ c # <<DropOperand>> /\ EndsIn(c, {"unwind"})
  /\ s[n].owns = FALSE
  /\ \A j \in Live(s, n + 1) : j < n => Intact(s[j])
  /\ \A j \in Live(s, n + 1) : HasFinally(s[j]) => rs[s[j].of] = 0

LEMMA UnwindFacts ==
  ASSUME NEW s, NEW c, NEW rs, Level(s, c, rs), c # <<>>, c[1].op = "unwind", NEW n, n = Len(s)
  PROVE  Unwound(s, c, rs, n)
<1>1. /\ s \in Scopings /\ n \in Nat \ {0} /\ c \in Code /\ s # <<>>
      /\ LevelOK(s, n + 1, c, rs) /\ n + 1 \in Nat /\ (n + 1) - 1 = n
      /\ s[n] \in ScopeRecords
  BY LevelType
<1>2. c[1].op \in Final /\ c # <<DropOperand>>
  BY DEF Final, DropOperand
<1>3. /\ \A j : ~Releases(c, j)
      /\ \A ops : EndsIn(c, ops) <=> c[1].op \in ops
  BY <1>1, <1>2, AtFinal
<1>4. EndsIn(c, {"unwind"}) /\ ~EndsIn(c, {"RETURN"})
  BY <1>3
<1>5. /\ \A j \in Live(s, n + 1) : j < n => Intact(s[j])
      /\ ~s[n].owns
  BY <1>1, <1>3, <1>4 DEF LevelOK, UnwindCode
<1>6. s[n].owns = FALSE
  BY <1>1, <1>5 DEF ScopeRecords
<1>7. \A j \in Live(s, n + 1) : HasFinally(s[j]) => rs[s[j].of] = 0
  BY <1>1, <1>4 DEF LevelOK, Unrun
<1> QED
  BY <1>2, <1>4, <1>5, <1>6, <1>7 DEF Unwound

FrontUnwound(s, rs, n, y) ==
  /\ \A j \in Live(y, n) : Intact(y[j]) /\ Untouched(y[j]) /\ (HasFinally(y[j]) => rs[y[j].of] = 0)
  /\ Fronts(s, rs, n, y) /\ n - 1 \in Nat \ {0} /\ (n - 1) + 1 = n /\ n \in Nat

LEMMA FrontUnwinds ==
  ASSUME NEW s, NEW c, NEW rs, Level(s, c, rs), c # <<>>, c[1].op = "unwind", NEW n, n = Len(s),
         ~Returning(s[n]), s[n].kind # "body", NEW y, y = Front(s)
  PROVE  FrontUnwound(s, rs, n, y)
<1>1. Unwound(s, c, rs, n)
  BY UnwindFacts
<1>2. /\ s \in Scopings /\ ScopesOK(s, rs) /\ n \in Nat \ {0} /\ DOMAIN s = 1 .. n
      /\ \A j \in DOMAIN s : ScopeOK(s[j]) /\ (s[j].kind = "body" <=> j = 1)
  BY LevelType
<1>3. n > 1 /\ n - 1 \in Nat \ {0} /\ (n - 1) + 1 = n /\ n \in Nat
  BY <1>2
<1>4. Fronts(s, rs, n, y)
  BY <1>2, <1>3, FrontLevel
<1>5. /\ \A j \in 1 .. n - 1 : y[j] = s[j] /\ j \in DOMAIN s
      /\ \A j \in Live(y, n) : j \in 1 .. n - 1 /\ j \in Live(s, n + 1) /\ j < n
  BY <1>4 DEF Fronts
<1>6. ASSUME NEW j \in Live(y, n)
      PROVE  Intact(y[j]) /\ Untouched(y[j]) /\ (HasFinally(y[j]) => rs[y[j].of] = 0)
  <2>1. j \in 1 .. n - 1 /\ j \in Live(s, n + 1) /\ j < n /\ y[j] = s[j] /\ ScopeOK(s[j])
    BY <1>2, <1>5
  <2>2. Intact(s[j]) /\ (HasFinally(s[j]) => rs[s[j].of] = 0)
    BY <1>1, <2>1 DEF Unwound
  <2>3. Untouched(s[j])
    BY <2>1, <2>2 DEF Intact, Untouched, ScopeOK
  <2> QED
    BY <2>1, <2>2, <2>3
<1> QED
  BY <1>3, <1>4, <1>6 DEF FrontUnwound

LEMMA UnwindBlockLevel ==
  ASSUME NEW s, NEW c, NEW rs, Level(s, c, rs), c # <<>>, c[1].op = "unwind",
         ~Returning(s[Len(s)]), s[Len(s)].kind # "body"
  PROVE  Level(Front(s), CleanupOf(Len(s) - 1), rs)
<1>1. PICK n, y : n = Len(s) /\ y = Front(s)
  OBVIOUS
<1>2. FrontUnwound(s, rs, n, y)
  BY <1>1, FrontUnwinds
<1>3. PICK m : m = n - 1
  OBVIOUS
<1>4. /\ m \in Nat \ {0} /\ m + 1 = n /\ y \in Scopings /\ ScopesOK(y, rs) /\ Len(y) = m
  BY <1>2, <1>3 DEF FrontUnwound, Fronts
<1>5. \A j \in Live(y, m + 1) : Intact(y[j]) /\ (HasFinally(y[j]) => rs[y[j].of] = 0)
  BY <1>2, <1>4 DEF FrontUnwound
<1>6. m <= Len(y) /\ m \in Nat \ {0} /\ y \in Scopings
  BY <1>4
<1>7. LevelOK(y, m + 1, CleanupOf(m), rs) /\ CleanupOf(m) \in Code
  BY <1>5, <1>6, CleanupCode
<1> QED
  BY <1>1, <1>3, <1>4, <1>7 DEF Level

UnwindsTry(t, z, rs, rz) == t \in Try /\ rs[t] = 0 /\ Level(z, <<>>, rz)
LEMMA UnwindTryLevel ==
  ASSUME NEW s, NEW c, NEW rs \in [Try -> Nat], Level(s, c, rs), c # <<>>, c[1].op = "unwind",
         \A j, k \in DOMAIN s : HasFinally(s[j]) /\ HasFinally(s[k]) /\ s[j].of = s[k].of => j = k,
         NEW t, t = Last(s).of, HasFinally(Last(s)),
         NEW z, z = Append(Front(s), Scope("finally", t, Null, CleanupOf(Len(s) - 1))),
         NEW rz, rz = [rs EXCEPT ![t] = 1]
  PROVE  UnwindsTry(t, z, rs, rz)
<1>1. PICK n, y, m, e : n = Len(s) /\ y = Front(s) /\ m = n - 1 /\ e = CleanupOf(m)
  OBVIOUS
<1>2. /\ s \in Scopings /\ ScopesOK(s, rs) /\ n \in Nat \ {0} /\ DOMAIN s = 1 .. n /\ n \in DOMAIN s
      /\ \A j \in DOMAIN s : s[j] \in ScopeRecords
      /\ n \in Live(s, n + 1) /\ s # <<>>
  BY <1>1, LevelType
<1>3. Last(s) = s[n]
  BY <1>1, <1>2, FrontCut
<1>4. ~Returning(s[n]) /\ HasFinally(s[n]) /\ s[n].kind # "body"
  BY <1>3 DEF HasFinally, Returning
<1>5. t \in Try
  BY <1>2, <1>3, <1>4 DEF HasFinally, ScopeRecords
<1>6. rs[t] = 0
  <2>1. Unwound(s, c, rs, n)
    BY <1>1, UnwindFacts
  <2> QED
    BY <1>2, <1>3, <1>4, <2>1 DEF Unwound
<1>7. FrontUnwound(s, rs, n, y)
  BY <1>1, <1>4, FrontUnwinds
<1>8. /\ y \in Scopings /\ ScopesOK(y, rs) /\ Len(y) = m /\ DOMAIN y = 1 .. m
      /\ \A j \in 1 .. m : y[j] = s[j] /\ j \in DOMAIN s
      /\ m \in Nat \ {0} /\ m + 1 = n /\ n \in Nat
  BY <1>1, <1>7 DEF FrontUnwound, Fronts
<1>9. \A j \in 1 .. m : HasFinally(y[j]) => rz[y[j].of] = rs[y[j].of]
  <2> SUFFICES ASSUME NEW j \in 1 .. m, HasFinally(s[j]) PROVE rz[s[j].of] = rs[s[j].of]
    BY <1>8
  <2>1. j \in DOMAIN s /\ j # n
    BY <1>8
  <2>2. s[j].of # t /\ s[j].of \in Try
    BY <1>2, <1>3, <1>4, <2>1 DEF HasFinally, ScopeRecords
  <2> QED
    BY <1>1, <2>2
<1>10. \A j \in Live(y, n) : j \in 1 .. m
  BY <1>1, <1>7 DEF FrontUnwound, Fronts
<1>11. \A j \in Live(y, n) : Intact(y[j]) /\ Untouched(y[j]) /\ (HasFinally(y[j]) => rz[y[j].of] = 0)
  BY <1>7, <1>9, <1>10 DEF FrontUnwound
<1>12. LevelOK(y, n, e, rz) /\ e \in Code
  <2>1. m <= Len(y) /\ m \in Nat \ {0} /\ y \in Scopings
    BY <1>8
  <2>2. \A j \in Live(y, m + 1) : Intact(y[j]) /\ (HasFinally(y[j]) => rz[y[j].of] = 0)
    BY <1>8, <1>11
  <2>3. LevelOK(y, m + 1, CleanupOf(m), rz) /\ CleanupOf(m) \in Code
    BY <2>1, <2>2, CleanupCode
  <2> QED
    BY <1>1, <1>8, <2>3
<1>13. e # <<>> /\ e # <<DropOperand>> /\ Len(e) = 2 /\ e[2].op = "unwind"
  BY <1>1 DEF CleanupOf, DropOperand, DecRefSlot, Unwind
<1>14. PICK x : x = Scope("finally", t, Null, e)
  OBVIOUS
<1>15. /\ x \in ScopeRecords /\ x.kind = "finally" /\ x.of = t /\ x.exc = Null /\ x.after = e
       /\ x.owns = FALSE /\ x.declared = FALSE /\ x.slot = Null /\ Untouched(x)
  BY <1>5, <1>12, <1>14 DEF Scope, ScopeRecords, Untouched, Kinds
<1>16. ScopeOK(x) /\ ~HasFinally(x) /\ ~Returning(x)
  <2>1. t # Null
    BY <1>5, NullAssumption
  <2>2. e[2] # ReturnOp
    BY <1>13 DEF ReturnOp
  <2> QED
    BY <1>13, <1>15, <2>1, <2>2 DEF ScopeOK, HasFinally, Returning, Last
<1>17. LevelOK(y, Len(y) + 1, x.after, rz) /\ Len(y) + 1 = n
  BY <1>8, <1>12, <1>15
<1>18. \A i \in DOMAIN y : y[i].kind = "finally" =>
           \A j \in 1 .. i - 1 : HasFinally(y[j]) => rz[y[j].of] = rs[y[j].of]
  <2> SUFFICES ASSUME NEW i \in 1 .. m, NEW j \in 1 .. i - 1, HasFinally(y[j])
               PROVE rz[y[j].of] = rs[y[j].of]
    BY <1>8
  <2>1. j \in 1 .. m
    BY <1>8
  <2> QED
    BY <1>9, <2>1
<1>19. Level(Append(y, x), <<>>, rz)
  BY <1>8, <1>11, <1>15, <1>16, <1>17, <1>18, PushLevel
<1> QED
  BY <1>1, <1>5, <1>6, <1>14, <1>19 DEF UnwindsTry

LEMMA CatchLevel ==
  ASSUME NEW s, NEW c, NEW rs, Level(s, c, rs), c # <<>>, c[1].op = "unwind",
         Last(s).kind = "try", NEW o \in Obj, NEW t, t = Last(s).of,
         NEW z, z = Append(Front(s), Scope("catch", t, o, <<>>))
  PROVE  Level(z, <<>>, rs)
<1>1. PICK n, y, e : n = Len(s) /\ y = Front(s) /\ e = <<>>
  OBVIOUS
<1>2. /\ s \in Scopings /\ ScopesOK(s, rs) /\ n \in Nat \ {0} /\ DOMAIN s = 1 .. n /\ n \in DOMAIN s
      /\ \A j \in DOMAIN s : s[j] \in ScopeRecords
      /\ n \in Live(s, n + 1) /\ s # <<>>
  BY <1>1, LevelType
<1>3. Last(s) = s[n]
  BY <1>1, <1>2, FrontCut
<1>4. ~Returning(s[n]) /\ s[n].kind # "body" /\ (t # Null => HasFinally(s[n]))
  BY <1>3 DEF HasFinally, Returning
<1>5. t \in Try \cup {Null}
  BY <1>2, <1>3 DEF ScopeRecords
<1>6. t # Null => rs[t] = 0
  <2>1. Unwound(s, c, rs, n)
    BY <1>1, UnwindFacts
  <2> QED
    BY <1>2, <1>3, <1>4, <2>1 DEF Unwound
<1>7. FrontUnwound(s, rs, n, y)
  BY <1>1, <1>4, FrontUnwinds
<1>8. y \in Scopings /\ ScopesOK(y, rs) /\ Len(y) + 1 = n
  BY <1>2, <1>7 DEF FrontUnwound, Fronts
<1>9. \A j \in Live(y, n) : Untouched(y[j]) /\ (HasFinally(y[j]) => rs[y[j].of] = 0)
  BY <1>7 DEF FrontUnwound
<1>10. PICK x : x = Scope("catch", t, o, e)
  OBVIOUS
<1>11. /\ x \in ScopeRecords /\ x.kind = "catch" /\ x.of = t /\ x.exc = o /\ x.after = e
       /\ x.owns = FALSE /\ x.declared = FALSE /\ x.slot = Null /\ Untouched(x)
  BY <1>1, <1>5, <1>10 DEF Scope, ScopeRecords, Untouched, Kinds, Code
<1>12. ScopeOK(x) /\ (HasFinally(x) => rs[x.of] = 0)
  <2>1. e = <<>> /\ e # <<DropOperand>>
    BY <1>1
  <2> QED
    BY <1>6, <1>11, <2>1 DEF ScopeOK, HasFinally
<1>13. Level(Append(y, x), <<>>, rs)
  BY <1>8, <1>9, <1>11, <1>12, PushLevel
<1> QED
  BY <1>1, <1>10, <1>13

(* A frame returns. *)
LEMMA ReturnFacts ==
  ASSUME NEW s, NEW c, NEW rs, Level(s, c, rs), c # <<>>, c[1].op = "RETURN", NEW j \in DOMAIN s
  PROVE  /\ s[j].owns = FALSE /\ (s[j].exc # Null => "catch" \in Habits)
         /\ (HasFinally(s[j]) => rs[s[j].of] = 1)
         /\ s[j].kind # "finally" /\ c # <<DropOperand>> /\ ~EndsIn(c, {"unwind"})
<1>1. PICK n : n = Len(s)
  OBVIOUS
<1>2. /\ s \in Scopings /\ n \in Nat \ {0} /\ c \in Code /\ s # <<>> /\ DOMAIN s = 1 .. n
      /\ LevelOK(s, n + 1, c, rs) /\ n + 1 \in Nat /\ (n + 1) - 1 = n
      /\ s[j] \in ScopeRecords
  BY <1>1, LevelType
<1>3. c[1].op \in Final /\ c # <<DropOperand>>
  BY DEF Final, DropOperand
<1>4. /\ \A k : ~Releases(c, k)
      /\ \A k \in DOMAIN c : c[k].op # "finally"
      /\ \A ops : EndsIn(c, ops) <=> c[1].op \in ops
  BY <1>2, <1>3, AtFinal
<1>5. EndsIn(c, {"RETURN"}) /\ ~EndsIn(c, {"unwind"})
  BY <1>4
<1>6. \A k \in DOMAIN c : c[k] # Finally(j)
  BY <1>4 DEF Finally
<1>7. /\ s[j].kind # "finally" /\ ~s[j].owns
      /\ s[j].exc # Null => "catch" \in Habits
      /\ HasFinally(s[j]) => rs[s[j].of] = 1
  BY <1>2, <1>4, <1>5, <1>6 DEF LevelOK, ReturnCode
<1>8. s[j].owns = FALSE
  BY <1>2, <1>7 DEF ScopeRecords
<1> QED
  BY <1>3, <1>5, <1>7, <1>8

=============================================================================
