-------------------------- MODULE UnwindingProofs --------------------------
(***************************************************************************)
(* Proofs about Unwinding, for every set of programs, of objects and of    *)
(* try statements, with any number of frames and open blocks.              *)
(***************************************************************************)
EXTENDS UnwindingLevels, FiniteSetTheorems

(* Frames. *)
FrameRecords ==
  [how : {"main", "call", "operator", "initializer", "destructor"}, obj : Obj \cup {Null},
   operand : Obj \cup {Null}, todo : Code, scopes : Scopings]

FrameOK(r, rs) ==
  /\ Level(r.scopes, r.todo, rs)
  /\ r.obj # Null => r.how = "destructor"

FramesOK(fs, rs) ==
  /\ fs \in Seq(FrameRecords)
  /\ \A f \in DOMAIN fs : FrameOK(fs[f], rs) /\ (fs[f].how = "main" <=> f = 1)

(* Frames that wait for the one above, and the last one. *)
WaitsFor(r, how) ==
  /\ r.operand # Null => how # "destructor"
  /\ how # "destructor" =>
       /\ r.todo = <<>>
       /\ \A j \in Live(r.scopes, Len(r.scopes) + 1) : Intact(r.scopes[j])
Runs(r) == r.operand # Null => r.todo = <<DropOperand>>
Waits(fs) ==
  \A f \in DOMAIN fs : IF f = Len(fs) THEN Runs(fs[f]) ELSE WaitsFor(fs[f], fs[f + 1].how)

(* Exceptions: an unwinding under way. *)
Place(fs, f, i) == f \in DOMAIN fs /\ i \in DOMAIN fs[f].scopes
UnwindsIn(r, i) ==
  \/ i = Len(r.scopes) + 1 /\ EndsIn(r.todo, {"unwind"})
  \/ i \in DOMAIN r.scopes /\ r.scopes[i].kind = "finally" /\ EndsIn(r.scopes[i].after, {"unwind"})
UnwindsAt(fs, f, i) == f \in DOMAIN fs /\ UnwindsIn(fs[f], i)

Flying(fs, active) ==
  /\ active = Null => \A f, i \in Nat : ~UnwindsAt(fs, f, i)
  /\ \A f, i \in Nat : UnwindsAt(fs, f, i) =>
       \A g, j \in Nat : UnwindsAt(fs, g, j) => f = g /\ i = j

UpTo(f, i, g, m) == f < g \/ (f = g /\ i <= m)
BarrierAt(fs, f, i) ==
  Barrier(fs, <<f, i>>) /\ (fs[f].scopes[i].kind = "catch" => fs[f].scopes[i].exc # Null)
TryAbove(fs, f, i, g, m) ==
  \E h, k \in Nat : /\ Place(fs, h, k) /\ fs[h].scopes[k].kind = "try"
                    /\ UpTo(h, k, g, m) /\ ~UpTo(h, k, f, i)
Sheltered(fs, g, m) ==
  \A f, i \in Nat : Place(fs, f, i) /\ BarrierAt(fs, f, i) /\ UpTo(f, i, g, m) =>
    TryAbove(fs, f, i, g, m)
Shelter(fs) == \A f, i \in Nat : UnwindsAt(fs, f, i) => Sheltered(fs, f, i - 1)

(* Statements with a finally clause. *)
OpenAt(fs, f, i) == Place(fs, f, i) /\ HasFinally(fs[f].scopes[i])
Statements(fs, rs) ==
  /\ \A f, i \in Nat : OpenAt(fs, f, i) =>
       \A g, j \in Nat : OpenAt(fs, g, j) /\ fs[f].scopes[i].of = fs[g].scopes[j].of => f = g /\ i = j
  /\ \A f, i \in Nat : Place(fs, f, i) /\ fs[f].scopes[i].kind = "finally" => rs[fs[f].scopes[i].of] = 1
  /\ \A t \in Try : rs[t] \in {0, 1}
  /\ \A t \in Try : rs[t] = 0 /\ "jump" \notin Habits =>
       \E f, i \in Nat : OpenAt(fs, f, i) /\ fs[f].scopes[i].of = t

OwnersIn(fs, active, o) ==
  (UNION {{<<f, x>> : x \in References(fs[f], o)} : f \in DOMAIN fs})
  \cup (IF active = o THEN {<<0, <<"exception", k>>>> : k \in {1, 2}} ELSE {})

(* A count that covers a set, and is exact if nothing is lost. *)
Covers(n, S) ==
  /\ n \in Nat /\ IsFiniteSet(S)
  /\ n >= Cardinality(S)
  /\ Habits = {} => n = Cardinality(S)

Counted(fs, active, count) == \A o \in Obj : Covers(count[o], OwnersIn(fs, active, o))

Types ==
  /\ program \in Programs
  /\ ref_count \in [Obj -> Nat]
  /\ active_exception \in Obj \cup {Null}
  /\ runs \in [Try -> Nat]
  /\ ended \in {"no", "returned", "unhandled", "misframed"}
  /\ ended = "no" => frames # <<>>

IInv ==
  /\ Types
  /\ FramesOK(frames, runs)
  /\ Waits(frames)
  /\ Flying(frames, active_exception)
  /\ Shelter(frames)
  /\ Statements(frames, runs)
  /\ ended # "unhandled" => Counted(frames, active_exception, ref_count)

-----------------------------------------------------------------------------
(* Frames. *)

LEMMA FramesType ==
  ASSUME NEW fs \in Seq(FrameRecords)
  PROVE  /\ Len(fs) \in Nat /\ DOMAIN fs = 1 .. Len(fs)
         /\ \A f \in DOMAIN fs : fs[f] \in FrameRecords
         /\ fs # <<>> => Len(fs) \in DOMAIN fs /\ Len(fs) \in Nat \ {0}
<1> DEFINE T == FrameRecords
<1>1. fs \in Seq(T)
  OBVIOUS
<1> HIDE DEF T
<1>2. /\ Len(fs) \in Nat /\ DOMAIN fs = 1 .. Len(fs)
      /\ \A f \in DOMAIN fs : fs[f] \in T
      /\ fs # <<>> => Len(fs) \in DOMAIN fs /\ Len(fs) \in Nat \ {0}
  BY <1>1
<1> QED
  BY <1>2 DEF T

LEMMA FrameFields ==
  ASSUME NEW r \in FrameRecords
  PROVE  /\ r.how \in {"main", "call", "operator", "initializer", "destructor"}
         /\ r.obj \in Obj \cup {Null} /\ r.operand \in Obj \cup {Null}
         /\ r.todo \in Code /\ r.scopes \in Scopings
BY DEF FrameRecords

(* A frame with other blocks or other code. *)
Framed(q, r, z, c, o) ==
  /\ q \in FrameRecords /\ q.how = r.how /\ q.obj = r.obj /\ q.operand = o
  /\ q.todo = c /\ q.scopes = z

LEMMA FrameChange ==
  ASSUME NEW r \in FrameRecords, NEW z \in Scopings, NEW c \in Code, NEW o, o \in Obj \/ o = Null
  PROVE  /\ Framed([r EXCEPT !.scopes = z, !.todo = c, !.operand = o], r, z, c, o)
         /\ Framed([r EXCEPT !.todo = c, !.operand = o], r, r.scopes, c, o)
         /\ Framed([r EXCEPT !.scopes = z, !.todo = c], r, z, c, r.operand)
         /\ Framed([r EXCEPT !.operand = o], r, r.scopes, r.todo, o)
BY DEF FrameRecords, Framed

(* The last frame is replaced; another is pushed; the last is popped. *)
Replaced(fs, gs, n, q) ==
  /\ n \in Nat \ {0} /\ Len(fs) = n /\ DOMAIN fs = 1 .. n /\ n \in DOMAIN fs
  /\ Len(gs) = n /\ DOMAIN gs = 1 .. n /\ gs \in Seq(FrameRecords) /\ gs # <<>>
  /\ gs[n] = q /\ \A f \in 1 .. n : f # n => gs[f] = fs[f]
  /\ \A f \in 1 .. n : gs[f].how = fs[f].how
  /\ q.how = fs[n].how /\ q.obj = fs[n].obj

LEMMA ReplaceFrame ==
  ASSUME NEW fs \in Seq(FrameRecords), fs # <<>>, NEW q \in FrameRecords, NEW n, n = Len(fs),
         q.how = fs[n].how, q.obj = fs[n].obj, NEW gs, gs = [fs EXCEPT ![n] = q]
  PROVE  Replaced(fs, gs, n, q)
<1> DEFINE T == FrameRecords
<1>1. fs \in Seq(T) /\ q \in T
  OBVIOUS
<1> HIDE DEF T
<1>2. /\ n \in Nat \ {0} /\ DOMAIN fs = 1 .. n /\ n \in DOMAIN fs
      /\ Len(gs) = n /\ DOMAIN gs = 1 .. n /\ gs \in Seq(T) /\ gs # <<>>
      /\ gs[n] = q /\ \A f \in 1 .. n : f # n => gs[f] = fs[f]
  BY <1>1
<1>3. \A f \in 1 .. n : gs[f].how = fs[f].how
  BY <1>2
<1> QED
  BY <1>2, <1>3 DEF T, Replaced

Pushes(fs, gs, n, q) ==
  /\ n \in Nat /\ Len(fs) = n /\ DOMAIN fs = 1 .. n
  /\ Len(gs) = n + 1 /\ DOMAIN gs = 1 .. n + 1 /\ gs \in Seq(FrameRecords) /\ gs # <<>>
  /\ gs[n + 1] = q /\ \A f \in 1 .. n : gs[f] = fs[f] /\ f # n + 1 /\ f \in 1 .. n + 1
  /\ \A f \in 1 .. n + 1 : f # n + 1 => f \in 1 .. n

LEMMA PushFrame ==
  ASSUME NEW fs \in Seq(FrameRecords), NEW q \in FrameRecords, NEW n, n = Len(fs),
         NEW gs, gs = Append(fs, q)
  PROVE  Pushes(fs, gs, n, q)
<1> DEFINE T == FrameRecords
<1>1. fs \in Seq(T) /\ q \in T
  OBVIOUS
<1> HIDE DEF T
<1>2. /\ n \in Nat /\ DOMAIN fs = 1 .. n
      /\ Len(gs) = n + 1 /\ DOMAIN gs = 1 .. n + 1 /\ gs \in Seq(T) /\ gs # <<>>
      /\ gs[n + 1] = q /\ \A f \in 1 .. n : gs[f] = fs[f]
  BY <1>1
<1>3. /\ \A f \in 1 .. n : f # n + 1 /\ f \in 1 .. n + 1
      /\ \A f \in 1 .. n + 1 : f # n + 1 => f \in 1 .. n
  BY <1>2
<1> QED
  BY <1>2, <1>3 DEF T, Pushes

Pops(fs, gs, m) ==
  /\ m \in Nat \ {0} /\ m + 1 \in Nat \ {0} /\ Len(fs) = m + 1 /\ DOMAIN fs = 1 .. m + 1 /\ m + 1 \in DOMAIN fs
  /\ Len(gs) = m /\ DOMAIN gs = 1 .. m /\ gs \in Seq(FrameRecords) /\ gs # <<>> /\ m \in DOMAIN gs
  /\ \A f \in 1 .. m : gs[f] = fs[f] /\ f # m + 1 /\ f \in 1 .. m + 1

LEMMA PopFrame ==
  ASSUME NEW fs \in Seq(FrameRecords), NEW m, m + 1 = Len(fs), m \in Nat, m # 0, NEW gs, gs = Front(fs)
  PROVE  Pops(fs, gs, m)
<1> DEFINE T == FrameRecords
<1>1. fs \in Seq(T)
  OBVIOUS
<1> HIDE DEF T
<1>2. m \in Nat \ {0} /\ Len(fs) - 1 = m
  OBVIOUS
<1>3. gs = SubSeq(fs, 1, m)
  BY <1>2 DEF Front
<1>4. /\ DOMAIN fs = 1 .. m + 1
      /\ Len(gs) = m /\ DOMAIN gs = 1 .. m /\ gs \in Seq(T)
      /\ \A f \in 1 .. m : gs[f] = fs[f]
  BY <1>1, <1>2, <1>3
<1>5. gs # <<>> /\ m \in 1 .. m /\ m + 1 \in 1 .. m + 1 /\ m + 1 \in Nat \ {0}
      /\ \A f \in 1 .. m : f # m + 1 /\ f \in 1 .. m + 1
  BY <1>2, <1>4
<1> QED
  BY <1>2, <1>4, <1>5 DEF T, Pops

(* A call. *)
Enters(q, how, obj, rs) ==
  /\ q \in FrameRecords /\ q.how = how /\ q.obj = obj /\ q.operand = Null /\ q.todo = <<>>
  /\ Level(q.scopes, q.todo, rs)
  /\ DOMAIN q.scopes = {1} /\ Len(q.scopes) = 1
  /\ q.scopes[1].kind = "body" /\ q.scopes[1].exc = Null /\ q.scopes[1].owns = FALSE
LEMMA BodyFrame ==
  ASSUME NEW how \in {"main", "call", "operator", "initializer", "destructor"}, NEW obj, obj \in Obj \/ obj = Null,
         NEW q, q = Frame(how, obj), NEW rs
  PROVE  Enters(q, how, obj, rs)
<1>1. PICK e, x, s : e = <<>> /\ x = Scope("body", Null, Null, e) /\ s = <<x>>
  OBVIOUS
<1>2. /\ x \in ScopeRecords /\ x.kind = "body" /\ x.of = Null /\ x.exc = Null /\ x.after = e
      /\ x.owns = FALSE /\ x.declared = FALSE /\ x.slot = Null /\ Untouched(x)
  BY <1>1 DEF Scope, ScopeRecords, Untouched, Kinds, Code
<1>3. s \in Scopings /\ Len(s) = 1 /\ DOMAIN s = {1} /\ s[1] = x /\ s # <<>>
  <2> DEFINE T == ScopeRecords
  <2>1. x \in T
    BY <1>2
  <2> HIDE DEF T
  <2>2. s \in Seq(T) /\ Len(s) = 1 /\ DOMAIN s = {1} /\ s[1] = x /\ s # <<>>
    BY <1>1, <2>1
  <2> QED
    BY <2>2 DEF T, Scopings
<1>4. ScopeOK(x) /\ ~HasFinally(x)
  <2>1. e = <<>> /\ e # <<DropOperand>>
    BY <1>1
  <2> QED
    BY <1>2, <2>1 DEF ScopeOK, HasFinally
<1>5. ScopesOK(s, rs)
  BY <1>2, <1>3, <1>4 DEF ScopesOK
<1>6. LevelOK(s, Len(s) + 1, e, rs) /\ e \in Code
  <2>1. Live(s, 2) \subseteq {1}
    BY DEF Live
  <2>2. \A j \in Live(s, 2) : Untouched(s[j]) /\ (HasFinally(s[j]) => rs[s[j].of] = 0)
    BY <1>2, <1>3, <1>4, <2>1
  <2>3. LevelOK(s, 2, <<>>, rs)
    BY <1>3, <2>2, NoCode
  <2> QED
    BY <1>1, <1>3, <2>3 DEF Code
<1>7. Level(s, e, rs)
  BY <1>3, <1>5, <1>6 DEF Level
<1>8. q = [how |-> how, obj |-> obj, operand |-> Null, todo |-> e, scopes |-> s]
  BY <1>1 DEF Frame
<1>9. q \in FrameRecords
  BY <1>3, <1>6, <1>8 DEF FrameRecords
<1> QED
  BY <1>1, <1>2, <1>3, <1>7, <1>8, <1>9 DEF Enters

LEMMA NewFrame ==
  ASSUME NEW how \in {"call", "operator", "initializer", "destructor"}, NEW obj, obj \in Obj \/ obj = Null,
         NEW q, q = Frame(how, obj), NEW rs
  PROVE  Enters(q, how, obj, rs)
<1>1. how \in {"main", "call", "operator", "initializer", "destructor"}
  OBVIOUS
<1> QED
  BY <1>1, BodyFrame


(* The code of a frame whose statements have run as often as before. *)
LEMMA LevelRuns ==
  ASSUME NEW s, NEW c, NEW rs, Level(s, c, rs), NEW rz,
         \A j \in DOMAIN s : HasFinally(s[j]) => rz[s[j].of] = rs[s[j].of]
  PROVE  Level(s, c, rz)
<1>1. PICK n : n = Len(s)
  OBVIOUS
<1>2. /\ s \in Scopings /\ c \in Code /\ ScopesOK(s, rs) /\ LevelOK(s, n + 1, c, rs)
      /\ n \in Nat /\ n \in Nat \ {0} /\ DOMAIN s = 1 .. n /\ s # <<>>
      /\ n + 1 \in Nat /\ n + 1 \in Nat \ {0} /\ (n + 1) - 1 = n /\ n <= Len(s)
      /\ \A j \in DOMAIN s : j < n + 1
  BY <1>1, LevelType
<1>3. \A i \in DOMAIN s : \A j \in 1 .. i - 1 : j \in DOMAIN s
  BY <1>2
<1>4. ScopesOK(s, rz)
  <2>1. \A j \in DOMAIN s : ~(j >= n + 1)
    BY <1>2
  <2>2. ChangedFrom(s, s, n + 1, rs, rz)
    BY <1>1, <1>2, <1>3, <2>1 DEF ChangedFrom
  <2> QED
    BY <1>2, <2>2, ScopesChange
<1>5. LevelOK(s, n + 1, c, rz)
  BY <1>1, <1>2, SamePrefix
<1> QED
  BY <1>1, <1>2, <1>4, <1>5 DEF Level


(* Frames replaced, pushed and popped: their blocks and code. *)
OthersRun(fs, n, rs, rz) ==
  \A f \in DOMAIN fs : f # n =>
    \A j \in DOMAIN fs[f].scopes : HasFinally(fs[f].scopes[j]) =>
      rz[fs[f].scopes[j].of] = rs[fs[f].scopes[j].of]

LEMMA FramesReplaced ==
  ASSUME NEW fs, NEW rs, FramesOK(fs, rs), NEW gs, NEW n, NEW q, Replaced(fs, gs, n, q), NEW rz,
         Level(q.scopes, q.todo, rz), OthersRun(fs, n, rs, rz)
  PROVE  FramesOK(gs, rz)
<1>1. /\ DOMAIN fs = 1 .. n /\ n \in DOMAIN fs /\ DOMAIN gs = 1 .. n /\ gs \in Seq(FrameRecords)
      /\ gs[n] = q /\ \A f \in 1 .. n : f # n => gs[f] = fs[f]
      /\ \A f \in 1 .. n : gs[f].how = fs[f].how
      /\ q.how = fs[n].how /\ q.obj = fs[n].obj
  BY DEF Replaced
<1>2. \A f \in DOMAIN fs : FrameOK(fs[f], rs) /\ (fs[f].how = "main" <=> f = 1)
  BY DEF FramesOK
<1>3. FrameOK(q, rz)
  BY <1>1, <1>2 DEF FrameOK
<1>4. ASSUME NEW f \in DOMAIN fs, f # n PROVE FrameOK(fs[f], rz)
  <2>1. PICK s, c : s = fs[f].scopes /\ c = fs[f].todo
    OBVIOUS
  <2>2. Level(s, c, rs) /\ (fs[f].obj # Null => fs[f].how = "destructor")
    BY <1>2, <2>1 DEF FrameOK
  <2>3. \A j \in DOMAIN s : HasFinally(s[j]) => rz[s[j].of] = rs[s[j].of]
    BY <1>4, <2>1 DEF OthersRun
  <2>4. Level(s, c, rz)
    BY <2>2, <2>3, LevelRuns
  <2> QED
    BY <2>1, <2>2, <2>4 DEF FrameOK
<1>5. \A f \in DOMAIN gs : FrameOK(gs[f], rz)
  <2> SUFFICES ASSUME NEW f \in DOMAIN gs PROVE FrameOK(gs[f], rz)
    OBVIOUS
  <2>1. CASE f = n
    BY <1>1, <1>3, <2>1
  <2>2. CASE f # n
    BY <1>1, <1>4, <2>2
  <2> QED
    BY <2>1, <2>2
<1> QED
  BY <1>1, <1>2, <1>5 DEF FramesOK

LEMMA FramesPushed ==
  ASSUME NEW fs, NEW rs, FramesOK(fs, rs), NEW gs, NEW n, NEW q, Pushes(fs, gs, n, q), n # 0,
         Level(q.scopes, q.todo, rs), q.how # "main", q.obj # Null => q.how = "destructor"
  PROVE  FramesOK(gs, rs)
<1>1. /\ DOMAIN fs = 1 .. n /\ DOMAIN gs = 1 .. n + 1 /\ gs \in Seq(FrameRecords)
      /\ gs[n + 1] = q /\ \A f \in 1 .. n : gs[f] = fs[f]
      /\ \A f \in 1 .. n + 1 : f # n + 1 => f \in 1 .. n
      /\ n + 1 # 1
  BY DEF Pushes
<1>2. \A f \in DOMAIN fs : FrameOK(fs[f], rs) /\ (fs[f].how = "main" <=> f = 1)
  BY DEF FramesOK
<1>3. FrameOK(q, rs)
  BY DEF FrameOK
<1>4. \A f \in DOMAIN gs : FrameOK(gs[f], rs) /\ (gs[f].how = "main" <=> f = 1)
  <2> SUFFICES ASSUME NEW f \in DOMAIN gs PROVE FrameOK(gs[f], rs) /\ (gs[f].how = "main" <=> f = 1)
    OBVIOUS
  <2>1. CASE f = n + 1
    BY <1>1, <1>3, <2>1
  <2>2. CASE f # n + 1
    BY <1>1, <1>2, <2>2
  <2> QED
    BY <2>1, <2>2
<1> QED
  BY <1>1, <1>4 DEF FramesOK

LEMMA FramesPopped ==
  ASSUME NEW fs, NEW rs, FramesOK(fs, rs), NEW gs, NEW m, Pops(fs, gs, m)
  PROVE  FramesOK(gs, rs)
<1>1. /\ DOMAIN fs = 1 .. m + 1 /\ DOMAIN gs = 1 .. m /\ gs \in Seq(FrameRecords)
      /\ \A f \in 1 .. m : gs[f] = fs[f] /\ f \in 1 .. m + 1
  BY DEF Pops
<1>2. \A f \in DOMAIN fs : FrameOK(fs[f], rs) /\ (fs[f].how = "main" <=> f = 1)
  BY DEF FramesOK
<1> QED
  BY <1>1, <1>2 DEF FramesOK

(* Frames that wait. *)
Below(fs) == \A f \in DOMAIN fs : f # Len(fs) => WaitsFor(fs[f], fs[f + 1].how)

LEMMA WaitsBelow ==
  ASSUME NEW fs \in Seq(FrameRecords), fs # <<>>
  PROVE  Waits(fs) <=> Below(fs) /\ Runs(fs[Len(fs)])
<1>1. Len(fs) \in DOMAIN fs
  BY FramesType
<1> QED
  BY <1>1 DEF Waits, Below

LEMMA BelowReplaced ==
  ASSUME NEW fs, Below(fs), NEW gs, NEW n, NEW q, Replaced(fs, gs, n, q)
  PROVE  Below(gs)
<1>1. /\ n \in Nat /\ Len(fs) = n /\ DOMAIN fs = 1 .. n /\ Len(gs) = n /\ DOMAIN gs = 1 .. n
      /\ \A f \in 1 .. n : f # n => gs[f] = fs[f]
      /\ \A f \in 1 .. n : gs[f].how = fs[f].how
  BY DEF Replaced
<1>2. \A f \in 1 .. n : f # n => f + 1 \in 1 .. n
  BY <1>1
<1> QED
  BY <1>1, <1>2 DEF Below

LEMMA BelowPushed ==
  ASSUME NEW fs, Below(fs), NEW gs, NEW n, NEW q, Pushes(fs, gs, n, q), n # 0,
         WaitsFor(fs[n], q.how)
  PROVE  Below(gs)
<1>1. /\ n \in Nat /\ Len(fs) = n /\ DOMAIN fs = 1 .. n /\ Len(gs) = n + 1 /\ DOMAIN gs = 1 .. n + 1
      /\ gs[n + 1] = q /\ \A f \in 1 .. n : gs[f] = fs[f]
      /\ \A f \in 1 .. n + 1 : f # n + 1 => f \in 1 .. n
  BY DEF Pushes
<1>2. \A f \in 1 .. n : f # n => f + 1 \in 1 .. n
  BY <1>1
<1>3. ASSUME NEW f \in DOMAIN gs, f # Len(gs) PROVE WaitsFor(gs[f], gs[f + 1].how)
  <2>1. CASE f = n
    BY <1>1, <2>1
  <2>2. CASE f # n
    BY <1>1, <1>2, <1>3, <2>2 DEF Below
  <2> QED
    BY <2>1, <2>2
<1> QED
  BY <1>3 DEF Below

LEMMA BelowPopped ==
  ASSUME NEW fs, Below(fs), NEW gs, NEW m, Pops(fs, gs, m)
  PROVE  Below(gs) /\ WaitsFor(gs[m], fs[m + 1].how) /\ gs[m] = fs[m]
<1>1. /\ m \in Nat \ {0} /\ Len(fs) = m + 1 /\ DOMAIN fs = 1 .. m + 1 /\ Len(gs) = m /\ DOMAIN gs = 1 .. m
      /\ \A f \in 1 .. m : gs[f] = fs[f] /\ f # m + 1 /\ f \in 1 .. m + 1
      /\ m \in DOMAIN gs
  BY DEF Pops
<1>2. \A f \in 1 .. m : f # m => f + 1 \in 1 .. m
  BY <1>1
<1> QED
  BY <1>1, <1>2 DEF Below


(* Where an exception may go. *)
Alike(fs, gs, h, k) ==
  /\ gs[h].scopes[k].kind = fs[h].scopes[k].kind
  /\ Returning(gs[h].scopes[k]) <=> Returning(fs[h].scopes[k])
  /\ gs[h].scopes[k].exc # Null => fs[h].scopes[k].exc # Null
  /\ gs[h].how = fs[h].how
  /\ h > 1 /\ gs[h - 1].operand # Null => fs[h - 1].operand # Null
AlikeUpTo(fs, gs, f, i) ==
  \A h, k \in Nat : UpTo(h, k, f, i) =>
    (Place(fs, h, k) <=> Place(gs, h, k)) /\ (Place(fs, h, k) => Alike(fs, gs, h, k))

LEMMA BarrierAlike ==
  ASSUME NEW fs, NEW gs, NEW h, NEW k, Alike(fs, gs, h, k), BarrierAt(gs, h, k)
  PROVE  BarrierAt(fs, h, k)
<1>1. <<h, k>>[1] = h /\ <<h, k>>[2] = k
  OBVIOUS
<1> QED
  BY <1>1 DEF BarrierAt, Barrier, KindAt, Alike

LEMMA ShelteredAlike ==
  ASSUME NEW fs, NEW gs, NEW f, NEW i, Sheltered(fs, f, i), AlikeUpTo(fs, gs, f, i)
  PROVE  Sheltered(gs, f, i)
<1> SUFFICES ASSUME NEW h \in Nat, NEW k \in Nat, Place(gs, h, k), BarrierAt(gs, h, k), UpTo(h, k, f, i)
             PROVE  TryAbove(gs, h, k, f, i)
  BY DEF Sheltered
<1>1. Place(fs, h, k) /\ Alike(fs, gs, h, k)
  BY DEF AlikeUpTo
<1>2. BarrierAt(fs, h, k)
  BY <1>1, BarrierAlike
<1>3. TryAbove(fs, h, k, f, i)
  BY <1>1, <1>2 DEF Sheltered
<1>4. PICK a, b \in Nat : /\ Place(fs, a, b) /\ fs[a].scopes[b].kind = "try"
                          /\ UpTo(a, b, f, i) /\ ~UpTo(a, b, h, k)
  BY <1>3 DEF TryAbove
<1>5. Place(gs, a, b) /\ Alike(fs, gs, a, b)
  BY <1>4 DEF AlikeUpTo
<1>6. gs[a].scopes[b].kind = "try"
  BY <1>4, <1>5 DEF Alike
<1> QED
  BY <1>4, <1>5, <1>6 DEF TryAbove

LEMMA KeptShelter ==
  ASSUME NEW fs, NEW a, Flying(fs, a), Shelter(fs), NEW gs, NEW b, b = Null => a = Null,
         \A f, i \in Nat : UnwindsAt(gs, f, i) => UnwindsAt(fs, f, i) /\ AlikeUpTo(fs, gs, f, i - 1)
  PROVE  Flying(gs, b) /\ Shelter(gs)
<1>1. Flying(gs, b)
  <2>1. b = Null => \A f, i \in Nat : ~UnwindsAt(gs, f, i)
    BY DEF Flying
  <2>2. ASSUME NEW f \in Nat, NEW i \in Nat, NEW g \in Nat, NEW j \in Nat,
               UnwindsAt(gs, f, i), UnwindsAt(gs, g, j)
        PROVE  f = g /\ i = j
    BY <2>2 DEF Flying
  <2> QED
    BY <2>1, <2>2 DEF Flying
<1>2. ASSUME NEW f \in Nat, NEW i \in Nat, UnwindsAt(gs, f, i) PROVE Sheltered(gs, f, i - 1)
  <2>1. UnwindsAt(fs, f, i) /\ AlikeUpTo(fs, gs, f, i - 1)
    BY <1>2
  <2>2. Sheltered(fs, f, i - 1)
    BY <2>1 DEF Shelter
  <2> QED
    BY <2>1, <2>2, ShelteredAlike
<1> QED
  BY <1>1, <1>2 DEF Shelter

(* The blocks z look like the blocks s below level i. *)
PrefixAlike(s, z, i) ==
  \A k \in Nat : k < i =>
    /\ k \in DOMAIN s <=> k \in DOMAIN z
    /\ k \in DOMAIN s => /\ z[k].kind = s[k].kind
                         /\ Returning(z[k]) <=> Returning(s[k])
                         /\ z[k].exc # Null => s[k].exc # Null

LEMMA ReplacedAlike ==
  ASSUME NEW fs, NEW gs, NEW n, NEW q, Replaced(fs, gs, n, q), NEW f \in Nat, NEW i \in Nat, f \in DOMAIN gs,
         f = n => PrefixAlike(fs[n].scopes, q.scopes, i)
  PROVE  AlikeUpTo(fs, gs, f, i - 1)
<1>1. /\ n \in Nat \ {0} /\ DOMAIN fs = 1 .. n /\ DOMAIN gs = 1 .. n
      /\ gs[n] = q /\ \A g \in 1 .. n : g # n => gs[g] = fs[g]
      /\ q.how = fs[n].how
  BY DEF Replaced
<1> SUFFICES ASSUME NEW h \in Nat, NEW k \in Nat, UpTo(h, k, f, i - 1)
             PROVE  (Place(fs, h, k) <=> Place(gs, h, k)) /\ (Place(fs, h, k) => Alike(fs, gs, h, k))
  BY DEF AlikeUpTo
<1>2. h <= n /\ (h = n => k < i /\ f = n)
  BY <1>1 DEF UpTo
<1>3. h \in 1 .. n /\ h > 1 => h - 1 \in 1 .. n /\ h - 1 # n /\ gs[h - 1] = fs[h - 1]
  BY <1>1, <1>2
<1>4. CASE h # n
  <2>1. h \in 1 .. n => gs[h] = fs[h]
    BY <1>1, <1>4
  <2> QED
    BY <1>1, <1>3, <2>1 DEF Place, Alike
<1>5. CASE h = n
  <2>1. PrefixAlike(fs[n].scopes, q.scopes, i) /\ k < i
    BY <1>2, <1>5
  <2> QED
    BY <1>1, <1>3, <1>5, <2>1 DEF Place, Alike, PrefixAlike
<1> QED
  BY <1>4, <1>5

LEMMA ReplacedShelter ==
  ASSUME NEW fs, NEW a, Flying(fs, a), Shelter(fs), NEW gs, NEW b, b = Null => a = Null,
         NEW n, NEW q, Replaced(fs, gs, n, q),
         \A i \in Nat : UnwindsIn(q, i) => UnwindsIn(fs[n], i) /\ PrefixAlike(fs[n].scopes, q.scopes, i)
  PROVE  Flying(gs, b) /\ Shelter(gs)
<1>1. /\ n \in Nat \ {0} /\ DOMAIN fs = 1 .. n /\ DOMAIN gs = 1 .. n
      /\ gs[n] = q /\ \A g \in 1 .. n : g # n => gs[g] = fs[g]
  BY DEF Replaced
<1>2. ASSUME NEW f \in Nat, NEW i \in Nat, UnwindsAt(gs, f, i)
      PROVE  UnwindsAt(fs, f, i) /\ AlikeUpTo(fs, gs, f, i - 1)
  <2>1. f \in 1 .. n /\ UnwindsIn(gs[f], i)
    BY <1>1, <1>2 DEF UnwindsAt
  <2>2. UnwindsAt(fs, f, i)
    <3>1. CASE f = n
      BY <1>1, <2>1, <3>1 DEF UnwindsAt
    <3>2. CASE f # n
      BY <1>1, <2>1, <3>2 DEF UnwindsAt
    <3> QED
      BY <3>1, <3>2
  <2>3. f = n => PrefixAlike(fs[n].scopes, q.scopes, i)
    BY <1>1, <2>1
  <2>4. f \in DOMAIN gs
    BY <1>1, <2>1
  <2>5. AlikeUpTo(fs, gs, f, i - 1)
    BY <2>3, <2>4, ReplacedAlike
  <2> QED
    BY <2>2, <2>5
<1> QED
  BY <1>2, KeptShelter

(* A frame in which no exception flies is pushed, or popped. *)
LEMMA SameAlike ==
  ASSUME NEW fs, NEW gs, NEW n \in Nat, \A f \in 1 .. n : f \in DOMAIN fs /\ f \in DOMAIN gs /\ gs[f] = fs[f],
         0 \notin DOMAIN fs, 0 \notin DOMAIN gs, NEW f \in Nat, f <= n, NEW i
  PROVE  AlikeUpTo(fs, gs, f, i)
<1> SUFFICES ASSUME NEW h \in Nat, NEW k \in Nat, UpTo(h, k, f, i)
             PROVE  (Place(fs, h, k) <=> Place(gs, h, k)) /\ (Place(fs, h, k) => Alike(fs, gs, h, k))
  BY DEF AlikeUpTo
<1>1. h = 0 \/ h \in 1 .. n
  BY DEF UpTo
<1>2. h \in 1 .. n /\ h > 1 => h - 1 \in 1 .. n
  OBVIOUS
<1>3. h \in 1 .. n => gs[h] = fs[h] /\ h \in DOMAIN fs /\ h \in DOMAIN gs
  OBVIOUS
<1>4. h \in 1 .. n /\ h > 1 => gs[h - 1] = fs[h - 1]
  BY <1>2
<1> QED
  BY <1>1, <1>3, <1>4 DEF Place, Alike

LEMMA PushedShelter ==
  ASSUME NEW fs, NEW a, Flying(fs, a), Shelter(fs), NEW gs, NEW n, NEW q, Pushes(fs, gs, n, q),
         \A i \in Nat : ~UnwindsIn(q, i)
  PROVE  Flying(gs, a) /\ Shelter(gs)
<1>1. /\ n \in Nat /\ DOMAIN fs = 1 .. n /\ DOMAIN gs = 1 .. n + 1 /\ gs[n + 1] = q
      /\ \A f \in 1 .. n : gs[f] = fs[f] /\ f \in 1 .. n + 1
      /\ \A f \in 1 .. n + 1 : f # n + 1 => f \in 1 .. n
  BY DEF Pushes
<1>2. ASSUME NEW f \in Nat, NEW i \in Nat, UnwindsAt(gs, f, i)
      PROVE  UnwindsAt(fs, f, i) /\ AlikeUpTo(fs, gs, f, i - 1)
  <2>1. f \in 1 .. n /\ UnwindsIn(gs[f], i)
    BY <1>1, <1>2 DEF UnwindsAt
  <2>2. UnwindsAt(fs, f, i) /\ f <= n
    BY <1>1, <2>1 DEF UnwindsAt
  <2>3. /\ \A g \in 1 .. n : g \in DOMAIN fs /\ g \in DOMAIN gs /\ gs[g] = fs[g]
        /\ 0 \notin DOMAIN fs /\ 0 \notin DOMAIN gs
    BY <1>1
  <2>4. AlikeUpTo(fs, gs, f, i - 1)
    BY <1>1, <2>2, <2>3, SameAlike
  <2> QED
    BY <2>2, <2>4
<1> QED
  BY <1>2, KeptShelter

LEMMA PoppedShelter ==
  ASSUME NEW fs, NEW a, Flying(fs, a), Shelter(fs), NEW gs, NEW m, Pops(fs, gs, m)
  PROVE  Flying(gs, a) /\ Shelter(gs)
<1>1. /\ m \in Nat \ {0} /\ DOMAIN fs = 1 .. m + 1 /\ DOMAIN gs = 1 .. m
      /\ \A f \in 1 .. m : gs[f] = fs[f] /\ f \in 1 .. m + 1
  BY DEF Pops
<1>2. ASSUME NEW f \in Nat, NEW i \in Nat, UnwindsAt(gs, f, i)
      PROVE  UnwindsAt(fs, f, i) /\ AlikeUpTo(fs, gs, f, i - 1)
  <2>1. f \in 1 .. m /\ UnwindsIn(gs[f], i)
    BY <1>1, <1>2 DEF UnwindsAt
  <2>2. UnwindsAt(fs, f, i) /\ f <= m /\ m \in Nat
    BY <1>1, <2>1 DEF UnwindsAt
  <2>3. /\ \A g \in 1 .. m : g \in DOMAIN fs /\ g \in DOMAIN gs /\ gs[g] = fs[g]
        /\ 0 \notin DOMAIN fs /\ 0 \notin DOMAIN gs
    BY <1>1
  <2>4. AlikeUpTo(fs, gs, f, i - 1)
    BY <2>2, <2>3, SameAlike
  <2> QED
    BY <2>2, <2>4
<1> QED
  BY <1>2, KeptShelter


(* The exception in flight is thrown, or goes on to another block. *)
OnlyAt(fs, f0, i0) == \A f, i \in Nat : UnwindsAt(fs, f, i) => f = f0 /\ i = i0
LEMMA OneShelter ==
  ASSUME NEW gs, NEW b, b # Null, NEW f0, NEW i0, NEW m0, m0 = i0 - 1,
         OnlyAt(gs, f0, i0),
         Sheltered(gs, f0, m0)
  PROVE  Flying(gs, b) /\ Shelter(gs)
<1>1. Flying(gs, b)
  BY DEF Flying, OnlyAt
<1>2. \A f, i \in Nat : UnwindsAt(gs, f, i) => Sheltered(gs, f, i - 1)
  BY DEF OnlyAt
<1> QED
  BY <1>1, <1>2 DEF Shelter

LEMMA NoneShelter ==
  ASSUME NEW gs, NEW b, \A f, i \in Nat : ~UnwindsAt(gs, f, i)
  PROVE  Flying(gs, b) /\ Shelter(gs)
BY DEF Flying, Shelter

LEMMA Solo ==
  ASSUME NEW fs, NEW a, Flying(fs, a), Shelter(fs), NEW f \in Nat, NEW i \in Nat, UnwindsAt(fs, f, i)
  PROVE  /\ a # Null /\ \A g, j \in Nat : UnwindsAt(fs, g, j) => g = f /\ j = i
         /\ Sheltered(fs, f, i - 1)
BY DEF Flying, Shelter

LEMMA Barred ==
  ASSUME NEW fs, NEW f \in Nat, NEW i \in Nat, Sheltered(fs, f, i), Place(fs, f, i)
  PROVE  ~BarrierAt(fs, f, i)
<1> SUFFICES ASSUME BarrierAt(fs, f, i) PROVE FALSE
  OBVIOUS
<1>1. UpTo(f, i, f, i)
  BY DEF UpTo
<1>2. TryAbove(fs, f, i, f, i)
  BY <1>1 DEF Sheltered
<1> QED
  BY <1>2 DEF TryAbove

(* What encloses a block without a catch clause. *)
LEMMA ShelterBelow ==
  ASSUME NEW fs, NEW f, NEW i, Sheltered(fs, f, i), NEW g, NEW j,
         \A h, k \in Nat : Place(fs, h, k) /\ UpTo(h, k, g, j) => UpTo(h, k, f, i),
         \A h, k \in Nat : Place(fs, h, k) /\ UpTo(h, k, f, i) /\ fs[h].scopes[k].kind = "try" =>
           UpTo(h, k, g, j)
  PROVE  Sheltered(fs, g, j)
<1> SUFFICES ASSUME NEW h \in Nat, NEW k \in Nat, Place(fs, h, k), BarrierAt(fs, h, k), UpTo(h, k, g, j)
             PROVE  TryAbove(fs, h, k, g, j)
  BY DEF Sheltered
<1>1. TryAbove(fs, h, k, f, i)
  BY DEF Sheltered
<1>2. PICK a, b \in Nat : /\ Place(fs, a, b) /\ fs[a].scopes[b].kind = "try"
                          /\ UpTo(a, b, f, i) /\ ~UpTo(a, b, h, k)
  BY <1>1 DEF TryAbove
<1> QED
  BY <1>2 DEF TryAbove

LEMMA ScopesType ==
  ASSUME NEW fs, NEW rs, FramesOK(fs, rs), NEW f \in DOMAIN fs
  PROVE  /\ fs[f] \in FrameRecords /\ fs[f].scopes \in Scopings
         /\ f \in Nat /\ DOMAIN fs \subseteq Nat \ {0}
         /\ Len(fs[f].scopes) \in Nat \ {0} /\ DOMAIN fs[f].scopes = 1 .. Len(fs[f].scopes)
         /\ Level(fs[f].scopes, fs[f].todo, rs)
         /\ \A i \in DOMAIN fs[f].scopes : /\ ScopeOK(fs[f].scopes[i]) /\ i \in Nat \ {0}
                                           /\ fs[f].scopes[i] \in ScopeRecords
                                           /\ fs[f].scopes[i].kind = "body" <=> i = 1
<1>1. fs \in Seq(FrameRecords) /\ FrameOK(fs[f], rs)
  BY DEF FramesOK
<1>2. DOMAIN fs = 1 .. Len(fs) /\ Len(fs) \in Nat /\ fs[f] \in FrameRecords
  BY <1>1, FramesType
<1>3. Level(fs[f].scopes, fs[f].todo, rs)
  BY <1>1 DEF FrameOK
<1>4. PICK s, c : s = fs[f].scopes /\ c = fs[f].todo
  OBVIOUS
<1>5. /\ Len(s) \in Nat \ {0} /\ DOMAIN s = 1 .. Len(s) /\ s \in Scopings
      /\ \A j \in DOMAIN s : s[j] \in ScopeRecords /\ ScopeOK(s[j]) /\ (s[j].kind = "body" <=> j = 1)
  BY <1>3, <1>4, LevelType
<1> QED
  BY <1>2, <1>3, <1>4, <1>5

(* What Careful says. *)
LEMMA CarefulShelter ==
  ASSUME NEW fs, Careful(fs), NEW f \in DOMAIN fs, NEW i \in DOMAIN fs[f].scopes, Barrier(fs, <<f, i>>),
         \A h \in DOMAIN fs : h \in Nat /\ \A k \in DOMAIN fs[h].scopes : k \in Nat
  PROVE  \E h, k \in Nat : Place(fs, h, k) /\ fs[h].scopes[k].kind = "try" /\ ~UpTo(h, k, f, i)
<1>1. \A h, k : <<h, k>> \in Positions(fs) <=> Place(fs, h, k)
  BY DEF Positions, Place
<1>2. <<f, i>> \in {p \in Positions(fs) : Barrier(fs, p)}
  BY <1>1 DEF Place
<1>3. PICK p \in Positions(fs) : /\ KindAt(fs, p) = "try"
                                 /\ \A q \in {z \in Positions(fs) : Barrier(fs, z)} : Before(q, p)
  BY <1>2 DEF Careful
<1>4. PICK h, k : p = <<h, k>> /\ Place(fs, h, k)
  BY <1>3 DEF Positions, Place
<1>5. Before(<<f, i>>, <<h, k>>) /\ fs[h].scopes[k].kind = "try"
  BY <1>2, <1>3, <1>4 DEF KindAt
<1>6. h \in Nat /\ k \in Nat /\ f \in Nat /\ i \in Nat
  BY <1>4 DEF Place
<1>7. ~UpTo(h, k, f, i)
  BY <1>5, <1>6 DEF Before, UpTo
<1> QED
  BY <1>4, <1>5, <1>6, <1>7


(* Statements with a finally clause. *)
LEMMA PlaceOf ==
  ASSUME NEW fs, NEW rs, FramesOK(fs, rs), NEW f, NEW i, Place(fs, f, i)
  PROVE  /\ f \in Nat /\ i \in Nat
         /\ fs[f].scopes[i].kind = "finally" \/ HasFinally(fs[f].scopes[i]) => fs[f].scopes[i].of \in Try
<1>1. f \in DOMAIN fs /\ i \in DOMAIN fs[f].scopes
  BY DEF Place
<1>2. f \in Nat /\ i \in Nat /\ ScopeOK(fs[f].scopes[i]) /\ fs[f].scopes[i] \in ScopeRecords
  BY <1>1, ScopesType
<1>3. fs[f].scopes[i].of \in Try \cup {Null}
  BY <1>2 DEF ScopeRecords
<1> QED
  BY <1>2, <1>3 DEF ScopeOK, HasFinally

LEMMA StatementsKept ==
  ASSUME NEW fs, NEW rs, FramesOK(fs, rs), Statements(fs, rs), NEW gs, NEW rz,
         \A f, i \in Nat : OpenAt(gs, f, i) => OpenAt(fs, f, i) /\ fs[f].scopes[i].of = gs[f].scopes[i].of,
         \A f, i \in Nat : Place(gs, f, i) /\ gs[f].scopes[i].kind = "finally" =>
           \/ rz[gs[f].scopes[i].of] = 1
           \/ Place(fs, f, i) /\ fs[f].scopes[i].kind = "finally" /\ fs[f].scopes[i].of = gs[f].scopes[i].of,
         \A u \in Try : rz[u] = rs[u] \/ rz[u] = 1,
         \A f, i \in Nat : OpenAt(fs, f, i) =>
           \/ OpenAt(gs, f, i) /\ fs[f].scopes[i].of = gs[f].scopes[i].of
           \/ rz[fs[f].scopes[i].of] = 1 \/ "jump" \in Habits
  PROVE  Statements(gs, rz)
<1>1. ASSUME NEW f \in Nat, NEW i \in Nat, NEW g \in Nat, NEW j \in Nat,
             OpenAt(gs, f, i), OpenAt(gs, g, j), gs[f].scopes[i].of = gs[g].scopes[j].of
      PROVE  f = g /\ i = j
  BY <1>1 DEF Statements
<1>2. ASSUME NEW f \in Nat, NEW i \in Nat, Place(gs, f, i), gs[f].scopes[i].kind = "finally"
      PROVE  rz[gs[f].scopes[i].of] = 1
  <2> SUFFICES ASSUME Place(fs, f, i), fs[f].scopes[i].kind = "finally", fs[f].scopes[i].of = gs[f].scopes[i].of
               PROVE  rz[gs[f].scopes[i].of] = 1
    BY <1>2
  <2>1. rs[fs[f].scopes[i].of] = 1
    BY DEF Statements
  <2>2. fs[f].scopes[i].of \in Try
    BY PlaceOf
  <2> QED
    BY <2>1, <2>2
<1>3. \A t \in Try : rz[t] \in {0, 1}
  BY DEF Statements
<1>4. ASSUME NEW t \in Try, rz[t] = 0, "jump" \notin Habits
      PROVE  \E f, i \in Nat : OpenAt(gs, f, i) /\ gs[f].scopes[i].of = t
  <2>1. rs[t] = 0
    BY <1>4
  <2>2. PICK f, i \in Nat : OpenAt(fs, f, i) /\ fs[f].scopes[i].of = t
    BY <1>4, <2>1 DEF Statements
  <2> QED
    BY <1>4, <2>2
<1> QED
  BY <1>1, <1>2, <1>3, <1>4 DEF Statements

(* A block z[i] that is open for the same statement as s[i]. *)
SameOpen(s, z, i) == i \in DOMAIN z /\ HasFinally(z[i]) /\ z[i].of = s[i].of
SameRun(s, z, i) == i \in DOMAIN z /\ z[i].kind = "finally" /\ z[i].of = s[i].of

StatementScopes(s, z, rs, rz) ==
  /\ \A u \in Try : rz[u] = rs[u] \/ rz[u] = 1
  /\ \A i \in DOMAIN z : HasFinally(z[i]) => SameOpen(z, s, i)
  /\ \A i \in DOMAIN z : z[i].kind = "finally" => rz[z[i].of] = 1 \/ SameRun(z, s, i)
  /\ \A i \in DOMAIN s : HasFinally(s[i]) =>
       SameOpen(s, z, i) \/ rz[s[i].of] = 1 \/ "jump" \in Habits

LEMMA StatementsReplaced ==
  ASSUME NEW fs, NEW rs, FramesOK(fs, rs), Statements(fs, rs), NEW gs, NEW n, NEW q, Replaced(fs, gs, n, q),
         NEW rz, StatementScopes(fs[n].scopes, q.scopes, rs, rz)
  PROVE  Statements(gs, rz)
<1>b. PICK s, z : s = fs[n].scopes /\ z = q.scopes
  OBVIOUS
<1>a. /\ \A u \in Try : rz[u] = rs[u] \/ rz[u] = 1
      /\ \A i \in DOMAIN z : HasFinally(z[i]) => SameOpen(z, s, i)
      /\ \A i \in DOMAIN z : z[i].kind = "finally" => rz[z[i].of] = 1 \/ SameRun(z, s, i)
      /\ \A i \in DOMAIN s : HasFinally(s[i]) =>
           SameOpen(s, z, i) \/ rz[s[i].of] = 1 \/ "jump" \in Habits
  BY <1>b DEF StatementScopes
<1>1. /\ DOMAIN fs = 1 .. n /\ DOMAIN gs = 1 .. n /\ n \in DOMAIN fs /\ n \in DOMAIN gs
      /\ gs[n] = q /\ \A f \in 1 .. n : f # n => gs[f] = fs[f]
  BY DEF Replaced
<1>2. ASSUME NEW f \in Nat, NEW i \in Nat, f # n
      PROVE  Place(gs, f, i) <=> Place(fs, f, i)
  BY <1>1, <1>2 DEF Place
<1>3. ASSUME NEW f, NEW i, Place(fs, f, i) \/ Place(gs, f, i), f # n
      PROVE  gs[f] = fs[f]
  BY <1>1, <1>3 DEF Place
<1>4. ASSUME NEW f \in Nat, NEW i \in Nat, OpenAt(gs, f, i)
      PROVE  OpenAt(fs, f, i) /\ fs[f].scopes[i].of = gs[f].scopes[i].of
  <2>1. CASE f = n
    <3>1. i \in DOMAIN z /\ HasFinally(z[i])
      BY <1>b, <1>1, <1>4, <2>1 DEF OpenAt, Place
    <3>2. SameOpen(z, s, i)
      BY <1>a, <3>1
    <3> QED
      BY <1>b, <1>1, <2>1, <3>2 DEF SameOpen, OpenAt, Place
  <2>2. CASE f # n
    BY <1>2, <1>3, <1>4, <2>2 DEF OpenAt
  <2> QED
    BY <2>1, <2>2
<1>5. ASSUME NEW f \in Nat, NEW i \in Nat, Place(gs, f, i), gs[f].scopes[i].kind = "finally"
      PROVE  \/ rz[gs[f].scopes[i].of] = 1
             \/ Place(fs, f, i) /\ fs[f].scopes[i].kind = "finally" /\ fs[f].scopes[i].of = gs[f].scopes[i].of
  <2>1. CASE f = n
    <3>1. i \in DOMAIN z /\ z[i].kind = "finally" /\ gs[f].scopes[i] = z[i]
      BY <1>b, <1>1, <1>5, <2>1 DEF Place
    <3>2. rz[z[i].of] = 1 \/ SameRun(z, s, i)
      BY <1>a, <3>1
    <3> QED
      BY <1>b, <1>1, <2>1, <3>1, <3>2 DEF SameRun, Place
  <2>2. CASE f # n
    BY <1>2, <1>3, <1>5, <2>2
  <2> QED
    BY <2>1, <2>2
<1>6. ASSUME NEW f \in Nat, NEW i \in Nat, OpenAt(fs, f, i)
      PROVE  \/ OpenAt(gs, f, i) /\ fs[f].scopes[i].of = gs[f].scopes[i].of
             \/ rz[fs[f].scopes[i].of] = 1 \/ "jump" \in Habits
  <2>1. CASE f = n
    <3>1. i \in DOMAIN s /\ HasFinally(s[i]) /\ fs[f].scopes[i] = s[i]
      BY <1>b, <1>1, <1>6, <2>1 DEF OpenAt, Place
    <3>2. SameOpen(s, z, i) \/ rz[s[i].of] = 1 \/ "jump" \in Habits
      BY <1>a, <3>1
    <3>3. SameOpen(s, z, i) => OpenAt(gs, f, i) /\ fs[f].scopes[i].of = gs[f].scopes[i].of
      BY <1>b, <1>1, <2>1, <3>1 DEF SameOpen, OpenAt, Place
    <3> QED
      BY <3>1, <3>2, <3>3
  <2>2. CASE f # n
    BY <1>2, <1>3, <1>6, <2>2 DEF OpenAt
  <2> QED
    BY <2>1, <2>2
<1> QED
  BY <1>a, <1>4, <1>5, <1>6, StatementsKept

LEMMA StatementsPushed ==
  ASSUME NEW fs, NEW rs, FramesOK(fs, rs), Statements(fs, rs), NEW gs, NEW n, NEW q, Pushes(fs, gs, n, q),
         DOMAIN q.scopes = {1}, q.scopes[1].kind = "body"
  PROVE  Statements(gs, rs)
<1>1. /\ DOMAIN fs = 1 .. n /\ DOMAIN gs = 1 .. n + 1 /\ gs[n + 1] = q
      /\ \A f \in 1 .. n : gs[f] = fs[f] /\ f # n + 1 /\ f \in 1 .. n + 1
      /\ \A f \in 1 .. n + 1 : f # n + 1 => f \in 1 .. n
  BY DEF Pushes
<1>2. ASSUME NEW f, NEW i, Place(fs, f, i)
      PROVE  Place(gs, f, i) /\ gs[f].scopes[i] = fs[f].scopes[i]
  BY <1>1, <1>2 DEF Place
<1>3. ASSUME NEW f, NEW i, Place(gs, f, i), gs[f].scopes[i].kind # "body"
      PROVE  Place(fs, f, i) /\ gs[f].scopes[i] = fs[f].scopes[i]
  <2>1. f # n + 1
    BY <1>1, <1>3 DEF Place
  <2> QED
    BY <1>1, <1>3, <2>1 DEF Place
<1>4. \A f, i \in Nat : OpenAt(gs, f, i) => OpenAt(fs, f, i) /\ fs[f].scopes[i].of = gs[f].scopes[i].of
  <2>1. \A x : HasFinally(x) => x.kind # "body"
    BY DEF HasFinally
  <2> QED
    BY <1>3, <2>1 DEF OpenAt
<1>5. \A f, i \in Nat : OpenAt(fs, f, i) => OpenAt(gs, f, i) /\ fs[f].scopes[i].of = gs[f].scopes[i].of
  BY <1>2 DEF OpenAt
<1>6. \A f, i \in Nat : Place(gs, f, i) /\ gs[f].scopes[i].kind = "finally" =>
        Place(fs, f, i) /\ fs[f].scopes[i].kind = "finally" /\ fs[f].scopes[i].of = gs[f].scopes[i].of
  BY <1>3
<1> QED
  BY <1>4, <1>5, <1>6, StatementsKept

LEMMA StatementsPopped ==
  ASSUME NEW fs, NEW rs, FramesOK(fs, rs), Statements(fs, rs), NEW gs, NEW m, Pops(fs, gs, m),
         \A i \in DOMAIN fs[m + 1].scopes : HasFinally(fs[m + 1].scopes[i]) =>
           rs[fs[m + 1].scopes[i].of] = 1 \/ "jump" \in Habits
  PROVE  Statements(gs, rs)
<1>1. /\ DOMAIN fs = 1 .. m + 1 /\ DOMAIN gs = 1 .. m
      /\ \A f \in 1 .. m : gs[f] = fs[f] /\ f # m + 1 /\ f \in 1 .. m + 1
      /\ \A f \in 1 .. m + 1 : f # m + 1 => f \in 1 .. m
  BY DEF Pops
<1>2. ASSUME NEW f, NEW i, Place(gs, f, i)
      PROVE  Place(fs, f, i) /\ gs[f].scopes[i] = fs[f].scopes[i]
  BY <1>1, <1>2 DEF Place
<1>3. ASSUME NEW f, NEW i, Place(fs, f, i), f # m + 1
      PROVE  Place(gs, f, i) /\ gs[f].scopes[i] = fs[f].scopes[i]
  BY <1>1, <1>3 DEF Place
<1>4. \A f, i \in Nat : OpenAt(gs, f, i) => OpenAt(fs, f, i) /\ fs[f].scopes[i].of = gs[f].scopes[i].of
  BY <1>2 DEF OpenAt
<1>5. ASSUME NEW f \in Nat, NEW i \in Nat, OpenAt(fs, f, i)
      PROVE  \/ OpenAt(gs, f, i) /\ fs[f].scopes[i].of = gs[f].scopes[i].of
             \/ rs[fs[f].scopes[i].of] = 1 \/ "jump" \in Habits
  <2>1. CASE f = m + 1
    BY <1>5, <2>1 DEF OpenAt, Place
  <2>2. CASE f # m + 1
    BY <1>3, <1>5, <2>2 DEF OpenAt
  <2> QED
    BY <2>1, <2>2
<1>6. \A f, i \in Nat : Place(gs, f, i) /\ gs[f].scopes[i].kind = "finally" =>
        Place(fs, f, i) /\ fs[f].scopes[i].kind = "finally" /\ fs[f].scopes[i].of = gs[f].scopes[i].of
  BY <1>2
<1> QED
  BY <1>4, <1>5, <1>6, StatementsKept

(* A try statement starts. *)
LEMMA StatementsOpened ==
  ASSUME NEW fs, NEW rs, FramesOK(fs, rs), Statements(fs, rs), NEW gs, NEW n, NEW q, Replaced(fs, gs, n, q),
         NEW t \in Try, \A f, i : Place(fs, f, i) => fs[f].scopes[i].of # t,
         NEW rz, \A u \in Try : rz[u] = IF u = t THEN 0 ELSE rs[u],
         NEW s, s = fs[n].scopes, NEW x, q.scopes = Append(s, x), x.kind = "try", x.of = t,
         s \in Scopings, x \in ScopeRecords
  PROVE  Statements(gs, rz)
<1>1. /\ DOMAIN fs = 1 .. n /\ DOMAIN gs = 1 .. n /\ n \in DOMAIN fs /\ n \in DOMAIN gs /\ n \in Nat
      /\ gs[n] = q /\ \A f \in 1 .. n : f # n => gs[f] = fs[f]
  BY DEF Replaced
<1>2. PICK z, m : z = Append(s, x) /\ m = Len(s) + 1
  OBVIOUS
<1>3. /\ DOMAIN z = 1 .. m /\ \A j \in DOMAIN s : z[j] = s[j]
      /\ z[m] = x /\ m \in DOMAIN z /\ m \in Nat
      /\ \A j \in DOMAIN z : j # m => j \in DOMAIN s
      /\ \A j \in DOMAIN s : j # m /\ j \in DOMAIN z
  <2>1. Len(s) \in Nat /\ DOMAIN s = 1 .. Len(s)
    BY ScopingType
  <2>2. /\ DOMAIN z = 1 .. m /\ \A j \in 1 .. Len(s) : z[j] = s[j]
        /\ z[m] = x
    BY <1>2, Pushed
  <2> QED
    BY <1>2, <2>1, <2>2
<1>4. ASSUME NEW f, NEW i, Place(gs, f, i), ~(f = n /\ i = m)
      PROVE  Place(fs, f, i) /\ gs[f].scopes[i] = fs[f].scopes[i]
  <2>1. CASE f = n
    BY <1>1, <1>2, <1>3, <1>4, <2>1 DEF Place
  <2>2. CASE f # n
    BY <1>1, <1>4, <2>2 DEF Place
  <2> QED
    BY <2>1, <2>2
<1>5. ASSUME NEW f, NEW i, Place(fs, f, i)
      PROVE  Place(gs, f, i) /\ gs[f].scopes[i] = fs[f].scopes[i] /\ fs[f].scopes[i].of # t
  <2>1. CASE f = n
    <3>1. i \in DOMAIN s
      BY <1>5, <2>1 DEF Place
    <3>2. i \in DOMAIN z /\ z[i] = s[i]
      BY <1>2, <1>3, <3>1, ScopingType
    <3> QED
      BY <1>1, <1>2, <1>5, <2>1, <3>2 DEF Place
  <2>2. CASE f # n
    BY <1>1, <1>5, <2>2 DEF Place
  <2> QED
    BY <2>1, <2>2
<1>6. Place(gs, n, m) /\ gs[n].scopes[m] = x /\ HasFinally(x) /\ x.kind # "finally"
  <2>1. x.of # Null
    BY NullAssumption
  <2> QED
    BY <1>1, <1>2, <1>3, <2>1 DEF Place, HasFinally
<1>7. ASSUME NEW f \in Nat, NEW i \in Nat, NEW g \in Nat, NEW j \in Nat,
             OpenAt(gs, f, i), OpenAt(gs, g, j), gs[f].scopes[i].of = gs[g].scopes[j].of
      PROVE  f = g /\ i = j
  <2>1. CASE f = n /\ i = m
    BY <1>4, <1>5, <1>6, <1>7, <2>1 DEF OpenAt
  <2>2. CASE g = n /\ j = m
    BY <1>4, <1>5, <1>6, <1>7, <2>2 DEF OpenAt
  <2>3. CASE ~(f = n /\ i = m) /\ ~(g = n /\ j = m)
    <3>1. Place(fs, f, i) /\ gs[f].scopes[i] = fs[f].scopes[i]
      BY <1>4, <1>7, <2>3 DEF OpenAt
    <3>2. Place(fs, g, j) /\ gs[g].scopes[j] = fs[g].scopes[j]
      BY <1>4, <1>7, <2>3 DEF OpenAt
    <3>3. OpenAt(fs, f, i) /\ OpenAt(fs, g, j) /\ fs[f].scopes[i].of = fs[g].scopes[j].of
      BY <1>7, <3>1, <3>2 DEF OpenAt
    <3> QED
      BY <3>3 DEF Statements
  <2> QED
    BY <2>1, <2>2, <2>3
<1>8. ASSUME NEW f \in Nat, NEW i \in Nat, Place(gs, f, i), gs[f].scopes[i].kind = "finally"
      PROVE  rz[gs[f].scopes[i].of] = 1
  <2>1. Place(fs, f, i) /\ gs[f].scopes[i] = fs[f].scopes[i] /\ fs[f].scopes[i].of # t
    BY <1>4, <1>5, <1>6, <1>8
  <2>2. rs[fs[f].scopes[i].of] = 1
    BY <1>8, <2>1 DEF Statements
  <2>3. fs[f].scopes[i].of \in Try
    BY <1>8, <2>1, PlaceOf
  <2> QED
    BY <2>1, <2>2, <2>3
<1>9. \A u \in Try : rz[u] \in {0, 1}
  BY DEF Statements
<1>10. ASSUME NEW u \in Try, rz[u] = 0, "jump" \notin Habits
       PROVE  \E f, i \in Nat : OpenAt(gs, f, i) /\ gs[f].scopes[i].of = u
  <2>1. CASE u = t
    BY <1>1, <1>3, <1>6, <2>1 DEF OpenAt
  <2>2. CASE u # t
    <3>1. rs[u] = 0
      BY <1>10, <2>2
    <3>2. PICK f, i \in Nat : OpenAt(fs, f, i) /\ fs[f].scopes[i].of = u
      BY <1>10, <3>1 DEF Statements
    <3> QED
      BY <1>5, <3>2 DEF OpenAt
  <2> QED
    BY <2>1, <2>2
<1> QED
  BY <1>7, <1>8, <1>9, <1>10 DEF Statements


(* Counts that cover the owners. *)
LEMMA CoverLess ==
  ASSUME NEW k, NEW S, Covers(k, S), NEW T, T \subseteq S, Habits = {} => T = S
  PROVE  Covers(k, T)
<1>1. IsFiniteSet(T) /\ Cardinality(T) <= Cardinality(S)
  BY FS_Subset DEF Covers
<1>2. Cardinality(T) \in Nat /\ Cardinality(S) \in Nat
  BY <1>1, FS_CardinalityType DEF Covers
<1> QED
  BY <1>1, <1>2 DEF Covers

LEMMA CoverMore ==
  ASSUME NEW k, NEW S, Covers(k, S), NEW e, e \notin S, NEW T, T = S \cup {e}
  PROVE  Covers(k + 1, T)
<1>1. IsFiniteSet(T) /\ Cardinality(T) = Cardinality(S) + 1
  BY FS_AddElement DEF Covers
<1>2. Cardinality(S) \in Nat
  BY FS_CardinalityType DEF Covers
<1> QED
  BY <1>1, <1>2 DEF Covers

LEMMA CoverTake ==
  ASSUME NEW k, NEW S, Covers(k, S), NEW e \in S, NEW T, T \subseteq S \ {e}, Habits = {} => T = S \ {e}
  PROVE  k \in Nat /\ k > 0 /\ k - 1 \in Nat /\ Covers(k - 1, T)
<1>1. IsFiniteSet(S \ {e}) /\ Cardinality(S \ {e}) = Cardinality(S) - 1
  BY FS_RemoveElement DEF Covers
<1>2. IsFiniteSet(T) /\ Cardinality(T) <= Cardinality(S \ {e})
  BY <1>1, FS_Subset
<1>3. Cardinality(S) \in Nat /\ Cardinality(S \ {e}) \in Nat /\ Cardinality(T) \in Nat
  BY <1>1, <1>2, FS_CardinalityType DEF Covers
<1>4. Habits = {} => Cardinality(T) = Cardinality(S) - 1
  BY <1>1
<1>5. k \in Nat /\ k >= Cardinality(S) /\ (Habits = {} => k = Cardinality(S))
  BY DEF Covers
<1>6. k - 1 \in Nat /\ k > 0 /\ k - 1 >= Cardinality(T) /\ (Habits = {} => k - 1 = Cardinality(T))
  BY <1>1, <1>2, <1>3, <1>4, <1>5
<1> QED
  BY <1>2, <1>5, <1>6 DEF Covers

(* Who refers to an object. *)
Held(s, i, o) == i \in DOMAIN s /\ s[i].owns /\ s[i].slot = o
Caught(s, i, o) == i \in DOMAIN s /\ s[i].exc = o

LEMMA ReferenceIn ==
  ASSUME NEW r, NEW o, NEW x
  PROVE  x \in References(r, o) <=>
           \/ \E i \in DOMAIN r.scopes : Held(r.scopes, i, o) /\ x = <<"variable", i>>
           \/ \E i \in DOMAIN r.scopes : Caught(r.scopes, i, o) /\ x = <<"caught", i>>
           \/ r.operand = o /\ x = <<"operand", 0>>
           \/ r.obj = o /\ x = <<"destructor", 0>>
BY DEF References, Held, Caught

ScopesLess(z, s, o) ==
  /\ \A i \in DOMAIN z : Held(z, i, o) => Held(s, i, o)
  /\ \A i \in DOMAIN z : Caught(z, i, o) => Caught(s, i, o)

LEMMA ReferencesLess ==
  ASSUME NEW r, NEW q, NEW o, q.operand = o => r.operand = o, q.obj = o => r.obj = o,
         ScopesLess(q.scopes, r.scopes, o)
  PROVE  References(q, o) \subseteq References(r, o)
<1>1. /\ \A i : Held(r.scopes, i, o) => i \in DOMAIN r.scopes
      /\ \A i : Caught(r.scopes, i, o) => i \in DOMAIN r.scopes
  BY DEF Held, Caught
<1> SUFFICES ASSUME NEW x \in References(q, o) PROVE x \in References(r, o)
  OBVIOUS
<1> QED
  BY <1>1, ReferenceIn DEF ScopesLess

LEMMA OwnerIn ==
  ASSUME NEW fs, NEW a, NEW o, NEW e
  PROVE  e \in OwnersIn(fs, a, o) <=>
           \/ \E f \in DOMAIN fs : \E x \in References(fs[f], o) : e = <<f, x>>
           \/ a = o /\ (e = <<0, <<"exception", 1>>>> \/ e = <<0, <<"exception", 2>>>>)
<1> DEFINE F == UNION {{<<f, x>> : x \in References(fs[f], o)} : f \in DOMAIN fs}
           X == IF a = o THEN {<<0, <<"exception", k>>>> : k \in {1, 2}} ELSE {}
<1>1. e \in F <=> \E f \in DOMAIN fs : \E x \in References(fs[f], o) : e = <<f, x>>
  OBVIOUS
<1>2. e \in X <=> a = o /\ (e = <<0, <<"exception", 1>>>> \/ e = <<0, <<"exception", 2>>>>)
  OBVIOUS
<1>3. OwnersIn(fs, a, o) = F \cup X
  BY DEF OwnersIn
<1> HIDE DEF F, X
<1> QED
  BY <1>1, <1>2, <1>3

(* The owners when the last frame is replaced. *)
LEMMA OwnersReplaced ==
  ASSUME NEW fs, NEW gs, NEW n, NEW q, Replaced(fs, gs, n, q), NEW a, NEW o, NEW e
  PROVE  /\ e \in OwnersIn(gs, a, o) =>
              e \in OwnersIn(fs, a, o) \/ \E x \in References(q, o) : e = <<n, x>>
         /\ \A x \in References(q, o) : <<n, x>> \in OwnersIn(gs, a, o)
         /\ \A x \in References(fs[n], o) : <<n, x>> \in OwnersIn(fs, a, o)
         /\ \A x : <<n, x>> \in OwnersIn(gs, a, o) => x \in References(q, o)
         /\ \A x : <<n, x>> \in OwnersIn(fs, a, o) => x \in References(fs[n], o)
         /\ e \in OwnersIn(fs, a, o) =>
              e \in OwnersIn(gs, a, o) \/ \E x \in References(fs[n], o) : e = <<n, x>>
<1>1. /\ DOMAIN fs = 1 .. n /\ DOMAIN gs = 1 .. n /\ n \in DOMAIN fs /\ n \in DOMAIN gs /\ n # 0
      /\ gs[n] = q /\ \A f \in 1 .. n : f # n => gs[f] = fs[f]
  BY DEF Replaced
<1>2. ASSUME e \in OwnersIn(gs, a, o)
      PROVE  e \in OwnersIn(fs, a, o) \/ \E x \in References(q, o) : e = <<n, x>>
  <2>1. CASE \E f \in DOMAIN gs : \E x \in References(gs[f], o) : e = <<f, x>>
    <3>1. PICK f \in DOMAIN gs : \E x \in References(gs[f], o) : e = <<f, x>>
      BY <2>1
    <3>2. f = n \/ (f \in DOMAIN fs /\ gs[f] = fs[f])
      BY <1>1
    <3> QED
      BY <1>1, <3>1, <3>2, OwnerIn
  <2>2. CASE a = o /\ (e = <<0, <<"exception", 1>>>> \/ e = <<0, <<"exception", 2>>>>)
    BY <2>2, OwnerIn
  <2> QED
    BY <1>2, <2>1, <2>2, OwnerIn
<1>3. ASSUME e \in OwnersIn(fs, a, o)
      PROVE  e \in OwnersIn(gs, a, o) \/ \E x \in References(fs[n], o) : e = <<n, x>>
  <2>1. CASE \E f \in DOMAIN fs : \E x \in References(fs[f], o) : e = <<f, x>>
    <3>1. PICK f \in DOMAIN fs : \E x \in References(fs[f], o) : e = <<f, x>>
      BY <2>1
    <3>2. f = n \/ (f \in DOMAIN gs /\ gs[f] = fs[f])
      BY <1>1
    <3> QED
      BY <1>1, <3>1, <3>2, OwnerIn
  <2>2. CASE a = o /\ (e = <<0, <<"exception", 1>>>> \/ e = <<0, <<"exception", 2>>>>)
    BY <2>2, OwnerIn
  <2> QED
    BY <1>3, <2>1, <2>2, OwnerIn
<1>4. \A x : <<n, x>> \in OwnersIn(gs, a, o) <=> x \in References(q, o)
  BY <1>1, OwnerIn
<1>5. \A x : <<n, x>> \in OwnersIn(fs, a, o) <=> x \in References(fs[n], o)
  BY <1>1, OwnerIn
<1> QED
  BY <1>2, <1>3, <1>4, <1>5

LEMMA CountLess ==
  ASSUME NEW fs, NEW gs, NEW n, NEW q, Replaced(fs, gs, n, q), NEW a, NEW o, NEW k,
         Covers(k, OwnersIn(fs, a, o)),
         References(q, o) \subseteq References(fs[n], o),
         Habits = {} => References(fs[n], o) \subseteq References(q, o)
  PROVE  Covers(k, OwnersIn(gs, a, o))
<1>1. OwnersIn(gs, a, o) \subseteq OwnersIn(fs, a, o)
  BY OwnersReplaced
<1>2. Habits = {} => OwnersIn(fs, a, o) \subseteq OwnersIn(gs, a, o)
  BY OwnersReplaced
<1> QED
  BY <1>1, <1>2, CoverLess

LEMMA CountMore ==
  ASSUME NEW fs, NEW gs, NEW n, NEW q, Replaced(fs, gs, n, q), NEW a, NEW o, NEW k,
         Covers(k, OwnersIn(fs, a, o)), NEW x, x \notin References(fs[n], o),
         References(q, o) = References(fs[n], o) \cup {x}
  PROVE  Covers(k + 1, OwnersIn(gs, a, o))
<1>1. <<n, x>> \notin OwnersIn(fs, a, o)
  BY OwnersReplaced
<1>2. OwnersIn(gs, a, o) \subseteq OwnersIn(fs, a, o) \cup {<<n, x>>}
  BY OwnersReplaced
<1>3. OwnersIn(fs, a, o) \cup {<<n, x>>} \subseteq OwnersIn(gs, a, o)
  BY OwnersReplaced
<1> QED
  BY <1>1, <1>2, <1>3, CoverMore

LEMMA CountTake ==
  ASSUME NEW fs, NEW gs, NEW n, NEW q, Replaced(fs, gs, n, q), NEW a, NEW o, NEW k,
         Covers(k, OwnersIn(fs, a, o)), NEW x \in References(fs[n], o),
         References(q, o) = References(fs[n], o) \ {x}
  PROVE  k \in Nat /\ k > 0 /\ k - 1 \in Nat /\ Covers(k - 1, OwnersIn(gs, a, o))
<1>1. <<n, x>> \in OwnersIn(fs, a, o)
  BY OwnersReplaced
<1>2. OwnersIn(gs, a, o) \subseteq OwnersIn(fs, a, o) \ {<<n, x>>}
  <2> SUFFICES ASSUME NEW e \in OwnersIn(gs, a, o) PROVE e \in OwnersIn(fs, a, o) /\ e # <<n, x>>
    OBVIOUS
  <2>1. e # <<n, x>>
    BY OwnersReplaced
  <2>2. e \in OwnersIn(fs, a, o)
    BY OwnersReplaced
  <2> QED
    BY <2>1, <2>2
<1>3. OwnersIn(fs, a, o) \ {<<n, x>>} \subseteq OwnersIn(gs, a, o)
  <2> SUFFICES ASSUME NEW e \in OwnersIn(fs, a, o), e # <<n, x>> PROVE e \in OwnersIn(gs, a, o)
    OBVIOUS
  <2> QED
    BY OwnersReplaced
<1> QED
  BY <1>1, <1>2, <1>3, CoverTake


LEMMA CountPushed ==
  ASSUME NEW fs, NEW gs, NEW n, NEW q, Pushes(fs, gs, n, q), NEW a, NEW o
  PROVE  /\ References(q, o) = {} => OwnersIn(gs, a, o) = OwnersIn(fs, a, o)
         /\ \A x, k : References(q, o) = {x} /\ Covers(k, OwnersIn(fs, a, o)) =>
              Covers(k + 1, OwnersIn(gs, a, o))
<1>1. /\ DOMAIN fs = 1 .. n /\ DOMAIN gs = 1 .. n + 1 /\ gs[n + 1] = q /\ n \in Nat
      /\ \A f \in 1 .. n : gs[f] = fs[f] /\ f # n + 1 /\ f \in 1 .. n + 1
      /\ \A f \in 1 .. n + 1 : f # n + 1 => f \in 1 .. n
  BY DEF Pushes
<1>2. n + 1 \in DOMAIN gs /\ n + 1 \notin DOMAIN fs /\ n + 1 # 0
  BY <1>1
<1>3. ASSUME NEW e
      PROVE  e \in OwnersIn(gs, a, o) <=>
               e \in OwnersIn(fs, a, o) \/ \E x \in References(q, o) : e = <<n + 1, x>>
  <2>1. ASSUME NEW f \in DOMAIN gs, NEW x \in References(gs[f], o), e = <<f, x>>
        PROVE  e \in OwnersIn(fs, a, o) \/ \E y \in References(q, o) : e = <<n + 1, y>>
    <3>1. CASE f = n + 1
      BY <1>1, <2>1, <3>1
    <3>2. CASE f # n + 1
      <4>1. f \in DOMAIN fs /\ gs[f] = fs[f]
        BY <1>1, <3>2
      <4> QED
        BY <2>1, <4>1, OwnerIn
    <3> QED
      BY <3>1, <3>2
  <2>2. ASSUME NEW f \in DOMAIN fs, NEW x \in References(fs[f], o), e = <<f, x>>
        PROVE  e \in OwnersIn(gs, a, o)
    <3>1. f \in DOMAIN gs /\ gs[f] = fs[f]
      BY <1>1
    <3> QED
      BY <2>2, <3>1, OwnerIn
  <2>3. ASSUME NEW x \in References(q, o), e = <<n + 1, x>>
        PROVE  e \in OwnersIn(gs, a, o)
    BY <1>1, <1>2, <2>3, OwnerIn
  <2>4. a = o /\ (e = <<0, <<"exception", 1>>>> \/ e = <<0, <<"exception", 2>>>>) =>
          e \in OwnersIn(fs, a, o) /\ e \in OwnersIn(gs, a, o)
    BY OwnerIn
  <2>5. e \in OwnersIn(gs, a, o) =>
          e \in OwnersIn(fs, a, o) \/ \E x \in References(q, o) : e = <<n + 1, x>>
    BY <2>1, <2>4, OwnerIn
  <2>6. e \in OwnersIn(fs, a, o) => e \in OwnersIn(gs, a, o)
    BY <2>2, <2>4, OwnerIn
  <2> QED
    BY <2>3, <2>5, <2>6
<1>4. \A x : <<n + 1, x>> \notin OwnersIn(fs, a, o)
  BY <1>2, OwnerIn
<1>5. References(q, o) = {} => OwnersIn(gs, a, o) = OwnersIn(fs, a, o)
  BY <1>3
<1>6. ASSUME NEW x, NEW k, References(q, o) = {x}, Covers(k, OwnersIn(fs, a, o))
      PROVE  Covers(k + 1, OwnersIn(gs, a, o))
  <2>1. OwnersIn(gs, a, o) = OwnersIn(fs, a, o) \cup {<<n + 1, x>>}
    <3>1. \A e : e \in OwnersIn(gs, a, o) <=> e \in OwnersIn(fs, a, o) \/ e = <<n + 1, x>>
      BY <1>3, <1>6
    <3> QED
      BY <3>1
  <2> QED
    BY <1>4, <1>6, <2>1, CoverMore
<1> QED
  BY <1>5, <1>6

LEMMA CountPopped ==
  ASSUME NEW fs, NEW gs, NEW m, Pops(fs, gs, m), NEW a, NEW o, NEW k, Covers(k, OwnersIn(fs, a, o))
  PROVE  /\ (Habits = {} => References(fs[m + 1], o) = {}) => Covers(k, OwnersIn(gs, a, o))
         /\ \A x \in References(fs[m + 1], o) :
              (Habits = {} => References(fs[m + 1], o) = {x}) =>
                k \in Nat /\ k > 0 /\ k - 1 \in Nat /\ Covers(k - 1, OwnersIn(gs, a, o))
<1>1. /\ DOMAIN fs = 1 .. m + 1 /\ DOMAIN gs = 1 .. m /\ m + 1 \in DOMAIN fs /\ m + 1 # 0
      /\ \A f \in 1 .. m : gs[f] = fs[f] /\ f # m + 1 /\ f \in 1 .. m + 1
      /\ \A f \in 1 .. m + 1 : f # m + 1 => f \in 1 .. m
  BY DEF Pops
<1>2. ASSUME NEW e \in OwnersIn(gs, a, o)
      PROVE  e \in OwnersIn(fs, a, o) /\ \A x : e # <<m + 1, x>>
  <2>1. CASE \E f \in DOMAIN gs : \E x \in References(gs[f], o) : e = <<f, x>>
    <3>1. PICK f \in DOMAIN gs : \E x \in References(gs[f], o) : e = <<f, x>>
      BY <2>1
    <3>2. f \in DOMAIN fs /\ gs[f] = fs[f] /\ f # m + 1
      BY <1>1
    <3> QED
      BY <3>1, <3>2, OwnerIn
  <2>2. CASE a = o /\ (e = <<0, <<"exception", 1>>>> \/ e = <<0, <<"exception", 2>>>>)
    BY <1>1, <2>2, OwnerIn
  <2> QED
    BY <2>1, <2>2, OwnerIn
<1>3. ASSUME NEW e \in OwnersIn(fs, a, o), e \notin OwnersIn(gs, a, o)
      PROVE  \E x \in References(fs[m + 1], o) : e = <<m + 1, x>>
  <2>1. CASE \E f \in DOMAIN fs : \E x \in References(fs[f], o) : e = <<f, x>>
    <3>1. PICK f \in DOMAIN fs : \E x \in References(fs[f], o) : e = <<f, x>>
      BY <2>1
    <3>2. f = m + 1 \/ (f \in DOMAIN gs /\ gs[f] = fs[f])
      BY <1>1
    <3> QED
      BY <1>3, <3>1, <3>2, OwnerIn
  <2>2. CASE a = o /\ (e = <<0, <<"exception", 1>>>> \/ e = <<0, <<"exception", 2>>>>)
    BY <1>3, <2>2, OwnerIn
  <2> QED
    BY <2>1, <2>2, OwnerIn
<1>4. ASSUME Habits = {} => References(fs[m + 1], o) = {}
      PROVE  Covers(k, OwnersIn(gs, a, o))
  <2>1. OwnersIn(gs, a, o) \subseteq OwnersIn(fs, a, o)
    BY <1>2
  <2>2. Habits = {} => OwnersIn(gs, a, o) = OwnersIn(fs, a, o)
    BY <1>3, <1>4, <2>1
  <2> QED
    BY <2>1, <2>2, CoverLess
<1>5. ASSUME NEW x \in References(fs[m + 1], o), Habits = {} => References(fs[m + 1], o) = {x}
      PROVE  k \in Nat /\ k > 0 /\ k - 1 \in Nat /\ Covers(k - 1, OwnersIn(gs, a, o))
  <2>1. <<m + 1, x>> \in OwnersIn(fs, a, o)
    BY <1>1, OwnerIn
  <2>2. OwnersIn(gs, a, o) \subseteq OwnersIn(fs, a, o) \ {<<m + 1, x>>}
    BY <1>2
  <2>3. ASSUME Habits = {}, NEW e \in OwnersIn(fs, a, o), e # <<m + 1, x>>
        PROVE  e \in OwnersIn(gs, a, o)
    BY <1>3, <1>5, <2>3
  <2>4. Habits = {} => OwnersIn(gs, a, o) = OwnersIn(fs, a, o) \ {<<m + 1, x>>}
    BY <2>2, <2>3
  <2> QED
    BY <2>1, <2>2, <2>4, CoverTake
<1> QED
  BY <1>4, <1>5

(* The exception in flight. *)
LEMMA CountOther ==
  ASSUME NEW fs, NEW a, NEW b, NEW o, a # o, b # o
  PROVE  OwnersIn(fs, b, o) = OwnersIn(fs, a, o)
BY DEF OwnersIn

LEMMA Exceptions ==
  ASSUME NEW fs, 0 \notin DOMAIN fs, NEW o, Null # o, NEW e1, NEW e2,
         e1 = <<0, <<"exception", 1>>>>, e2 = <<0, <<"exception", 2>>>>
  PROVE  /\ e1 # e2 /\ e1 \notin OwnersIn(fs, Null, o) /\ e2 \notin OwnersIn(fs, Null, o)
         /\ e1 \in OwnersIn(fs, o, o) /\ e2 \in OwnersIn(fs, o, o)
         /\ OwnersIn(fs, o, o) = (OwnersIn(fs, Null, o) \cup {e1}) \cup {e2}
         /\ OwnersIn(fs, Null, o) = (OwnersIn(fs, o, o) \ {e1}) \ {e2}
<1>1. e1 # e2
  OBVIOUS
<1>2. e1 \notin OwnersIn(fs, Null, o) /\ e2 \notin OwnersIn(fs, Null, o)
  BY OwnerIn
<1>3. \A e : e \in OwnersIn(fs, o, o) <=> e \in OwnersIn(fs, Null, o) \/ e = e1 \/ e = e2
  BY OwnerIn
<1> QED
  BY <1>1, <1>2, <1>3

LEMMA CountThrown ==
  ASSUME NEW fs, 0 \notin DOMAIN fs, NEW o, Null # o, NEW k, Covers(k, OwnersIn(fs, Null, o))
  PROVE  Covers(k + 2, OwnersIn(fs, o, o))
<1>1. PICK e1, e2 : e1 = <<0, <<"exception", 1>>>> /\ e2 = <<0, <<"exception", 2>>>>
  OBVIOUS
<1>2. /\ e1 # e2 /\ e1 \notin OwnersIn(fs, Null, o) /\ e2 \notin OwnersIn(fs, Null, o)
      /\ OwnersIn(fs, o, o) = (OwnersIn(fs, Null, o) \cup {e1}) \cup {e2}
  BY <1>1, Exceptions
<1>3. PICK S, T : S = OwnersIn(fs, Null, o) /\ T = S \cup {e1}
  OBVIOUS
<1>4. Covers(k, S) /\ e1 \notin S /\ e2 \notin T /\ OwnersIn(fs, o, o) = T \cup {e2} /\ k \in Nat
  BY <1>2, <1>3 DEF Covers
<1>5. Covers(k + 1, T)
  BY <1>3, <1>4, CoverMore
<1>6. Covers((k + 1) + 1, OwnersIn(fs, o, o)) /\ (k + 1) + 1 = k + 2
  BY <1>4, <1>5, CoverMore
<1> QED
  BY <1>6

LEMMA CountCaught ==
  ASSUME NEW fs, 0 \notin DOMAIN fs, NEW o, Null # o, NEW k, Covers(k, OwnersIn(fs, o, o))
  PROVE  k \in Nat /\ k > 1 /\ k - 2 \in Nat /\ Covers(k - 2, OwnersIn(fs, Null, o))
<1>1. PICK e1, e2 : e1 = <<0, <<"exception", 1>>>> /\ e2 = <<0, <<"exception", 2>>>>
  OBVIOUS
<1>2. /\ e1 # e2 /\ e1 \in OwnersIn(fs, o, o) /\ e2 \in OwnersIn(fs, o, o)
      /\ OwnersIn(fs, Null, o) = (OwnersIn(fs, o, o) \ {e1}) \ {e2}
  BY <1>1, Exceptions
<1>3. PICK S, T : S = OwnersIn(fs, o, o) /\ T = S \ {e1}
  OBVIOUS
<1>4. Covers(k, S) /\ e1 \in S /\ e2 \in T /\ OwnersIn(fs, Null, o) = T \ {e2}
  BY <1>2, <1>3
<1>5. k \in Nat /\ k - 1 \in Nat /\ Covers(k - 1, T)
  BY <1>3, <1>4, CoverTake
<1>6. k - 1 > 0 /\ (k - 1) - 1 \in Nat /\ Covers((k - 1) - 1, OwnersIn(fs, Null, o)) /\ (k - 1) - 1 = k - 2
  BY <1>4, <1>5, CoverTake
<1> QED
  BY <1>5, <1>6


(* The whole state, and the same state after a step that changes nothing but
   the frames, the statements, the exception and the counts. *)
StateOK(fs, rs, a, count) ==
  /\ FramesOK(fs, rs) /\ Waits(fs)
  /\ Flying(fs, a) /\ Shelter(fs)
  /\ Statements(fs, rs)
  /\ Counted(fs, a, count)

LEMMA SameHabits ==
  ASSUME program' = program, NEW fs, NEW rs, NEW a, NEW count
  PROVE  /\ FramesOK(fs, rs)' <=> FramesOK(fs, rs)
         /\ Waits(fs)' <=> Waits(fs)
         /\ Flying(fs, a)' <=> Flying(fs, a)
         /\ Shelter(fs)' <=> Shelter(fs)
         /\ Statements(fs, rs)' <=> Statements(fs, rs)
         /\ Counted(fs, a, count)' <=> Counted(fs, a, count)
<1>1. Habits' = Habits
  BY DEF Habits
<1>2. ASSUME NEW s, NEW i, NEW c
      PROVE  LevelOK(s, i, c, rs)' <=> LevelOK(s, i, c, rs)
  <2>1. LoopCode(s, i, c)' <=> LoopCode(s, i, c)
    BY <1>1 DEF LoopCode
  <2>2. ReturnCode(s, i, c, rs)' <=> ReturnCode(s, i, c, rs)
    BY <1>1 DEF ReturnCode
  <2> QED
    BY <2>1, <2>2 DEF LevelOK
<1>3. ASSUME NEW s PROVE ScopesOK(s, rs)' <=> ScopesOK(s, rs)
  BY <1>2 DEF ScopesOK
<1>4. ASSUME NEW s, NEW c PROVE Level(s, c, rs)' <=> Level(s, c, rs)
  BY <1>2, <1>3 DEF Level
<1>5. FramesOK(fs, rs)' <=> FramesOK(fs, rs)
  <2>1. ASSUME NEW r PROVE FrameOK(r, rs)' <=> FrameOK(r, rs)
    BY <1>4 DEF FrameOK
  <2> QED
    BY <2>1 DEF FramesOK
<1>6. Waits(fs)' <=> Waits(fs)
  OBVIOUS
<1>7. Flying(fs, a)' <=> Flying(fs, a)
  OBVIOUS
<1>8. Shelter(fs)' <=> Shelter(fs)
  <2>1. ASSUME NEW f, NEW i PROVE BarrierAt(fs, f, i)' <=> BarrierAt(fs, f, i)
    BY <1>1 DEF BarrierAt, Barrier
  <2>2. ASSUME NEW f, NEW i PROVE Sheltered(fs, f, i)' <=> Sheltered(fs, f, i)
    BY <2>1 DEF Sheltered
  <2> QED
    BY <2>2 DEF Shelter
<1>9. Statements(fs, rs)' <=> Statements(fs, rs)
  BY <1>1 DEF Statements
<1>10. Counted(fs, a, count)' <=> Counted(fs, a, count)
  <2>1. ASSUME NEW n, NEW S PROVE Covers(n, S)' <=> Covers(n, S)
    BY <1>1 DEF Covers
  <2> QED
    BY <2>1 DEF Counted
<1> QED
  BY <1>5, <1>6, <1>7, <1>8, <1>9, <1>10


(* A program that runs: frame r is the last of the n frames fs. *)
Running(fs, rs, a, count, n, r) ==
  /\ StateOK(fs, rs, a, count)
  /\ fs # <<>> /\ n = Len(fs) /\ r = fs[n]
  /\ rs \in [Try -> Nat] /\ a \in Obj \cup {Null} /\ count \in [Obj -> Nat]

LEMMA RunningType ==
  ASSUME NEW fs, NEW rs, NEW a, NEW count, NEW n, NEW r, Running(fs, rs, a, count, n, r)
  PROVE  /\ fs \in Seq(FrameRecords) /\ n \in Nat \ {0} /\ n \in Nat /\ n \in DOMAIN fs /\ DOMAIN fs = 1 .. n
         /\ 0 \notin DOMAIN fs
         /\ r \in FrameRecords /\ r.scopes \in Scopings /\ r.todo \in Code
         /\ (r.operand \in Obj \/ r.operand = Null)
         /\ Level(r.scopes, r.todo, rs)
         /\ r.obj # Null => r.how = "destructor"
         /\ Below(fs) /\ Runs(r) /\ r = fs[n] /\ n = Len(fs) /\ fs # <<>>
         /\ FramesOK(fs, rs) /\ Flying(fs, a) /\ Shelter(fs) /\ Statements(fs, rs) /\ Counted(fs, a, count)
<1>1. /\ FramesOK(fs, rs) /\ Waits(fs) /\ Flying(fs, a) /\ Shelter(fs) /\ Statements(fs, rs)
      /\ Counted(fs, a, count) /\ fs # <<>> /\ n = Len(fs) /\ r = fs[n]
  BY DEF Running, StateOK
<1>2. fs \in Seq(FrameRecords)
  BY <1>1 DEF FramesOK
<1>3. n \in Nat \ {0} /\ n \in DOMAIN fs /\ DOMAIN fs = 1 .. n /\ r \in FrameRecords
  BY <1>1, <1>2, FramesType
<1>4. FrameOK(r, rs)
  BY <1>1, <1>3 DEF FramesOK
<1>5. Below(fs) /\ Runs(r)
  BY <1>1, <1>2, WaitsBelow
<1>6. r.operand \in Obj \cup {Null} /\ r.todo \in Code /\ r.scopes \in Scopings
  BY <1>3, FrameFields
<1> QED
  BY <1>1, <1>2, <1>3, <1>4, <1>5, <1>6 DEF FrameOK

LEMMA RunningOpen ==
  ASSUME NEW fs, NEW rs, NEW a, NEW count, NEW n, NEW r, Running(fs, rs, a, count, n, r),
         NEW s, s = r.scopes
  PROVE  /\ \A j, l \in DOMAIN s : HasFinally(s[j]) /\ HasFinally(s[l]) /\ s[j].of = s[l].of => j = l
         /\ \A f \in DOMAIN fs : f # n =>
              \A j \in DOMAIN fs[f].scopes : HasFinally(fs[f].scopes[j]) =>
                /\ fs[f].scopes[j].of \in Try
                /\ \A l \in DOMAIN s : HasFinally(s[l]) => s[l].of # fs[f].scopes[j].of
         /\ \A l \in DOMAIN s : HasFinally(s[l]) => s[l].of \in Try
<1>1. /\ FramesOK(fs, rs) /\ Statements(fs, rs) /\ n \in DOMAIN fs /\ r = fs[n]
  BY RunningType
<1>2. \A f \in DOMAIN fs : \A j \in DOMAIN fs[f].scopes : HasFinally(fs[f].scopes[j]) =>
        OpenAt(fs, f, j) /\ f \in Nat /\ j \in Nat /\ fs[f].scopes[j].of \in Try
  BY <1>1, PlaceOf DEF OpenAt, Place
<1>3. \A f, i, g, j \in Nat : OpenAt(fs, f, i) /\ OpenAt(fs, g, j) /\ fs[f].scopes[i].of = fs[g].scopes[j].of =>
        f = g /\ i = j
  BY <1>1 DEF Statements
<1>4. s = fs[n].scopes
  BY <1>1
<1> QED
  BY <1>1, <1>2, <1>3, <1>4

(* The last frame with other blocks, code and operand. *)
LEMMA RunningReplaced ==
  ASSUME NEW fs, NEW rs, NEW a, NEW count, NEW n, NEW r, Running(fs, rs, a, count, n, r),
         NEW z, NEW c, NEW o, NEW q, Framed(q, r, z, c, o),
         NEW gs, gs = [fs EXCEPT ![n] = q]
  PROVE  /\ Replaced(fs, gs, n, q) /\ fs[n] = r
         /\ gs \in Seq(FrameRecords) /\ gs # <<>> /\ Len(gs) = n /\ gs[n] = q
<1>1. fs \in Seq(FrameRecords) /\ n = Len(fs) /\ r = fs[n] /\ r \in FrameRecords /\ fs # <<>>
  BY RunningType
<1>2. q \in FrameRecords /\ q.how = r.how /\ q.obj = r.obj /\ q.operand = o /\ q.todo = c /\ q.scopes = z
  BY DEF Framed
<1>3. Replaced(fs, gs, n, q)
  BY <1>1, <1>2, ReplaceFrame
<1> QED
  BY <1>1, <1>2, <1>3 DEF Replaced

(* A step that releases nothing. *)
QuietScopes(s, z, rs, rz) ==
  /\ StatementScopes(s, z, rs, rz)
  /\ \A o \in Obj : ScopesLess(z, s, o) /\ (Habits = {} => ScopesLess(s, z, o))

LEMMA QuietStep ==
  ASSUME NEW fs, NEW rs, NEW a, NEW count, NEW n, NEW r, Running(fs, rs, a, count, n, r),
         NEW rz, OthersRun(fs, n, rs, rz),
         NEW z, NEW c, Level(z, c, rz), QuietScopes(r.scopes, z, rs, rz),
         r.operand # Null => c = <<DropOperand>>,
         NEW q, Framed(q, r, z, c, r.operand),
         NEW gs, gs = [fs EXCEPT ![n] = q],
         Replaced(fs, gs, n, q) => Flying(gs, a) /\ Shelter(gs)
  PROVE  StateOK(gs, rz, a, count)
<1>1. /\ FramesOK(fs, rs) /\ Statements(fs, rs) /\ Counted(fs, a, count) /\ Below(fs) /\ r = fs[n]
  BY RunningType
<1>2. q.obj = r.obj /\ q.operand = r.operand /\ q.todo = c /\ q.scopes = z
  BY DEF Framed
<1>3. /\ Replaced(fs, gs, n, q)
      /\ gs \in Seq(FrameRecords) /\ gs # <<>> /\ Len(gs) = n /\ gs[n] = q
  <2> PICK o : o = r.operand
    OBVIOUS
  <2>1. Framed(q, r, z, c, o)
    OBVIOUS
  <2>2. Replaced(fs, gs, n, q)
    BY <2>1, RunningReplaced
  <2> QED
    BY <2>2 DEF Replaced
<1>4. FramesOK(gs, rz)
  <2>1. Level(q.scopes, q.todo, rz)
    BY <1>2
  <2> QED
    BY <1>1, <1>3, <2>1, FramesReplaced
<1>5. Waits(gs)
  <2>1. Runs(q)
    BY <1>2 DEF Runs
  <2>2. Below(gs)
    BY <1>1, <1>3, BelowReplaced
  <2> QED
    BY <1>3, <2>1, <2>2, WaitsBelow
<1>6. Statements(gs, rz)
  <2>1. StatementScopes(fs[n].scopes, q.scopes, rs, rz)
    BY <1>1, <1>2 DEF QuietScopes
  <2> QED
    BY <1>1, <1>3, <2>1, StatementsReplaced
<1>7. Counted(gs, a, count)
  <2> SUFFICES ASSUME NEW o \in Obj PROVE Covers(count[o], OwnersIn(gs, a, o))
    BY DEF Counted
  <2>1. Covers(count[o], OwnersIn(fs, a, o))
    BY <1>1 DEF Counted
  <2>2. ScopesLess(q.scopes, r.scopes, o) /\ (Habits = {} => ScopesLess(r.scopes, q.scopes, o))
    BY <1>2 DEF QuietScopes
  <2>3. References(q, o) \subseteq References(fs[n], o)
    BY <1>1, <1>2, <2>2, ReferencesLess
  <2>4. Habits = {} => References(fs[n], o) \subseteq References(q, o)
    BY <1>1, <1>2, <2>2, ReferencesLess
  <2> QED
    BY <1>3, <2>1, <2>3, <2>4, CountLess
<1> QED
  BY <1>3, <1>4, <1>5, <1>6, <1>7 DEF StateOK


LEMMA SameOthers ==
  ASSUME NEW fs, NEW n, NEW rs
  PROVE  OthersRun(fs, n, rs, rs)
BY DEF OthersRun

FinallyRan(fs, n, rs, rz, t) ==
  /\ OthersRun(fs, n, rs, rz) /\ t \in Try /\ rz[t] = 1
  /\ \A u \in Try : rz[u] = rs[u] \/ rz[u] = 1
LEMMA FinallyOthers ==
  ASSUME NEW fs, NEW rs, NEW a, NEW count, NEW n, NEW r, Running(fs, rs, a, count, n, r),
         NEW k, k \in DOMAIN r.scopes, HasFinally(r.scopes[k]), NEW t, t = r.scopes[k].of,
         NEW rz, rz = [rs EXCEPT ![t] = 1]
  PROVE  FinallyRan(fs, n, rs, rz, t)
<1>1. PICK s : s = r.scopes
  OBVIOUS
<1>2. /\ \A f \in DOMAIN fs : f # n =>
              \A j \in DOMAIN fs[f].scopes : HasFinally(fs[f].scopes[j]) =>
                /\ fs[f].scopes[j].of \in Try
                /\ \A l \in DOMAIN s : HasFinally(s[l]) => s[l].of # fs[f].scopes[j].of
      /\ \A l \in DOMAIN s : HasFinally(s[l]) => s[l].of \in Try
  BY <1>1, RunningOpen
<1>3. t \in Try /\ rs \in [Try -> Nat]
  BY <1>1, <1>2 DEF Running
<1>4. /\ rz[t] = 1 /\ \A u \in Try : rz[u] = rs[u] \/ rz[u] = 1
      /\ \A u \in Try : u # t => rz[u] = rs[u]
  BY <1>3
<1>5. OthersRun(fs, n, rs, rz)
  BY <1>1, <1>2, <1>4 DEF OthersRun
<1> QED
  BY <1>3, <1>4, <1>5 DEF FinallyRan

(* Blocks that are not left. *)
SameBlocks(s, z) ==
  /\ DOMAIN z = DOMAIN s
  /\ \A i \in DOMAIN s : /\ z[i].kind = s[i].kind /\ z[i].of = s[i].of /\ z[i].after = s[i].after
                         /\ z[i].exc # Null => s[i].exc # Null

LEMMA SameStatements ==
  ASSUME NEW s, NEW z, SameBlocks(s, z), NEW rs
  PROVE  StatementScopes(s, z, rs, rs) /\ \A i \in Nat : PrefixAlike(s, z, i)
<1>1. \A i \in DOMAIN s : /\ HasFinally(z[i]) <=> HasFinally(s[i])
                          /\ Returning(z[i]) <=> Returning(s[i])
  BY DEF SameBlocks, HasFinally, Returning
<1>2. StatementScopes(s, z, rs, rs)
  BY <1>1 DEF SameBlocks, StatementScopes, SameOpen, SameRun
<1>3. \A i \in Nat : PrefixAlike(s, z, i)
  BY <1>1 DEF SameBlocks, PrefixAlike
<1> QED
  BY <1>2, <1>3

LEMMA NothingMoved ==
  ASSUME NEW s, NEW rs
  PROVE  QuietScopes(s, s, rs, rs) /\ SameBlocks(s, s) /\ \A i \in Nat : PrefixAlike(s, s, i)
<1>1. SameBlocks(s, s)
  BY DEF SameBlocks
<1>2. \A o \in Obj : ScopesLess(s, s, o)
  BY DEF ScopesLess
<1> QED
  BY <1>1, <1>2, SameStatements DEF QuietScopes

(* Code is prepared that leaves blocks: the closing brace, return, break and
   continue. *)
LEMMA CodeStep ==
  ASSUME NEW fs, NEW rs, NEW a, NEW count, NEW n, NEW r, Running(fs, rs, a, count, n, r),
         r.operand = Null, r.todo = <<>>,
         NEW c, Level(r.scopes, c, rs), ~EndsIn(c, {"unwind"}),
         NEW q, Framed(q, r, r.scopes, c, r.operand),
         NEW gs, gs = [fs EXCEPT ![n] = q]
  PROVE  StateOK(gs, rs, a, count)
<1>1. PICK s : s = r.scopes
  OBVIOUS
<1>2. QuietScopes(s, s, rs, rs) /\ \A i \in Nat : PrefixAlike(s, s, i)
  BY NothingMoved
<1>3. q.todo = c /\ q.scopes = s
  BY <1>1 DEF Framed
<1>4. ASSUME Replaced(fs, gs, n, q)
      PROVE  Flying(gs, a) /\ Shelter(gs)
  <2>1. Flying(fs, a) /\ Shelter(fs) /\ fs[n] = r
    BY RunningType
  <2>2. \A i \in Nat : UnwindsIn(q, i) => UnwindsIn(fs[n], i) /\ PrefixAlike(fs[n].scopes, q.scopes, i)
    BY <1>1, <1>2, <1>3, <2>1 DEF UnwindsIn
  <2> QED
    BY <1>4, <2>1, <2>2, ReplacedShelter
<1>5. OthersRun(fs, n, rs, rs)
  BY SameOthers
<1>6. QuietScopes(r.scopes, s, rs, rs) /\ Level(s, c, rs) /\ Framed(q, r, s, c, r.operand)
  BY <1>1, <1>2
<1>7. r.operand # Null => c = <<DropOperand>>
  OBVIOUS
<1> QED
  BY <1>4, <1>5, <1>6, <1>7, QuietStep


-----------------------------------------------------------------------------
(* Programs without the habits that break the invariant. *)
Keeps == /\ "late" \notin Habits /\ "local" \notin Habits
         /\ "overlap" \notin Habits /\ "finally" \notin Habits

LEMMA RunningNow ==
  ASSUME IInv, ended = "no", NEW n, n = Len(frames), NEW r, r = Top
  PROVE  Running(frames, runs, active_exception, ref_count, n, r)
BY DEF IInv, Types, Running, StateOK, Top

LEMMA Resumed ==
  ASSUME IInv, program' = program, ended' = "no",
         NEW gs, NEW rz, NEW b, NEW count, StateOK(gs, rz, b, count),
         frames' = gs, runs' = rz, active_exception' = b, ref_count' = count,
         gs # <<>>, rz \in [Try -> Nat], b \in Obj \cup {Null}, count \in [Obj -> Nat]
  PROVE  IInv'
<1>1. /\ FramesOK(gs, rz)' /\ Waits(gs)' /\ Flying(gs, b)' /\ Shelter(gs)' /\ Statements(gs, rz)'
      /\ Counted(gs, b, count)'
  BY SameHabits DEF StateOK
<1>2. /\ FramesOK(frames, runs)' /\ Waits(frames)' /\ Flying(frames, active_exception)' /\ Shelter(frames)'
      /\ Statements(frames, runs)' /\ Counted(frames, active_exception, ref_count)'
  BY <1>1
<1>3. Types'
  BY DEF IInv, Types
<1> QED
  BY <1>2, <1>3 DEF IInv

(* At a statement. *)
LEMMA AtReady ==
  ASSUME IInv, Ready, NEW n, n = Len(frames), NEW r, r = Top
  PROVE  /\ Running(frames, runs, active_exception, ref_count, n, r)
         /\ r.todo = <<>> /\ r.operand = Null /\ ended = "no"
         /\ Level(r.scopes, <<>>, runs) /\ Scopes = r.scopes /\ Inner = Len(r.scopes)
         /\ runs \in [Try -> Nat] /\ active_exception \in Obj \cup {Null} /\ ref_count \in [Obj -> Nat]
<1>1. Running(frames, runs, active_exception, ref_count, n, r) /\ ended = "no" /\ r.todo = <<>>
  BY RunningNow DEF Ready
<1>2. Runs(r) /\ Level(r.scopes, r.todo, runs)
  BY <1>1, RunningType
<1>3. r.operand = Null
  <2>1. <<>> # <<DropOperand>>
    OBVIOUS
  <2> QED
    BY <1>1, <1>2, <2>1 DEF Runs
<1>4. Scopes = r.scopes /\ Inner = Len(r.scopes)
  BY DEF Scopes, Inner
<1> QED
  BY <1>1, <1>2, <1>3, <1>4 DEF Running

LEMMA NotLate ==
  ASSUME ~Late, NEW s, s = Scopes
  PROVE  \A j \in DOMAIN s : s[j].declared \/ s[j].slot = Null
BY DEF Late

(* A step that prepares code. *)
LEMMA Prepared ==
  ASSUME IInv, Ready, NEW c, Level(Scopes, c, runs), ~EndsIn(c, {"unwind"}), frames' = In(Scopes, c),
         UNCHANGED <<program, ref_count, active_exception, runs, ended>>
  PROVE  IInv'
<1>1. PICK n, r, s : n = Len(frames) /\ r = Top /\ s = Scopes
  OBVIOUS
<1>2. /\ Running(frames, runs, active_exception, ref_count, n, r)
      /\ r.todo = <<>> /\ r.operand = Null /\ ended = "no" /\ s = r.scopes
      /\ runs \in [Try -> Nat] /\ active_exception \in Obj \cup {Null} /\ ref_count \in [Obj -> Nat]
  BY <1>1, AtReady
<1>3. PICK q : q = [r EXCEPT !.scopes = s, !.todo = c]
  OBVIOUS
<1>4. Framed(q, r, s, c, r.operand)
  <2>1. r \in FrameRecords /\ s \in Scopings /\ (r.operand \in Obj \/ r.operand = Null)
    BY <1>2, RunningType
  <2>2. c \in Code
    BY DEF Level
  <2> QED
    BY <1>3, <2>1, <2>2, FrameChange
<1>5. PICK gs : gs = [frames EXCEPT ![n] = q]
  OBVIOUS
<1>6. frames' = gs
  BY <1>1, <1>3, <1>5 DEF In, WithTop
<1>7. Framed(q, r, r.scopes, c, r.operand) /\ Level(r.scopes, c, runs)
  BY <1>1, <1>2, <1>4
<1>8. StateOK(gs, runs, active_exception, ref_count)
  BY <1>2, <1>5, <1>7, CodeStep
<1>9. gs # <<>>
  <2>1. Replaced(frames, gs, n, q)
    BY <1>2, <1>4, <1>5, RunningReplaced
  <2> QED
    BY <2>1 DEF Replaced
<1> QED
  BY <1>2, <1>6, <1>8, <1>9, Resumed

LEMMA EndBlockStep ==
  ASSUME IInv, EndBlock
  PROVE  IInv'
<1>1. PICK s, c : s = Scopes /\ c = <<DecRefSlot(Len(s))>> \o (CASE s[Len(s)].kind = "body" -> <<ReturnOp>>
                                                 [] s[Len(s)].kind = "catch" -> <<ReleaseCaught, Leave>>
                                                 [] OTHER -> <<Leave>>)
  OBVIOUS
<1>2. /\ Ready /\ ~Late /\ frames' = In(Scopes, c)
      /\ UNCHANGED <<program, ref_count, active_exception, runs, ended>>
  BY <1>1 DEF EndBlock, Inner
<1>3. Level(s, <<>>, runs) /\ \A j \in DOMAIN s : s[j].declared \/ s[j].slot = Null
  BY <1>1, <1>2, AtReady, NotLate
<1>4. Level(s, c, runs) /\ ~EndsIn(c, {"unwind"})
  BY <1>1, <1>3, EndBlockLevel
<1> QED
  BY <1>1, <1>2, <1>4, Prepared

LEMMA EndDestructorStep ==
  ASSUME IInv, EndDestructor
  PROVE  IInv'
<1>1. PICK s, c : s = Scopes /\ c = <<DecRefSlot(1), CallSuper, ReturnOp>>
  OBVIOUS
<1>2. /\ Ready /\ ~Late /\ frames' = In(Scopes, c) /\ Len(s) = 1
      /\ UNCHANGED <<program, ref_count, active_exception, runs, ended>>
  BY <1>1 DEF EndDestructor, Inner
<1>3. Level(s, <<>>, runs) /\ \A j \in DOMAIN s : s[j].declared \/ s[j].slot = Null
  BY <1>1, <1>2, AtReady, NotLate
<1>4. Level(s, c, runs) /\ ~EndsIn(c, {"unwind"})
  BY <1>1, <1>2, <1>3, EndDestructorLevel
<1> QED
  BY <1>1, <1>2, <1>4, Prepared

LEMMA ReturnStep ==
  ASSUME IInv, Keeps, Return
  PROVE  IInv'
<1>1. PICK c : c = FlattenSeq([k \in 1 .. Inner |-> ExitCode(Inner + 1 - k)]) \o <<ReturnOp>>
  OBVIOUS
<1>2. /\ Ready /\ ~Late /\ frames' = In(Scopes, c)
      /\ \A k \in 1 .. Inner : /\ Scopes[k].kind # "finally"
                               /\ Scopes[k].kind = "catch" => "catch" \in Habits
      /\ UNCHANGED <<program, ref_count, active_exception, runs, ended>>
  BY <1>1 DEF Return, MayExit, MayLeave, Keeps
<1>3. Level(Scopes, <<>>, runs) /\ \A j \in DOMAIN Scopes : Scopes[j].declared \/ Scopes[j].slot = Null
  BY <1>2, AtReady, NotLate
<1>4. Level(Scopes, c, runs) /\ ~EndsIn(c, {"unwind"})
  BY <1>1, <1>2, <1>3, ReturnLeaves
<1> QED
  BY <1>2, <1>4, Prepared

LEMMA BreakOrContinueStep ==
  ASSUME IInv, Keeps, NEW op \in {"break", "continue"}, BreakOrContinue(op)
  PROVE  IInv'
<1>1. PICK j \in Loop :
        /\ MayExit(j)
        /\ (\E i \in j .. Inner : HasFinally(Scopes[i])) => "jump" \in Habits
        /\ frames' = In(Scopes, [k \in 1 .. Inner + 1 - j |-> DecRefSlot(Inner + 1 - k)]
                                \o <<[op |-> op, scope |-> j]>>)
  BY DEF BreakOrContinue
<1>2. PICK s, c : s = Scopes /\ c = [k \in 1 .. Len(s) + 1 - j |-> DecRefSlot(Len(s) + 1 - k)] \o <<[op |-> op, scope |-> j]>>
  OBVIOUS
<1>3. /\ Ready /\ ~Late /\ frames' = In(Scopes, c)
      /\ \A k \in j .. Len(s) : /\ s[k].kind # "finally"
                                /\ s[k].kind = "catch" => "catch" \in Habits
                                /\ HasFinally(s[k]) => "jump" \in Habits
      /\ UNCHANGED <<program, ref_count, active_exception, runs, ended>>
  BY <1>1, <1>2 DEF BreakOrContinue, MayExit, MayLeave, Keeps, Inner
<1>4. j \in DOMAIN s /\ s[j].kind = "loop"
  BY <1>2 DEF Loop
<1>5. Level(s, <<>>, runs) /\ \A k \in DOMAIN s : s[k].declared \/ s[k].slot = Null
  BY <1>2, <1>3, AtReady, NotLate
<1>6. Level(s, c, runs) /\ ~EndsIn(c, {"unwind"})
  BY <1>2, <1>3, <1>4, <1>5, LoopLeaves
<1> QED
  BY <1>2, <1>3, <1>6, Prepared


(* An instruction is executed. *)
LEMMA Executing ==
  ASSUME IInv, NEW op, Executes(op), NEW n, n = Len(frames), NEW r, r = Top
  PROVE  /\ Running(frames, runs, active_exception, ref_count, n, r)
         /\ r.todo # <<>> /\ r.todo[1].op = op /\ ended = "no"
         /\ Next1 = r.todo[1].scope /\ Tail(Top.todo) = Tail(r.todo)
         /\ op # "DEC_REF_OPERAND" => r.operand = Null
         /\ Level(r.scopes, r.todo, runs) /\ Scopes = r.scopes /\ Inner = Len(r.scopes)
         /\ runs \in [Try -> Nat] /\ active_exception \in Obj \cup {Null} /\ ref_count \in [Obj -> Nat]
<1>1. Running(frames, runs, active_exception, ref_count, n, r) /\ ended = "no" /\ r.todo # <<>>
  BY RunningNow DEF Executes
<1>2. Runs(r) /\ Level(r.scopes, r.todo, runs) /\ r.todo \in Code
  BY <1>1, RunningType
<1>3. Head(r.todo) = r.todo[1]
  BY <1>1, <1>2, CodeTail
<1>4. r.todo[1].op = op /\ Next1 = r.todo[1].scope
  BY <1>3 DEF Executes, Next1
<1>5. op # "DEC_REF_OPERAND" => r.operand = Null
  <2>1. <<DropOperand>>[1].op = "DEC_REF_OPERAND"
    BY DEF DropOperand
  <2> QED
    BY <1>2, <1>4, <2>1 DEF Runs
<1>6. Scopes = r.scopes /\ Inner = Len(r.scopes)
  BY DEF Scopes, Inner
<1> QED
  BY <1>1, <1>2, <1>4, <1>5, <1>6 DEF Running

(* What a step does to the last frame. *)
LEMMA Placed ==
  ASSUME IInv, ended = "no", NEW z \in Scopings, NEW c \in Code, NEW gs, gs = In(z, c),
         NEW n, n = Len(frames), NEW r, r = Top
  PROVE  \E q : /\ Framed(q, r, z, c, r.operand) /\ gs = [frames EXCEPT ![n] = q]
                /\ Replaced(frames, gs, n, q)
<1>1. Running(frames, runs, active_exception, ref_count, n, r)
  BY RunningNow
<1>2. r \in FrameRecords /\ (r.operand \in Obj \/ r.operand = Null)
  BY <1>1, RunningType
<1>3. PICK q : q = [r EXCEPT !.scopes = z, !.todo = c]
  OBVIOUS
<1>4. PICK o : o = r.operand
  OBVIOUS
<1>5. Framed(q, r, z, c, o)
  BY <1>2, <1>3, <1>4, FrameChange
<1>6. gs = [frames EXCEPT ![n] = q]
  BY <1>3 DEF In, WithTop
<1>7. Replaced(frames, gs, n, q)
  BY <1>1, <1>5, <1>6, RunningReplaced
<1> QED
  BY <1>4, <1>5, <1>6, <1>7

(* An exception goes on unwinding where it did. *)
StillUnwinds(r, z, c) ==
  \A i \in Nat :
    \/ i = Len(z) + 1 /\ EndsIn(c, {"unwind"})
    \/ i \in DOMAIN z /\ z[i].kind = "finally" /\ EndsIn(z[i].after, {"unwind"})
    => UnwindsIn(r, i) /\ PrefixAlike(r.scopes, z, i)

LEMMA StillShelter ==
  ASSUME NEW fs, NEW a, Flying(fs, a), Shelter(fs), NEW gs, NEW n, NEW q, Replaced(fs, gs, n, q),
         NEW r, r = fs[n], NEW z, NEW c, q.scopes = z, q.todo = c, StillUnwinds(r, z, c)
  PROVE  Flying(gs, a) /\ Shelter(gs)
<1>1. \A i \in Nat : UnwindsIn(q, i) => UnwindsIn(fs[n], i) /\ PrefixAlike(fs[n].scopes, q.scopes, i)
  BY DEF StillUnwinds, UnwindsIn
<1> QED
  BY <1>1, ReplacedShelter

(* The blocks z: the first m of the blocks s and perhaps one more. *)
Cuts(s, z, m, rs, rz) ==
  /\ m \in Nat /\ m <= Len(s) /\ (Len(z) = m \/ Len(z) = m + 1)
  /\ \A j \in 1 .. m :
       /\ z[j].kind = s[j].kind /\ z[j].of = s[j].of /\ z[j].after = s[j].after
       /\ z[j].exc = s[j].exc /\ z[j].owns = s[j].owns /\ z[j].slot = s[j].slot
  /\ Len(z) = m + 1 =>
       /\ ~HasFinally(z[m + 1]) /\ z[m + 1].owns = FALSE /\ z[m + 1].exc = Null
       /\ z[m + 1].kind = "finally" => rz[z[m + 1].of] = 1
  /\ \A j \in m + 1 .. Len(s) :
       /\ s[j].owns = FALSE /\ (s[j].exc # Null => Habits # {})
       /\ HasFinally(s[j]) => rz[s[j].of] = 1 \/ "jump" \in Habits
  /\ \A u \in Try : rz[u] = rs[u] \/ rz[u] = 1

LEMMA CutRange ==
  ASSUME NEW l \in Nat, NEW w \in Nat, NEW m \in Nat, m <= l, w = m \/ w = m + 1
  PROVE  /\ \A i \in 1 .. w : i \in 1 .. m \/ (i = m + 1 /\ w = m + 1)
         /\ \A i \in 1 .. l : i \in 1 .. m \/ i \in m + 1 .. l
         /\ \A i \in 1 .. m : i \in 1 .. l /\ i \in 1 .. w
         /\ \A i \in 1 .. m + 1 : \A k \in Nat : k < i =>
              (k \in 1 .. l <=> k \in 1 .. w) /\ (k \in 1 .. l => k \in 1 .. m)
OBVIOUS

LEMMA CutQuiet ==
  ASSUME NEW s \in Scopings, NEW z \in Scopings, NEW m, NEW rs, NEW rz, Cuts(s, z, m, rs, rz)
  PROVE  QuietScopes(s, z, rs, rz)
<1>a. PICK l, w : l = Len(s) /\ w = Len(z)
  OBVIOUS
<1>b. /\ m \in Nat /\ m <= l /\ (w = m \/ w = m + 1)
      /\ \A j \in 1 .. m :
           /\ z[j].kind = s[j].kind /\ z[j].of = s[j].of /\ z[j].after = s[j].after
           /\ z[j].exc = s[j].exc /\ z[j].owns = s[j].owns /\ z[j].slot = s[j].slot
      /\ w = m + 1 =>
           /\ ~HasFinally(z[m + 1]) /\ z[m + 1].owns = FALSE /\ z[m + 1].exc = Null
           /\ z[m + 1].kind = "finally" => rz[z[m + 1].of] = 1
      /\ \A j \in m + 1 .. l :
           /\ s[j].owns = FALSE /\ (s[j].exc # Null => Habits # {})
           /\ HasFinally(s[j]) => rz[s[j].of] = 1 \/ "jump" \in Habits
      /\ \A u \in Try : rz[u] = rs[u] \/ rz[u] = 1
  BY <1>a DEF Cuts
<1>1. l \in Nat /\ DOMAIN s = 1 .. l /\ w \in Nat /\ DOMAIN z = 1 .. w
  BY <1>a, ScopingType
<1>2. \A i \in 1 .. w : i \in 1 .. m \/ (i = m + 1 /\ w = m + 1)
  BY <1>1, <1>b, CutRange
<1>3. \A i \in 1 .. l : i \in 1 .. m \/ i \in m + 1 .. l
  BY <1>1, <1>b, CutRange
<1>4. \A i \in 1 .. m : i \in 1 .. l /\ i \in 1 .. w /\ (HasFinally(z[i]) <=> HasFinally(s[i]))
  BY <1>1, <1>b, CutRange DEF HasFinally
<1>5. StatementScopes(s, z, rs, rz)
  <2>1. ASSUME NEW i \in DOMAIN z, HasFinally(z[i]) PROVE SameOpen(z, s, i)
    BY <1>b, <1>1, <1>2, <1>4, <2>1 DEF SameOpen
  <2>2. ASSUME NEW i \in DOMAIN z, z[i].kind = "finally" PROVE rz[z[i].of] = 1 \/ SameRun(z, s, i)
    BY <1>b, <1>1, <1>2, <1>4, <2>2 DEF SameRun
  <2>3. ASSUME NEW i \in DOMAIN s, HasFinally(s[i])
        PROVE  SameOpen(s, z, i) \/ rz[s[i].of] = 1 \/ "jump" \in Habits
    BY <1>b, <1>1, <1>3, <1>4, <2>3 DEF SameOpen
  <2> QED
    BY <1>b, <2>1, <2>2, <2>3 DEF StatementScopes
<1>6. ASSUME NEW o \in Obj
      PROVE  ScopesLess(z, s, o) /\ (Habits = {} => ScopesLess(s, z, o))
  <2>1. o # Null
    BY NullAssumption
  <2>2. ASSUME NEW i \in DOMAIN z, Held(z, i, o) PROVE Held(s, i, o)
    BY <1>b, <1>1, <1>2, <1>4, <2>2 DEF Held
  <2>3. ASSUME NEW i \in DOMAIN z, Caught(z, i, o) PROVE Caught(s, i, o)
    BY <1>b, <1>1, <1>2, <1>4, <2>1, <2>3 DEF Caught
  <2>4. ASSUME NEW i \in DOMAIN s, Held(s, i, o) PROVE Held(z, i, o)
    BY <1>b, <1>1, <1>3, <1>4, <2>4 DEF Held
  <2>5. ASSUME Habits = {}, NEW i \in DOMAIN s, Caught(s, i, o) PROVE Caught(z, i, o)
    <3>1. s[i].exc # Null
      BY <2>1, <2>5 DEF Caught
    <3>2. i \in 1 .. m
      BY <1>b, <1>1, <1>3, <2>5, <3>1
    <3> QED
      BY <1>b, <1>1, <1>4, <2>5, <3>2 DEF Caught
  <2> QED
    BY <2>2, <2>3, <2>4, <2>5 DEF ScopesLess
<1> QED
  BY <1>5, <1>6 DEF QuietScopes

LEMMA CutStill ==
  ASSUME NEW r \in FrameRecords, NEW s \in Scopings, s = r.scopes, NEW z \in Scopings,
         NEW m, NEW rs, NEW rz, Cuts(s, z, m, rs, rz), NEW c,
         Len(z) = m + 1 /\ z[m + 1].kind = "finally" => ~EndsIn(z[m + 1].after, {"unwind"}),
         EndsIn(c, {"unwind"}) => Len(z) = m /\ UnwindsIn(r, m + 1)
  PROVE  StillUnwinds(r, z, c)
<1>a. PICK l, w : l = Len(s) /\ w = Len(z)
  OBVIOUS
<1>b. /\ m \in Nat /\ m <= l /\ (w = m \/ w = m + 1)
      /\ \A j \in 1 .. m : /\ z[j].kind = s[j].kind /\ z[j].after = s[j].after /\ z[j].exc = s[j].exc
  BY <1>a DEF Cuts
<1>1. l \in Nat /\ DOMAIN s = 1 .. l /\ w \in Nat /\ DOMAIN z = 1 .. w
  BY <1>a, ScopingType
<1>2. \A i \in 1 .. w : i \in 1 .. m \/ (i = m + 1 /\ w = m + 1)
  BY <1>1, <1>b, CutRange
<1>3. \A i \in 1 .. m : i \in 1 .. l /\ i \in 1 .. w /\ (Returning(z[i]) <=> Returning(s[i]))
  BY <1>1, <1>b, CutRange DEF Returning
<1>4. ASSUME NEW i \in 1 .. m + 1
      PROVE  PrefixAlike(s, z, i)
  <2>1. \A k \in Nat : k < i => (k \in 1 .. l <=> k \in 1 .. w) /\ (k \in 1 .. l => k \in 1 .. m)
    BY <1>1, <1>b, CutRange
  <2> QED
    BY <1>1, <1>b, <1>3, <2>1 DEF PrefixAlike
<1>5. ASSUME NEW i \in Nat, i = Len(z) + 1, EndsIn(c, {"unwind"})
      PROVE  UnwindsIn(r, i) /\ PrefixAlike(s, z, i)
  <2>1. i = m + 1 /\ UnwindsIn(r, m + 1) /\ m + 1 \in 1 .. m + 1
    BY <1>b, <1>5
  <2> QED
    BY <1>4, <2>1
<1>6. ASSUME NEW i \in Nat, i \in DOMAIN z, z[i].kind = "finally", EndsIn(z[i].after, {"unwind"})
      PROVE  UnwindsIn(r, i) /\ PrefixAlike(s, z, i)
  <2>1. i \in 1 .. m
    BY <1>1, <1>2, <1>6, <1>a
  <2>2. s[i].kind = "finally" /\ EndsIn(s[i].after, {"unwind"}) /\ i \in DOMAIN s
    BY <1>1, <1>b, <1>3, <1>6, <2>1
  <2>3. i \in 1 .. m + 1
    BY <1>b, <2>1
  <2> QED
    BY <1>4, <2>2, <2>3 DEF UnwindsIn
<1> QED
  BY <1>5, <1>6 DEF StillUnwinds

(* A step that opens, closes and runs blocks. *)
LEMMA Moved ==
  ASSUME IInv, ended = "no", Top.operand = Null,
         NEW z, NEW c, NEW rz \in [Try -> Nat], Level(z, c, rz), NEW m, Cuts(Scopes, z, m, runs, rz),
         OthersRun(frames, Len(frames), runs, rz),
         NEW gs, gs = In(z, c), Flying(gs, active_exception), Shelter(gs),
         frames' = gs, runs' = rz,
         UNCHANGED <<program, ref_count, active_exception, ended>>
  PROVE  IInv'
<1>1. PICK n, r, s : n = Len(frames) /\ r = Top /\ s = Scopes
  OBVIOUS
<1>2. Running(frames, runs, active_exception, ref_count, n, r)
  BY <1>1, RunningNow
<1>3. z \in Scopings /\ c \in Code
  BY DEF Level
<1>4. PICK q : /\ Framed(q, r, z, c, r.operand) /\ gs = [frames EXCEPT ![n] = q]
               /\ Replaced(frames, gs, n, q)
  BY <1>1, <1>3, Placed
<1>5. s = r.scopes /\ s \in Scopings
  BY <1>1, <1>2, RunningType DEF Scopes
<1>6. QuietScopes(r.scopes, z, runs, rz)
  BY <1>1, <1>3, <1>5, CutQuiet
<1>7. StateOK(gs, rz, active_exception, ref_count)
  <2>1. r.operand # Null => c = <<DropOperand>>
    BY <1>1
  <2>2. OthersRun(frames, n, runs, rz)
    BY <1>1
  <2> QED
    BY <1>2, <1>4, <1>6, <2>1, <2>2, QuietStep
<1>8. gs # <<>>
  BY <1>4 DEF Replaced
<1>9. active_exception \in Obj \cup {Null} /\ ref_count \in [Obj -> Nat]
  BY <1>2 DEF Running
<1> QED
  BY <1>7, <1>8, <1>9, Resumed

LEMMA MovedStill ==
  ASSUME IInv, ended = "no", Top.operand = Null,
         NEW z, NEW c, NEW rz \in [Try -> Nat], Level(z, c, rz), NEW m, Cuts(Scopes, z, m, runs, rz),
         OthersRun(frames, Len(frames), runs, rz), StillUnwinds(Top, z, c),
         frames' = In(z, c), runs' = rz,
         UNCHANGED <<program, ref_count, active_exception, ended>>
  PROVE  IInv'
<1>1. PICK n, r, gs : n = Len(frames) /\ r = Top /\ gs = In(z, c)
  OBVIOUS
<1>2. Running(frames, runs, active_exception, ref_count, n, r)
  BY <1>1, RunningNow
<1>3. z \in Scopings /\ c \in Code
  BY DEF Level
<1>4. PICK q : /\ Framed(q, r, z, c, r.operand) /\ gs = [frames EXCEPT ![n] = q]
               /\ Replaced(frames, gs, n, q)
  BY <1>1, <1>3, Placed
<1>5. Flying(gs, active_exception) /\ Shelter(gs)
  <2>1. r = frames[n] /\ Flying(frames, active_exception) /\ Shelter(frames)
    BY <1>2, RunningType
  <2>2. q.scopes = z /\ q.todo = c
    BY <1>4 DEF Framed
  <2>3. StillUnwinds(r, z, c)
    BY <1>1
  <2> QED
    BY <1>4, <2>1, <2>2, <2>3, StillShelter
<1> QED
  BY <1>1, <1>5, Moved


(* A block that is opened. *)
Opened(x, kind, t, o, e) ==
  /\ x \in ScopeRecords /\ x.kind = kind /\ x.of = t /\ x.exc = o /\ x.after = e
  /\ x.owns = FALSE /\ x.declared = FALSE /\ x.slot = Null

LEMMA NewScope ==
  ASSUME NEW kind \in Kinds, NEW t, t \in Try \/ t = Null, NEW o, o \in Obj \/ o = Null, NEW e \in Code,
         NEW x, x = Scope(kind, t, o, e)
  PROVE  Opened(x, kind, t, o, e)
<1>1. /\ x \in ScopeRecords /\ x.kind = kind /\ x.of = t /\ x.exc = o /\ x.after = e
      /\ x.owns = FALSE /\ x.declared = FALSE /\ x.slot = Null
  BY DEF Scope, ScopeRecords
<1> QED
  BY <1>1 DEF Opened

Leavable(s, m, rz) ==
  \A j \in m + 1 .. Len(s) :
    /\ s[j].owns = FALSE /\ (s[j].exc # Null => Habits # {})
    /\ HasFinally(s[j]) => rz[s[j].of] = 1 \/ "jump" \in Habits

Prefix(s, y, m) == m \in Nat /\ m <= Len(s) /\ Len(y) = m /\ \A j \in 1 .. m : y[j] = s[j]

LEMMA CutsOnly ==
  ASSUME NEW s, NEW y, NEW m, Prefix(s, y, m), NEW rs, NEW rz, Leavable(s, m, rz),
         \A u \in Try : rz[u] = rs[u] \/ rz[u] = 1
  PROVE  Cuts(s, y, m, rs, rz)
<1>1. m \in Nat /\ m # m + 1
  BY DEF Prefix
<1> QED
  BY <1>1 DEF Prefix, Leavable, Cuts

PushesBlock(s, z, m, rs, rz, x) == Cuts(s, z, m, rs, rz) /\ z[m + 1] = x /\ Len(z) = m + 1 /\ z \in Scopings

LEMMA CutsPushed ==
  ASSUME NEW s, NEW y \in Scopings, NEW m, Prefix(s, y, m), NEW rs, NEW rz, Leavable(s, m, rz),
         \A u \in Try : rz[u] = rs[u] \/ rz[u] = 1,
         NEW x, NEW kind, NEW t, NEW e, Opened(x, kind, t, Null, e), ~HasFinally(x),
         kind = "finally" => rz[t] = 1,
         NEW z, z = Append(y, x)
  PROVE  PushesBlock(s, z, m, rs, rz, x)
<1>1. x \in ScopeRecords
  BY DEF Opened
<1>2. /\ Len(z) = m + 1 /\ z[m + 1] = x /\ \A j \in 1 .. m : z[j] = s[j]
      /\ z \in Scopings
  BY <1>1, Pushed DEF Prefix
<1>3. ~HasFinally(x) /\ x.owns = FALSE /\ x.exc = Null /\ (x.kind = "finally" => rz[x.of] = 1)
  BY DEF Opened
<1>4. Cuts(s, z, m, rs, rz)
  BY <1>2, <1>3 DEF Prefix, Leavable, Cuts
<1> QED
  BY <1>2, <1>4 DEF PushesBlock

LEMMA AllKept ==
  ASSUME NEW s \in Scopings, NEW m, m = Len(s), NEW rz
  PROVE  Prefix(s, s, m) /\ Leavable(s, m, rz)
<1>1. m \in Nat
  BY ScopingType
<1>2. \A j \in m + 1 .. m : FALSE
  BY <1>1
<1> QED
  BY <1>1, <1>2 DEF Prefix, Leavable

LEMMA FrontKept ==
  ASSUME NEW s \in Scopings, s # <<>>, NEW m, m = Len(s) - 1, NEW y, y = Front(s)
  PROVE  /\ Prefix(s, y, m) /\ y \in Scopings /\ m + 1 = Len(s) /\ m \in Nat /\ Last(s) = s[m + 1]
         /\ m + 1 \in DOMAIN s
         /\ \A j \in m + 1 .. Len(s) : j = m + 1
<1>1. /\ y = SubSeq(s, 1, m) /\ m + 1 = Len(s) /\ m \in Nat /\ Last(s) = s[m + 1]
      /\ m \in 0 .. Len(s) /\ m <= Len(s) /\ m + 1 \in DOMAIN s
      /\ \A j \in m + 1 .. Len(s) : j = m + 1
  BY FrontCut
<1>2. y \in Scopings /\ Len(y) = m /\ \A j \in 1 .. m : y[j] = s[j]
  BY <1>1, CutAt
<1> QED
  BY <1>1, <1>2 DEF Prefix

LEMMA LeaveBlockStep ==
  ASSUME IInv, LeaveBlock
  PROVE  IInv'
<1>1. PICK n, r, s, c, z, e, m : /\ n = Len(frames) /\ r = Top /\ s = Scopes /\ c = r.todo
                                 /\ z = Front(s) /\ e = Last(s).after /\ m = Len(s) - 1
  OBVIOUS
<1>2. /\ Executes("leave") /\ ~HasFinally(Last(s)) /\ frames' = In(z, e)
      /\ UNCHANGED <<program, ref_count, active_exception, runs, ended>>
  BY <1>1 DEF LeaveBlock, Left
<1>3. /\ Running(frames, runs, active_exception, ref_count, n, r)
      /\ c # <<>> /\ c[1].op = "leave" /\ ended = "no" /\ r.operand = Null
      /\ Level(s, c, runs) /\ s = r.scopes /\ runs \in [Try -> Nat]
  BY <1>1, <1>2, Executing
<1>4. Level(z, e, runs)
  BY <1>1, <1>3, LeaveLevel
<1>5. s \in Scopings /\ s # <<>> /\ r \in FrameRecords
  BY <1>3, LevelType, RunningType
<1>6. /\ Prefix(s, z, m) /\ z \in Scopings /\ m + 1 = Len(s) /\ m \in Nat /\ Last(s) = s[m + 1]
      /\ m + 1 \in DOMAIN s
      /\ \A j \in m + 1 .. Len(s) : j = m + 1
  BY <1>1, <1>5, FrontKept
<1>7. s[m + 1].owns = FALSE /\ s[m + 1].exc = Null
  BY <1>3, <1>6, LeaveFacts DEF Leaves
<1>8. Cuts(s, z, m, runs, runs)
  <2>1. Leavable(s, m, runs)
    BY <1>2, <1>6, <1>7 DEF Leavable
  <2> QED
    BY <1>6, <2>1, CutsOnly
<1>9. StillUnwinds(r, z, e)
  <2>1. EndsIn(e, {"unwind"}) => Len(z) = m /\ UnwindsIn(r, m + 1)
    <3> SUFFICES ASSUME EndsIn(e, {"unwind"}) PROVE Len(z) = m /\ UnwindsIn(r, m + 1)
      OBVIOUS
    <3>1. ScopeOK(s[m + 1])
      BY <1>3, <1>6, LevelType
    <3>2. e = s[m + 1].after /\ e # <<>>
      BY <1>1, <1>6 DEF EndsIn
    <3>3. s[m + 1].kind = "finally"
      BY <3>1, <3>2 DEF ScopeOK
    <3> QED
      BY <1>3, <1>6, <3>2, <3>3 DEF UnwindsIn, Prefix
  <2>2. ~(Len(z) = m + 1)
    BY <1>6 DEF Prefix
  <2> QED
    BY <1>3, <1>5, <1>6, <1>8, <2>1, <2>2, CutStill
<1>10. OthersRun(frames, Len(frames), runs, runs)
  BY SameOthers
<1>11. Cuts(Scopes, z, m, runs, runs) /\ StillUnwinds(Top, z, e) /\ Top.operand = Null
  BY <1>1, <1>3, <1>8, <1>9
<1> QED
  BY <1>2, <1>3, <1>4, <1>10, <1>11, MovedStill

(* A finally block is entered: it is pushed on the blocks that are left. *)
LEMMA FinallyCuts ==
  ASSUME NEW s, NEW y \in Scopings, NEW m, Prefix(s, y, m), NEW rs, NEW rz, Leavable(s, m, rz),
         NEW fs, NEW n, NEW t, FinallyRan(fs, n, rs, rz, t), NEW e \in Code,
         NEW x, x = Scope("finally", t, Null, e), NEW z, z = Append(y, x)
  PROVE  PushesBlock(s, z, m, rs, rz, x) /\ Opened(x, "finally", t, Null, e)
<1>1. /\ "finally" \in Kinds /\ t \in Try /\ ("finally" = "finally" => rz[t] = 1)
      /\ \A u \in Try : rz[u] = rs[u] \/ rz[u] = 1
  BY DEF Kinds, FinallyRan
<1>2. Opened(x, "finally", t, Null, e)
  BY <1>1, NewScope
<1>3. ~HasFinally(x)
  BY <1>2 DEF Opened, HasFinally
<1> QED
  BY <1>1, <1>2, <1>3, CutsPushed
(* The state afterwards. *)
LEMMA FinallyMoved ==
  ASSUME IInv, ended = "no", NEW n, n = Len(frames), NEW r, r = Top, NEW s, s = r.scopes,
         Running(frames, runs, active_exception, ref_count, n, r), Scopes = s, r.operand = Null,
         NEW k \in DOMAIN s, HasFinally(s[k]), NEW t, t = s[k].of,
         NEW rz, rz = [runs EXCEPT ![t] = 1],
         NEW y \in Scopings, NEW m, Prefix(s, y, m), rz[t] = 1 => Leavable(s, m, rz),
         NEW e \in Code, ~EndsIn(e, {"unwind"}),
         NEW x, x = Scope("finally", t, Null, e), NEW z, z = Append(y, x), Level(z, <<>>, rz),
         frames' = In(z, <<>>), runs' = rz, UNCHANGED <<program, ref_count, active_exception, ended>>
  PROVE  IInv'
<1>1. FinallyRan(frames, n, runs, rz, t)
  <2>1. k \in DOMAIN r.scopes /\ HasFinally(r.scopes[k]) /\ t = r.scopes[k].of
    OBVIOUS
  <2> QED
    BY <2>1, FinallyOthers
<1>2. /\ OthersRun(frames, n, runs, rz) /\ t \in Try /\ rz[t] = 1
      /\ \A u \in Try : rz[u] = runs[u] \/ rz[u] = 1
      /\ Leavable(s, m, rz)
  BY <1>1 DEF FinallyRan
<1>3. PushesBlock(s, z, m, runs, rz, x) /\ Opened(x, "finally", t, Null, e)
  BY <1>1, <1>2, FinallyCuts
<1>4. r \in FrameRecords /\ s \in Scopings
  <2>1. r \in FrameRecords /\ r.scopes \in Scopings
    BY RunningType
  <2> QED
    BY <2>1
<1>5. Cuts(s, z, m, runs, rz) /\ StillUnwinds(r, z, <<>>)
  <2>1. ~EndsIn(<<>>, {"unwind"})
    BY DEF EndsIn
  <2>2. Cuts(s, z, m, runs, rz) /\ z \in Scopings /\ ~EndsIn(z[m + 1].after, {"unwind"})
    BY <1>3 DEF PushesBlock, Opened
  <2> QED
    BY <1>4, <2>1, <2>2, CutStill
<1>6. rz \in [Try -> Nat]
  <2>1. runs \in [Try -> Nat]
    BY DEF Running
  <2> QED
    BY <2>1
<1>7. Cuts(Scopes, z, m, runs, rz) /\ StillUnwinds(Top, z, <<>>) /\ Top.operand = Null
      /\ OthersRun(frames, Len(frames), runs, rz)
  BY <1>2, <1>5
<1> QED
  BY <1>6, <1>7, MovedStill
LEMMA RunFinallyStep ==
  ASSUME IInv, RunFinally
  PROVE  IInv'
<1>1. PICK n, r, s, c, k, t : n = Len(frames) /\ r = Top /\ s = Scopes /\ c = r.todo /\ k = c[1].scope /\ t = s[k].of
  OBVIOUS
<1>2. Executes("finally") /\ k = Next1
  <2>1. Executes("finally")
    BY DEF RunFinally
  <2>2. Next1 = r.todo[1].scope
    BY <1>1, <2>1, Executing
  <2> QED
    BY <1>1, <2>1, <2>2
<1>3. /\ Running(frames, runs, active_exception, ref_count, n, r)
      /\ c # <<>> /\ c[1].op = "finally" /\ ended = "no" /\ r.operand = Null
      /\ Level(s, c, runs) /\ s = r.scopes /\ runs \in [Try -> Nat] /\ Tail(Top.todo) = Tail(c)
  BY <1>1, <1>2, Executing
<1>4. PICK e : e = Tail(c)
  OBVIOUS
<1>5. PICK x : x = Scope("finally", t, Null, e)
  OBVIOUS
<1>6. PICK z, rz : z = Append(s, x) /\ rz = [runs EXCEPT ![t] = 1]
  OBVIOUS
<1>7. \A j, l \in DOMAIN s : HasFinally(s[j]) /\ HasFinally(s[l]) /\ s[j].of = s[l].of => j = l
  <2>1. Running(frames, runs, active_exception, ref_count, n, r) /\ s = r.scopes
    BY <1>3
  <2> QED
    BY <2>1, RunningOpen
<1>8. /\ k \in DOMAIN s /\ HasFinally(s[k]) /\ t \in Try /\ runs[t] = 0
      /\ Level(z, <<>>, rz) /\ ~EndsIn(e, {"unwind"})
  <2>1. z = Append(s, Scope("finally", t, Null, Tail(c))) /\ k = c[1].scope /\ t = s[k].of
    BY <1>1, <1>4, <1>5, <1>6
  <2>2. runs \in [Try -> Nat] /\ Level(s, c, runs) /\ c # <<>> /\ c[1].op = "finally"
    BY <1>3
  <2>3. RunsFinally(s, c, k, t, z, runs, rz)
    BY <1>6, <1>7, <2>1, <2>2, RunFinallyLevel
  <2> QED
    BY <1>4, <2>3 DEF RunsFinally
<1>9. /\ frames' = In(z, <<>>) /\ runs' = rz
      /\ UNCHANGED <<program, ref_count, active_exception, ended>>
  <2>1. /\ frames' = In(Append(Scopes, Scope("finally", Scopes[Next1].of, Null, Tail(Top.todo))), <<>>)
        /\ runs' = [runs EXCEPT ![Scopes[Next1].of] = @ + 1]
        /\ UNCHANGED <<program, ref_count, active_exception, ended>>
    BY DEF RunFinally, FinallyBlock
  <2>2. frames' = In(z, <<>>)
    BY <1>1, <1>2, <1>3, <1>4, <1>5, <1>6, <2>1
  <2>3. runs' = [runs EXCEPT ![t] = @ + 1]
    BY <1>1, <1>2, <2>1
  <2>4. runs' = rz
    BY <1>3, <1>6, <1>8, <2>3
  <2> QED
    BY <2>1, <2>2, <2>4
<1>10. e \in Code /\ s \in Scopings
  BY <1>3, <1>4, LevelType, CodeTail
<1>11. PICK m : m = Len(s)
  OBVIOUS
<1>12. Prefix(s, s, m) /\ Leavable(s, m, rz)
  BY <1>10, <1>11, AllKept
<1>13. Scopes = s
  BY <1>1
<1> QED
  BY <1>1, <1>3, <1>5, <1>6, <1>8, <1>9, <1>10, <1>12, <1>13, FinallyMoved

LEMMA LeaveTryStep ==
  ASSUME IInv, LeaveTry
  PROVE  IInv'
<1>1. PICK n, r, s, c, t : n = Len(frames) /\ r = Top /\ s = Scopes /\ c = r.todo /\ t = Last(s).of
  OBVIOUS
<1>2. /\ Executes("leave") /\ HasFinally(Last(s))
      /\ frames' = In(Append(Front(s), Scope("finally", t, Null, <<>>)), <<>>)
      /\ runs' = [runs EXCEPT ![t] = @ + 1]
      /\ UNCHANGED <<program, ref_count, active_exception, ended>>
  BY <1>1 DEF LeaveTry, FinallyBlock, Left
<1>3. /\ Running(frames, runs, active_exception, ref_count, n, r)
      /\ c # <<>> /\ c[1].op = "leave" /\ ended = "no" /\ r.operand = Null
      /\ Level(s, c, runs) /\ s = r.scopes /\ runs \in [Try -> Nat]
  BY <1>1, <1>2, Executing
<1>4. PICK x, y, m : x = Scope("finally", t, Null, <<>>) /\ y = Front(s) /\ m = Len(s) - 1
  OBVIOUS
<1>5. PICK z, rz : z = Append(y, x) /\ rz = [runs EXCEPT ![t] = 1]
  OBVIOUS
<1>6. \A j, l \in DOMAIN s : HasFinally(s[j]) /\ HasFinally(s[l]) /\ s[j].of = s[l].of => j = l
  <2>1. Running(frames, runs, active_exception, ref_count, n, r) /\ s = r.scopes
    BY <1>3
  <2> QED
    BY <2>1, RunningOpen
<1>7. t \in Try /\ runs[t] = 0 /\ Level(z, <<>>, rz)
  BY <1>1, <1>2, <1>3, <1>4, <1>5, <1>6, LeaveTryLevel
<1>8. frames' = In(z, <<>>) /\ runs' = rz
  <2>1. frames' = In(z, <<>>)
    BY <1>2, <1>4, <1>5
  <2>2. runs' = rz
    BY <1>2, <1>3, <1>5, <1>7
  <2> QED
    BY <2>1, <2>2
<1>9. s \in Scopings /\ s # <<>> /\ r \in FrameRecords
  BY <1>3, LevelType, RunningType
<1>10. /\ Prefix(s, y, m) /\ y \in Scopings /\ m + 1 = Len(s) /\ m \in Nat /\ Last(s) = s[m + 1]
       /\ m + 1 \in DOMAIN s
       /\ \A j \in m + 1 .. Len(s) : j = m + 1
  BY <1>4, <1>9, FrontKept
<1>11. s[m + 1].owns = FALSE /\ s[m + 1].exc = Null
  BY <1>3, <1>10, LeaveFacts DEF Leaves
<1>12. PICK k : k = m + 1
  OBVIOUS
<1>13. k \in DOMAIN s /\ HasFinally(s[k]) /\ t = s[k].of
  BY <1>1, <1>2, <1>10, <1>12
<1>14. rz[t] = 1 => Leavable(s, m, rz)
  BY <1>10, <1>11, <1>12, <1>13 DEF Leavable
<1>15. <<>> \in Code /\ ~EndsIn(<<>>, {"unwind"})
  BY DEF Code, EndsIn
<1>16. PICK e : e = <<>>
  OBVIOUS
<1>17. e \in Code /\ ~EndsIn(e, {"unwind"}) /\ x = Scope("finally", t, Null, e) /\ Scopes = s
  BY <1>1, <1>4, <1>15, <1>16
<1>18. UNCHANGED <<program, ref_count, active_exception, ended>>
  BY <1>2
<1>19. y \in Scopings /\ Prefix(s, y, m)
  BY <1>10
<1> QED
  BY <1>1, <1>3, <1>5, <1>7, <1>8, <1>13, <1>14, <1>17, <1>18, <1>19, FinallyMoved


(* Blocks are left or opened by a step that nothing else happens in. *)
LEMMA BlocksMoved ==
  ASSUME IInv, ended = "no", NEW n, n = Len(frames), NEW r, r = Top, NEW s, s = r.scopes,
         Running(frames, runs, active_exception, ref_count, n, r), Scopes = s, r.operand = Null,
         NEW z, Level(z, <<>>, runs), NEW m, Cuts(s, z, m, runs, runs),
         Len(z) = m + 1 => z[m + 1].kind # "finally",
         frames' = In(z, <<>>), UNCHANGED <<program, ref_count, active_exception, runs, ended>>
  PROVE  IInv'
<1>1. s \in Scopings /\ r \in FrameRecords /\ z \in Scopings
  <2>1. r \in FrameRecords /\ r.scopes \in Scopings
    BY RunningType
  <2>2. z \in Scopings
    BY LevelType
  <2> QED
    BY <2>1, <2>2
<1>2. ~EndsIn(<<>>, {"unwind"})
  BY DEF EndsIn
<1>3. StillUnwinds(r, z, <<>>)
  BY <1>1, <1>2, CutStill
<1>4. OthersRun(frames, Len(frames), runs, runs) /\ runs \in [Try -> Nat]
  BY SameOthers DEF Running
<1>5. Cuts(Scopes, z, m, runs, runs) /\ StillUnwinds(Top, z, <<>>) /\ Top.operand = Null
  BY <1>3
<1>6. runs' = runs /\ UNCHANGED <<program, ref_count, active_exception, ended>>
  OBVIOUS
<1> QED
  BY <1>4, <1>5, <1>6, MovedStill

Lost(s, j) ==
  \A k \in j .. Len(s) : /\ s[k].owns = FALSE /\ (s[k].exc # Null => Habits # {})
                         /\ HasFinally(s[k]) => "jump" \in Habits

LEMMA AgainCuts ==
  ASSUME NEW s \in Scopings, NEW j, NEW z, NEW rs, GoesAgain(s, z, j, rs), Lost(s, j)
  PROVE  Cuts(s, z, j, rs, rs)
<1>1. j \in Nat \ {0} /\ j <= Len(s) /\ Len(s) \in Nat
  BY ScopingType DEF GoesAgain
<1>2. \A k \in 1 .. j : k = j \/ k \in 1 .. j - 1
  BY <1>1
<1>3. j \in j .. Len(s) /\ j # j + 1 /\ \A k \in j + 1 .. Len(s) : k \in j .. Len(s)
  BY <1>1
<1>4. \A k \in j .. Len(s) : /\ s[k].owns = FALSE /\ (s[k].exc # Null => Habits # {})
                             /\ HasFinally(s[k]) => "jump" \in Habits
  BY DEF Lost
<1>5. /\ Len(z) = j /\ \A k \in 1 .. j - 1 : z[k] = s[k]
      /\ z[j].kind = s[j].kind /\ z[j].after = s[j].after /\ z[j].of = s[j].of
      /\ z[j].exc = s[j].exc /\ z[j].owns = FALSE /\ z[j].slot = s[j].slot
  BY DEF GoesAgain
<1>6. \A k \in 1 .. j :
        /\ z[k].kind = s[k].kind /\ z[k].of = s[k].of /\ z[k].after = s[k].after
        /\ z[k].exc = s[k].exc /\ z[k].owns = s[k].owns /\ z[k].slot = s[k].slot
  BY <1>2, <1>3, <1>4, <1>5
<1> QED
  BY <1>1, <1>3, <1>4, <1>5, <1>6 DEF Cuts

LEMMA AgainMoved ==
  ASSUME IInv, ended = "no", NEW n, n = Len(frames), NEW r, r = Top, NEW s, s = r.scopes,
         Running(frames, runs, active_exception, ref_count, n, r), Scopes = s, r.operand = Null,
         NEW j, NEW z, GoesAgain(s, z, j, runs), Lost(s, j),
         frames' = In(z, <<>>), UNCHANGED <<program, ref_count, active_exception, runs, ended>>
  PROVE  IInv'
<1>1. Cuts(s, z, j, runs, runs)
  <2>1. r.scopes \in Scopings
    BY RunningType
  <2> QED
    BY <2>1, AgainCuts
<1>2. Level(z, <<>>, runs) /\ ~(Len(z) = j + 1)
  <2>1. j \in Nat /\ Len(z) = j /\ Level(z, <<>>, runs)
    BY DEF GoesAgain
  <2> QED
    BY <2>1
<1> QED
  BY <1>1, <1>2, BlocksMoved

LEMMA IterateStep ==
  ASSUME IInv, Iterate
  PROVE  IInv'
<1>1. PICK n, r, s, c, j, z : n = Len(frames) /\ r = Top /\ s = Scopes /\ c = r.todo /\ j = Len(s) /\ z = Again(j)
  OBVIOUS
<1>2. /\ Executes("leave") /\ Last(s).kind = "loop" /\ frames' = In(Again(Inner), <<>>)
      /\ UNCHANGED <<program, ref_count, active_exception, runs, ended>>
  BY <1>1 DEF Iterate
<1>3. /\ Running(frames, runs, active_exception, ref_count, n, r)
      /\ c # <<>> /\ c[1].op = "leave" /\ ended = "no" /\ r.operand = Null
      /\ Level(s, c, runs) /\ s = r.scopes /\ Scopes = s /\ Inner = j
  BY <1>1, <1>2, Executing
<1>4. z = [SubSeq(s, 1, j) EXCEPT ![j].declared = FALSE, ![j].owns = FALSE] /\ frames' = In(z, <<>>)
  BY <1>1, <1>2, <1>3 DEF Again
<1>5. j \in Nat \ {0} /\ j \in DOMAIN s /\ s \in Scopings /\ s # <<>>
  BY <1>1, <1>3, LevelType
<1>6. Leaves(s, c, runs, j)
  BY <1>1, <1>3, LeaveFacts
<1>7. s[j].kind = "loop" /\ s[j].owns = FALSE /\ s[j].exc = Null /\ ~Returning(s[j]) /\ ~HasFinally(s[j])
  BY <1>2, <1>6 DEF Leaves, Returning, HasFinally
<1>8. \A k \in Live(s, j) : Untouched(s[k]) /\ (HasFinally(s[k]) => runs[s[k].of] = 0)
  <2>1. \A k \in Live(s, j) : k \in Live(s, j + 1) /\ k < j
    BY <1>5, <1>7, LiveTop
  <2> QED
    BY <1>6, <2>1 DEF Leaves
<1>9. GoesAgain(s, z, j, runs)
  BY <1>3, <1>4, <1>5, <1>7, <1>8, AgainLevel
<1>10. \A k \in j .. Len(s) : k = j
  BY <1>1, <1>5
<1>11. Lost(s, j)
  BY <1>7, <1>10 DEF Lost
<1> QED
  BY <1>1, <1>2, <1>3, <1>4, <1>9, <1>11, AgainMoved

LEMMA ContinueStep ==
  ASSUME IInv, Continue
  PROVE  IInv'
<1>1. PICK n, r, s, c, j, z : n = Len(frames) /\ r = Top /\ s = Scopes /\ c = r.todo /\ j = c[1].scope /\ z = Again(j)
  OBVIOUS
<1>2. /\ Executes("continue") /\ frames' = In(Again(Next1), <<>>)
      /\ UNCHANGED <<program, ref_count, active_exception, runs, ended>>
  BY DEF Continue
<1>3. /\ Running(frames, runs, active_exception, ref_count, n, r)
      /\ c # <<>> /\ c[1].op = "continue" /\ ended = "no" /\ r.operand = Null
      /\ Level(s, c, runs) /\ s = r.scopes /\ Scopes = s /\ Next1 = j
  BY <1>1, <1>2, Executing
<1>4. z = [SubSeq(s, 1, j) EXCEPT ![j].declared = FALSE, ![j].owns = FALSE] /\ frames' = In(z, <<>>)
  BY <1>1, <1>2, <1>3 DEF Again
<1>5. Loops(s, runs, Len(s), j)
  <2>1. c[1].op \in {"break", "continue"}
    BY <1>3
  <2> QED
    BY <1>1, <1>3, <2>1, LoopFacts
<1>6. /\ j \in DOMAIN s /\ s[j].kind = "loop"
      /\ \A k \in Live(s, j) : Untouched(s[k]) /\ (HasFinally(s[k]) => runs[s[k].of] = 0)
  BY <1>5 DEF Loops
<1>7. GoesAgain(s, z, j, runs)
  BY <1>3, <1>4, <1>6, AgainLevel
<1>8. Lost(s, j)
  BY <1>5 DEF Loops, Lost
<1>9. n = Len(frames) /\ r = Top
  BY <1>1
<1>10. UNCHANGED <<program, ref_count, active_exception, runs, ended>>
  BY <1>2
<1> QED
  BY <1>3, <1>4, <1>7, <1>8, <1>9, <1>10, AgainMoved

LEMMA BreakStep ==
  ASSUME IInv, Break
  PROVE  IInv'
<1>1. PICK n, r, s, c, j, z, m : /\ n = Len(frames) /\ r = Top /\ s = Scopes /\ c = r.todo /\ j = c[1].scope
                                 /\ z = SubSeq(s, 1, j - 1) /\ m = j - 1
  OBVIOUS
<1>2. /\ Executes("break") /\ frames' = In(SubSeq(Scopes, 1, Next1 - 1), <<>>)
      /\ UNCHANGED <<program, ref_count, active_exception, runs, ended>>
  BY DEF Break
<1>3. /\ Running(frames, runs, active_exception, ref_count, n, r)
      /\ c # <<>> /\ c[1].op = "break" /\ ended = "no" /\ r.operand = Null
      /\ Level(s, c, runs) /\ s = r.scopes /\ Scopes = s /\ Next1 = j
  BY <1>1, <1>2, Executing
<1>4. frames' = In(z, <<>>)
  BY <1>1, <1>2, <1>3
<1>5. Loops(s, runs, Len(s), j)
  <2>1. c[1].op \in {"break", "continue"}
    BY <1>3
  <2> QED
    BY <1>1, <1>3, <2>1, LoopFacts
<1>6. Level(z, <<>>, runs) /\ Len(z) = m /\ \A k \in 1 .. m : z[k] = s[k]
  <2>1. Level(s, c, runs) /\ z = SubSeq(s, 1, j - 1)
    BY <1>1, <1>3
  <2>2. BreaksOut(s, z, j, runs)
    BY <1>5, <2>1, BreakLevel
  <2> QED
    BY <1>1, <2>2 DEF BreaksOut
<1>7. m \in Nat /\ m <= Len(s) /\ m # m + 1 /\ \A k \in m + 1 .. Len(s) : k \in j .. Len(s)
  <2>1. j \in DOMAIN s /\ DOMAIN s = 1 .. Len(s) /\ Len(s) \in Nat
    BY <1>3, <1>5, LevelType DEF Loops
  <2> QED
    BY <1>1, <2>1
<1>8. Cuts(s, z, m, runs, runs)
  <2>1. Leavable(s, m, runs)
    BY <1>5, <1>7 DEF Loops, Leavable
  <2>2. Prefix(s, z, m)
    BY <1>6, <1>7 DEF Prefix
  <2>3. \A u \in Try : runs[u] = runs[u] \/ runs[u] = 1
    OBVIOUS
  <2> QED
    BY <2>1, <2>2, <2>3, CutsOnly
<1>9. ~(Len(z) = m + 1) /\ Level(z, <<>>, runs)
  BY <1>6, <1>7
<1> QED
  BY <1>1, <1>2, <1>3, <1>4, <1>8, <1>9, BlocksMoved


(* A step that leaves the last frame with other blocks, code and operand. *)
LEMMA Assembled ==
  ASSUME NEW fs, NEW rs, NEW a, NEW count, NEW n, NEW r, Running(fs, rs, a, count, n, r),
         NEW rz, OthersRun(fs, n, rs, rz), NEW z, NEW c, Level(z, c, rz),
         NEW o, o # Null => c = <<DropOperand>>,
         NEW q, Framed(q, r, z, c, o), NEW gs, Replaced(fs, gs, n, q),
         NEW b, NEW cnt, Flying(gs, b), Shelter(gs), Statements(gs, rz), Counted(gs, b, cnt)
  PROVE  StateOK(gs, rz, b, cnt) /\ gs # <<>>
<1>1. /\ FramesOK(fs, rs) /\ Below(fs)
  BY RunningType
<1>2. q.operand = o /\ q.todo = c /\ q.scopes = z
  BY DEF Framed
<1>3. gs \in Seq(FrameRecords) /\ gs # <<>> /\ Len(gs) = n /\ gs[n] = q
  BY DEF Replaced
<1>4. FramesOK(gs, rz)
  <2>1. Level(q.scopes, q.todo, rz)
    BY <1>2
  <2> QED
    BY <1>1, <2>1, FramesReplaced
<1>5. Waits(gs)
  <2>1. Runs(q)
    BY <1>2 DEF Runs
  <2>2. Below(gs)
    BY <1>1, BelowReplaced
  <2> QED
    BY <1>3, <2>1, <2>2, WaitsBelow
<1> QED
  BY <1>3, <1>4, <1>5 DEF StateOK

LEMMA Continued ==
  ASSUME IInv, ended = "no", NEW n, NEW r, Running(frames, runs, active_exception, ref_count, n, r),
         NEW rz \in [Try -> Nat], OthersRun(frames, n, runs, rz), NEW z, NEW c, Level(z, c, rz),
         NEW o, o # Null => c = <<DropOperand>>,
         NEW q, Framed(q, r, z, c, o), NEW gs, Replaced(frames, gs, n, q),
         NEW b \in Obj \cup {Null}, NEW cnt \in [Obj -> Nat],
         Flying(gs, b), Shelter(gs), Statements(gs, rz), Counted(gs, b, cnt),
         frames' = gs, runs' = rz, active_exception' = b, ref_count' = cnt, UNCHANGED <<program, ended>>
  PROVE  IInv'
<1>1. StateOK(gs, rz, b, cnt) /\ gs # <<>>
  BY Assembled
<1>2. program' = program /\ ended' = "no"
  OBVIOUS
<1> QED
  BY <1>1, <1>2, Resumed

(* A block is opened. *)
Pushes1(s, z, x, l) ==
  /\ l = Len(s) /\ l \in Nat /\ DOMAIN s = 1 .. l /\ DOMAIN z = 1 .. l + 1 /\ Len(z) = l + 1
  /\ \A j \in 1 .. l : z[j] = s[j] /\ j \in 1 .. l + 1 /\ j # l + 1
  /\ z[l + 1] = x /\ \A j \in 1 .. l + 1 : j = l + 1 \/ j \in 1 .. l
  /\ \A i \in 1 .. l : \A k \in Nat : k < i => (k \in 1 .. l + 1 <=> k \in 1 .. l)
LEMMA PushedOne ==
  ASSUME NEW s \in Scopings, NEW x \in ScopeRecords, NEW z, z = Append(s, x), NEW l, l = Len(s)
  PROVE  Pushes1(s, z, x, l)
<1>1. l \in Nat /\ DOMAIN s = 1 .. l
  BY ScopingType
<1>2. Len(z) = l + 1 /\ DOMAIN z = 1 .. l + 1 /\ (\A j \in 1 .. l : z[j] = s[j]) /\ z[l + 1] = x
  BY Pushed
<1>3. /\ \A j \in 1 .. l : j \in 1 .. l + 1 /\ j # l + 1
      /\ \A j \in 1 .. l + 1 : j = l + 1 \/ j \in 1 .. l
      /\ \A i \in 1 .. l : \A k \in Nat : k < i => (k \in 1 .. l + 1 <=> k \in 1 .. l)
  BY <1>1
<1> QED
  BY <1>1, <1>2, <1>3 DEF Pushes1

LEMMA PushedStill ==
  ASSUME NEW r, NEW s, s = r.scopes, NEW z, NEW x, NEW l, Pushes1(s, z, x, l), x.kind # "finally"
  PROVE  StillUnwinds(r, z, <<>>)
<1>1. ~EndsIn(<<>>, {"unwind"})
  BY DEF EndsIn
<1>2. ASSUME NEW i \in Nat, i \in DOMAIN z, z[i].kind = "finally", EndsIn(z[i].after, {"unwind"})
      PROVE  UnwindsIn(r, i) /\ PrefixAlike(s, z, i)
  <2>1. i \in 1 .. l /\ z[i] = s[i] /\ i \in DOMAIN s
    BY <1>2 DEF Pushes1
  <2>2. UnwindsIn(r, i)
    BY <1>2, <2>1 DEF UnwindsIn
  <2>3. \A k \in Nat : k < i => (k \in DOMAIN s <=> k \in DOMAIN z) /\ (k \in DOMAIN s => z[k] = s[k])
    BY <2>1 DEF Pushes1
  <2> QED
    BY <2>2, <2>3 DEF PrefixAlike
<1> QED
  BY <1>1, <1>2 DEF StillUnwinds

LEMMA PushedLess ==
  ASSUME NEW s, NEW z, NEW x, NEW l, Pushes1(s, z, x, l), x.owns = FALSE, x.exc = Null, NEW o \in Obj
  PROVE  ScopesLess(z, s, o) /\ ScopesLess(s, z, o)
<1>1. o # Null
  BY NullAssumption
<1> QED
  BY <1>1 DEF Pushes1, ScopesLess, Held, Caught

(* The owners stay the same. *)
LEMMA SameOwners ==
  ASSUME NEW fs, NEW rs, NEW a, NEW count, NEW n, NEW r, Running(fs, rs, a, count, n, r),
         NEW z, NEW c, NEW q, Framed(q, r, z, c, r.operand), NEW gs, Replaced(fs, gs, n, q),
         \A o \in Obj : ScopesLess(z, r.scopes, o) /\ ScopesLess(r.scopes, z, o)
  PROVE  Counted(gs, a, count)
<1>1. Counted(fs, a, count) /\ r = fs[n]
  BY RunningType
<1>2. q.obj = r.obj /\ q.operand = r.operand /\ q.scopes = z
  BY DEF Framed
<1> SUFFICES ASSUME NEW o \in Obj PROVE Covers(count[o], OwnersIn(gs, a, o))
  BY DEF Counted
<1>3. Covers(count[o], OwnersIn(fs, a, o))
  BY <1>1 DEF Counted
<1>4. ScopesLess(q.scopes, r.scopes, o) /\ ScopesLess(r.scopes, q.scopes, o)
  BY <1>2
<1>5. References(q, o) \subseteq References(fs[n], o)
  BY <1>1, <1>2, <1>4, ReferencesLess
<1>6. References(fs[n], o) \subseteq References(q, o)
  BY <1>1, <1>2, <1>4, ReferencesLess
<1> QED
  BY <1>3, <1>5, <1>6, CountLess


LEMMA NotOpen ==
  ASSUME NEW t \in Try, t \notin Open, NEW f, NEW i, Place(frames, f, i)
  PROVE  frames[f].scopes[i].of # t
<1>1. t # Null
  BY NullAssumption
<1>2. <<f, i>> \in Positions(frames)
  BY DEF Positions, Place
<1>3. <<f, i>>[1] = f /\ <<f, i>>[2] = i
  OBVIOUS
<1> QED
  BY <1>1, <1>2, <1>3 DEF Open

LEMMA OpenOthers ==
  ASSUME NEW fs, NEW rs, FramesOK(fs, rs), NEW t, \A f, i : Place(fs, f, i) => fs[f].scopes[i].of # t,
         NEW rz, \A u \in Try : rz[u] = IF u = t THEN 0 ELSE rs[u], NEW n
  PROVE  OthersRun(fs, n, rs, rz)
<1> SUFFICES ASSUME NEW f \in DOMAIN fs, NEW j \in DOMAIN fs[f].scopes, HasFinally(fs[f].scopes[j])
             PROVE  rz[fs[f].scopes[j].of] = rs[fs[f].scopes[j].of]
  BY DEF OthersRun
<1>1. Place(fs, f, j)
  BY DEF Place
<1>2. fs[f].scopes[j].of \in Try
  BY <1>1, PlaceOf
<1>3. fs[f].scopes[j].of # t
  BY <1>1
<1> QED
  BY <1>2, <1>3

Opens(r, s, z, x, kind, t, n) ==
  /\ s = r.scopes /\ Opened(x, kind, t, Null, <<>>) /\ z = Append(s, x)
  /\ Pushes1(s, z, x, Len(s)) /\ z \in Scopings /\ s \in Scopings
LEMMA OpensBlock ==
  ASSUME NEW r, NEW s \in Scopings, s = r.scopes, NEW kind \in {"block", "loop", "try"}, NEW t, t \in Try \/ t = Null,
         NEW x, x = Scope(kind, t, Null, <<>>), NEW z, z = Append(s, x), NEW n
  PROVE  Opens(r, s, z, x, kind, t, n)
<1>1. kind \in Kinds /\ <<>> \in Code
  BY DEF Kinds, Code
<1>2. PICK o, e : o = Null /\ e = <<>>
  OBVIOUS
<1>3. Opened(x, kind, t, o, e)
  <2>1. x = Scope(kind, t, o, e) /\ e \in Code
    BY <1>1, <1>2
  <2> QED
    BY <1>1, <1>2, <2>1, NewScope
<1>4. x \in ScopeRecords
  BY <1>3 DEF Opened
<1>5. PICK l : l = Len(s)
  OBVIOUS
<1>6. Pushes1(s, z, x, l) /\ z \in Scopings
  BY <1>4, <1>5, Pushed, PushedOne
<1> QED
  BY <1>2, <1>3, <1>5, <1>6 DEF Opens

LEMMA OpenPlainStep ==
  ASSUME IInv, NEW kind \in {"block", "loop", "try"}, NEW t, t = Null, OpenBlock(kind, t)
  PROVE  IInv'
<1>1. PICK n, r, s, x, z, m : /\ n = Len(frames) /\ r = Top /\ s = Scopes /\ x = Scope(kind, t, Null, <<>>)
                              /\ z = Append(s, x) /\ m = Len(s)
  OBVIOUS
<1>2. /\ Ready /\ frames' = In(Append(Scopes, Scope(kind, t, Null, <<>>)), <<>>)
      /\ runs' = [u \in Try |-> IF u = t THEN 0 ELSE runs[u]]
      /\ UNCHANGED <<program, ref_count, active_exception, ended>>
  BY DEF OpenBlock
<1>3. /\ Running(frames, runs, active_exception, ref_count, n, r)
      /\ r.operand = Null /\ ended = "no" /\ Level(s, <<>>, runs) /\ s = r.scopes /\ Scopes = s
      /\ runs \in [Try -> Nat]
  BY <1>1, <1>2, AtReady
<1>4. runs' = runs /\ frames' = In(z, <<>>) /\ \A u \in Try : runs[u] = IF u = t THEN 0 ELSE runs[u]
  <2>1. \A u \in Try : u # t
    BY NullAssumption
  <2>2. runs' = runs
    BY <1>2, <1>3, <2>1
  <2>3. frames' = In(z, <<>>)
    BY <1>1, <1>2
  <2> QED
    BY <2>1, <2>2, <2>3
<1>5. s \in Scopings
  BY <1>3, LevelType
<1>6. Opens(r, s, z, x, kind, t, n)
  BY <1>1, <1>3, <1>5, OpensBlock
<1>7. Level(z, <<>>, runs)
  <2>1. \A j \in DOMAIN s : HasFinally(s[j]) => s[j].of # t
    BY DEF HasFinally
  <2>2. t \in Try \cup {Null} /\ (kind # "try" => t = Null) /\ z = Append(s, Scope(kind, t, Null, <<>>))
    BY <1>1
  <2>3. Level(Append(s, Scope(kind, t, Null, <<>>)), <<>>, runs)
    BY <1>3, <1>4, <2>1, <2>2, OpenLevel
  <2> QED
    BY <2>2, <2>3
<1>8. PushesBlock(s, z, m, runs, runs, x)
  <2>1. Prefix(s, s, m) /\ Leavable(s, m, runs)
    BY <1>1, <1>5, AllKept
  <2>2. z = Append(s, x) /\ Opened(x, kind, t, Null, <<>>) /\ ~HasFinally(x) /\ kind # "finally"
    <3>1. Opened(x, kind, t, Null, <<>>)
      BY <1>6 DEF Opens
    <3>2. x.of = Null
      BY <3>1 DEF Opened
    <3> QED
      BY <1>1, <3>1, <3>2 DEF HasFinally
  <2>3. \A u \in Try : runs[u] = runs[u] \/ runs[u] = 1
    OBVIOUS
  <2> QED
    BY <1>5, <2>1, <2>2, <2>3, CutsPushed
<1>9. Cuts(s, z, m, runs, runs) /\ z[m + 1].kind # "finally"
  <2>1. Opened(x, kind, t, Null, <<>>)
    BY <1>6 DEF Opens
  <2>2. x.kind # "finally"
    BY <2>1 DEF Opened
  <2> QED
    BY <1>8, <2>2 DEF PushesBlock
<1>10. UNCHANGED <<program, ref_count, active_exception, runs, ended>>
  BY <1>2, <1>4
<1>11. n = Len(frames) /\ r = Top
  BY <1>1
<1> QED
  BY <1>3, <1>4, <1>7, <1>9, <1>10, <1>11, BlocksMoved

LEMMA OpenTryStep ==
  ASSUME IInv, NEW kind \in {"block", "loop", "try"}, NEW t \in Try, OpenBlock(kind, t)
  PROVE  IInv'
<1>1. PICK n, r, s, x, z, rz : /\ n = Len(frames) /\ r = Top /\ s = Scopes /\ x = Scope(kind, t, Null, <<>>)
                               /\ z = Append(s, x) /\ rz = [u \in Try |-> IF u = t THEN 0 ELSE runs[u]]
  OBVIOUS
<1>2. /\ Ready /\ frames' = In(Append(Scopes, Scope(kind, t, Null, <<>>)), <<>>)
      /\ runs' = rz /\ t \notin Open /\ kind = "try"
      /\ UNCHANGED <<program, ref_count, active_exception, ended>>
  BY <1>1, NullAssumption DEF OpenBlock
<1>3. /\ Running(frames, runs, active_exception, ref_count, n, r)
      /\ r.operand = Null /\ ended = "no" /\ Level(s, <<>>, runs) /\ s = r.scopes /\ Scopes = s
      /\ runs \in [Try -> Nat] /\ ref_count \in [Obj -> Nat]
  BY <1>1, <1>2, AtReady
<1>4. PICK gs : gs = In(z, <<>>)
  OBVIOUS
<1>5. frames' = gs
  BY <1>1, <1>2, <1>4
<1>6. s \in Scopings /\ <<>> \in Code
  BY <1>3, LevelType DEF Code
<1>7. Opens(r, s, z, x, kind, t, n)
  BY <1>1, <1>3, <1>6, OpensBlock
<1>8. /\ Opened(x, kind, t, Null, <<>>) /\ z = Append(s, x)
      /\ Pushes1(s, z, x, Len(s)) /\ z \in Scopings
  BY <1>7 DEF Opens
<1>9. /\ rz \in [Try -> Nat] /\ \A u \in Try : rz[u] = IF u = t THEN 0 ELSE runs[u]
  BY <1>1, <1>3
<1>10. \A f, i : Place(frames, f, i) => frames[f].scopes[i].of # t
  BY <1>2, NotOpen
<1>11. FramesOK(frames, runs) /\ Statements(frames, runs) /\ Flying(frames, active_exception) /\ Shelter(frames)
       /\ n \in DOMAIN frames /\ r = frames[n]
  BY <1>3, RunningType
<1>12. OthersRun(frames, n, runs, rz)
  BY <1>9, <1>10, <1>11, OpenOthers
<1>13. Level(z, <<>>, rz)
  <2>1. \A j \in DOMAIN s : s[j].of # t
    BY <1>3, <1>10, <1>11 DEF Place
  <2>2. \A j \in DOMAIN s : HasFinally(s[j]) => s[j].of # t
    BY <2>1
  <2>3. t \in Try \cup {Null} /\ (kind # "try" => t = Null) /\ z = Append(s, Scope(kind, t, Null, <<>>))
    BY <1>1, <1>2
  <2>4. Level(Append(s, Scope(kind, t, Null, <<>>)), <<>>, rz)
    BY <1>3, <1>9, <2>2, <2>3, OpenLevel
  <2> QED
    BY <2>3, <2>4
<1>14. PICK q : /\ Framed(q, r, z, <<>>, r.operand) /\ Replaced(frames, gs, n, q)
  BY <1>1, <1>3, <1>4, <1>6, <1>8, Placed
<1>15. Flying(gs, active_exception) /\ Shelter(gs)
  <2>1. x.kind # "finally"
    BY <1>2, <1>8 DEF Opened
  <2>2. StillUnwinds(r, z, <<>>)
    BY <1>3, <1>8, <2>1, PushedStill
  <2>3. q.scopes = z /\ q.todo = <<>>
    BY <1>14 DEF Framed
  <2> QED
    BY <1>11, <1>14, <2>2, <2>3, StillShelter
<1>16. Statements(gs, rz)
  <2>1. q.scopes = Append(s, x) /\ x.kind = "try" /\ x.of = t /\ x \in ScopeRecords
    BY <1>2, <1>8, <1>14 DEF Framed, Opened
  <2>2. s = frames[n].scopes
    BY <1>3, <1>11
  <2> QED
    BY <1>6, <1>9, <1>10, <1>11, <1>14, <2>1, <2>2, StatementsOpened
<1>17. Counted(gs, active_exception, ref_count)
  <2>1. x.owns = FALSE /\ x.exc = Null
    BY <1>8 DEF Opened
  <2>2. \A o \in Obj : ScopesLess(z, s, o) /\ ScopesLess(s, z, o)
    BY <1>8, <2>1, PushedLess
  <2>3. \A o \in Obj : ScopesLess(z, r.scopes, o) /\ ScopesLess(r.scopes, z, o)
    BY <1>3, <2>2
  <2> QED
    BY <1>3, <1>14, <2>3, SameOwners
<1>18. active_exception \in Obj \cup {Null} /\ active_exception' = active_exception /\ ref_count' = ref_count
       /\ UNCHANGED <<program, ended>>
  BY <1>2, <1>3 DEF Running
<1>19. PICK o : o = r.operand
  OBVIOUS
<1>20. o = Null /\ Framed(q, r, z, <<>>, o)
  BY <1>3, <1>14, <1>19
<1> QED
  BY <1>2, <1>3, <1>5, <1>9, <1>12, <1>13, <1>14, <1>15, <1>16, <1>17, <1>18, <1>20, Continued

LEMMA OpenBlockStep ==
  ASSUME IInv, NEW kind \in {"block", "loop", "try"}, NEW t \in Try \cup {Null}, OpenBlock(kind, t)
  PROVE  IInv'
BY OpenPlainStep, OpenTryStep


(* An exception goes on to the next block. *)
LEMMA CarefulAll ==
  ASSUME NEW fs \in Seq(FrameRecords), Careful(fs), NEW n, n = Len(fs), NEW l, l = Len(fs[n].scopes)
  PROVE  Sheltered(fs, n, l)
<1>1. n \in Nat /\ DOMAIN fs = 1 .. n /\ \A h \in DOMAIN fs : fs[h] \in FrameRecords
  BY FramesType
<1>2. \A h \in DOMAIN fs : h \in Nat /\ fs[h].scopes \in Scopings
  BY <1>1, FrameFields
<1>3. \A h \in DOMAIN fs : /\ Len(fs[h].scopes) \in Nat /\ DOMAIN fs[h].scopes = 1 .. Len(fs[h].scopes)
  BY <1>2, ScopingType
<1>4. \A h \in DOMAIN fs : h \in Nat /\ \A k \in DOMAIN fs[h].scopes : k \in Nat
  BY <1>2, <1>3
<1>5. \A h, k \in Nat : Place(fs, h, k) => UpTo(h, k, n, l)
  <2> SUFFICES ASSUME NEW h \in Nat, NEW k \in Nat, Place(fs, h, k) PROVE UpTo(h, k, n, l)
    OBVIOUS
  <2>1. h \in 1 .. n /\ k \in 1 .. Len(fs[h].scopes)
    BY <1>1, <1>3 DEF Place
  <2>2. CASE h = n
    BY <2>1, <2>2, <1>1, <1>3 DEF UpTo
  <2>3. CASE h # n
    BY <2>1, <2>3, <1>1 DEF UpTo
  <2> QED
    BY <2>2, <2>3
<1> SUFFICES ASSUME NEW f \in Nat, NEW i \in Nat, Place(fs, f, i), BarrierAt(fs, f, i)
             PROVE  TryAbove(fs, f, i, n, l)
  BY DEF Sheltered
<1>6. f \in DOMAIN fs /\ i \in DOMAIN fs[f].scopes /\ Barrier(fs, <<f, i>>)
  BY DEF Place, BarrierAt
<1>7. PICK h, k \in Nat : Place(fs, h, k) /\ fs[h].scopes[k].kind = "try" /\ ~UpTo(h, k, f, i)
  BY <1>4, <1>6, CarefulShelter
<1> QED
  BY <1>5, <1>7 DEF TryAbove

LEMMA FrontAlike ==
  ASSUME NEW s \in Scopings, NEW z \in Scopings, NEW l, l = Len(s), l # 0,
         Len(z) = l - 1 \/ Len(z) = l, \A j \in 1 .. l - 1 : z[j] = s[j]
  PROVE  PrefixAlike(s, z, l) /\ PrefixAlike(z, s, l)
<1>1. PICK w : w = Len(z)
  OBVIOUS
<1>2. l \in Nat /\ DOMAIN s = 1 .. l /\ w \in Nat /\ DOMAIN z = 1 .. w /\ (w = l - 1 \/ w = l)
  BY <1>1, ScopingType
<1>3. \A k \in Nat : k < l => (k \in 1 .. l <=> k \in 1 .. w) /\ (k \in 1 .. l => k \in 1 .. l - 1)
  BY <1>2
<1>4. \A k \in Nat : k < l => (k \in DOMAIN s <=> k \in DOMAIN z) /\ (k \in DOMAIN s => z[k] = s[k])
  BY <1>2, <1>3
<1> QED
  BY <1>4 DEF PrefixAlike

(* What flies is in the last frame, and no barrier is in its way. *)
Flies(fs, a, n, l) ==
  /\ a # Null /\ \A g, j \in Nat : UnwindsAt(fs, g, j) => g = n /\ j = l + 1
  /\ Sheltered(fs, n, l) /\ ~BarrierAt(fs, n, l)
LEMMA FliesNow ==
  ASSUME NEW fs, NEW rs, NEW a, NEW count, NEW n, NEW r, Running(fs, rs, a, count, n, r),
         NEW s, s = r.scopes, NEW l, l = Len(s), EndsIn(r.todo, {"unwind"})
  PROVE  Flies(fs, a, n, l)
<1>1. FramesOK(fs, rs) /\ Flying(fs, a) /\ Shelter(fs) /\ n \in Nat /\ n \in DOMAIN fs /\ r = fs[n]
      /\ Level(s, r.todo, rs)
  BY RunningType
<1>2. l \in Nat /\ l + 1 \in Nat /\ (l + 1) - 1 = l /\ l \in DOMAIN s
  BY <1>1, LevelType
<1>3. UnwindsAt(fs, n, l + 1) /\ Place(fs, n, l)
  BY <1>1, <1>2 DEF UnwindsAt, UnwindsIn, Place
<1>4. PICK i : i = l + 1
  OBVIOUS
<1>5. /\ a # Null /\ \A g, j \in Nat : UnwindsAt(fs, g, j) => g = n /\ j = i
      /\ Sheltered(fs, n, i - 1)
  BY <1>1, <1>2, <1>3, <1>4, Solo
<1>6. Sheltered(fs, n, l)
  BY <1>2, <1>4, <1>5
<1>7. ~BarrierAt(fs, n, l)
  BY <1>1, <1>2, <1>3, <1>6, Barred
<1> QED
  BY <1>4, <1>5, <1>6, <1>7 DEF Flies

Onward(s, z, c, l) ==
  /\ z \in Scopings /\ (Len(z) = l - 1 \/ (Len(z) = l /\ ~EndsIn(c, {"unwind"})))
  /\ \A j \in 1 .. l - 1 : z[j] = s[j]
LEMMA OnwardAt ==
  ASSUME NEW fs, NEW rs, NEW a, NEW count, NEW n, NEW r, Running(fs, rs, a, count, n, r),
         NEW s, s = r.scopes, NEW l, l = Len(s), Flies(fs, a, n, l),
         NEW z, NEW c, Onward(s, z, c, l), NEW o, NEW q, Framed(q, r, z, c, o), NEW gs, Replaced(fs, gs, n, q)
  PROVE  OnlyAt(gs, n, l)
<1>0. /\ z \in Scopings /\ (Len(z) = l - 1 \/ (Len(z) = l /\ ~EndsIn(c, {"unwind"})))
      /\ \A j \in 1 .. l - 1 : z[j] = s[j]
  BY DEF Onward
<1>1. r = fs[n] /\ n \in Nat /\ n \in DOMAIN fs /\ s \in Scopings /\ DOMAIN fs = 1 .. n
      /\ Level(s, r.todo, rs)
  BY RunningType
<1>2. l \in Nat \ {0} /\ DOMAIN s = 1 .. l /\ l # 0 /\ Len(z) \in Nat /\ DOMAIN z = 1 .. Len(z)
  BY <1>0, <1>1, LevelType, ScopingType
<1>3. q.scopes = z /\ q.todo = c
  BY DEF Framed
<1>4. ASSUME NEW f \in Nat, NEW i \in Nat, UnwindsAt(gs, f, i) PROVE f = n /\ i = l
  <2>1. f \in DOMAIN gs /\ UnwindsIn(gs[f], i) /\ DOMAIN gs = 1 .. n
    BY <1>4 DEF UnwindsAt, Replaced
  <2>2. CASE f # n
    <3>1. gs[f] = fs[f] /\ f \in DOMAIN fs
      BY <1>1, <2>1, <2>2 DEF Replaced
    <3>2. UnwindsAt(fs, f, i)
      BY <2>1, <3>1 DEF UnwindsAt
    <3> QED
      BY <2>2, <3>2 DEF Flies
  <2>3. CASE f = n
    <3>1. UnwindsIn(q, i)
      BY <2>1, <2>3 DEF Replaced
    <3>2. CASE i = Len(z) + 1 /\ EndsIn(c, {"unwind"})
      BY <1>0, <1>2, <2>3, <3>2
    <3>3. CASE i \in DOMAIN z /\ z[i].kind = "finally" /\ EndsIn(z[i].after, {"unwind"})
      <4>1. CASE i = l
        BY <2>3, <4>1
      <4>2. CASE i # l
        <5>1. i \in 1 .. l - 1 /\ i \in DOMAIN s /\ i # l + 1
          BY <1>0, <1>2, <3>3, <4>2
        <5>2. z[i] = s[i]
          BY <1>0, <5>1
        <5>3. UnwindsIn(r, i)
          BY <3>3, <5>1, <5>2 DEF UnwindsIn
        <5>4. UnwindsAt(fs, n, i)
          BY <1>1, <5>3 DEF UnwindsAt
        <5> QED
          BY <1>1, <5>1, <5>4 DEF Flies
      <4> QED
        BY <4>1, <4>2
    <3> QED
      BY <1>3, <3>1, <3>2, <3>3 DEF UnwindsIn
  <2> QED
    BY <2>2, <2>3
<1> QED
  BY <1>4 DEF OnlyAt

LEMMA FliesOn ==
  ASSUME NEW fs, NEW rs, NEW a, NEW count, NEW n, NEW r, Running(fs, rs, a, count, n, r),
         NEW s, s = r.scopes, NEW l, l = Len(s), Flies(fs, a, n, l),
         NEW z, NEW c, Onward(s, z, c, l), NEW o, NEW q, Framed(q, r, z, c, o), NEW gs, Replaced(fs, gs, n, q),
         Sheltered(fs, n, l - 1)
  PROVE  Flying(gs, a) /\ Shelter(gs)
<1>0. /\ z \in Scopings /\ (Len(z) = l - 1 \/ (Len(z) = l /\ ~EndsIn(c, {"unwind"})))
      /\ \A j \in 1 .. l - 1 : z[j] = s[j]
  BY DEF Onward
<1>1. r = fs[n] /\ n \in Nat /\ n \in DOMAIN fs /\ s \in Scopings /\ DOMAIN fs = 1 .. n
      /\ Level(s, r.todo, rs)
  BY RunningType
<1>2. l \in Nat \ {0} /\ DOMAIN s = 1 .. l /\ l # 0 /\ Len(z) \in Nat /\ DOMAIN z = 1 .. Len(z)
  BY <1>0, <1>1, LevelType, ScopingType
<1>3. q.scopes = z /\ q.todo = c
  BY DEF Framed
<1>5. Sheltered(gs, n, l - 1)
  <2>1. PrefixAlike(s, z, l)
    BY <1>0, <1>1, <1>2, FrontAlike
  <2>2. n = n => PrefixAlike(fs[n].scopes, q.scopes, l)
    BY <1>1, <1>3, <2>1
  <2>3. n \in DOMAIN gs /\ l \in Nat
    BY <1>1, <1>2 DEF Replaced
  <2>4. AlikeUpTo(fs, gs, n, l - 1)
    BY <1>1, <2>2, <2>3, ReplacedAlike
  <2> QED
    BY <2>4, ShelteredAlike
<1>6. a # Null
  BY DEF Flies
<1>7. OnlyAt(gs, n, l)
  BY OnwardAt
<1>8. PICK m : m = l - 1
  OBVIOUS
<1>9. Sheltered(gs, n, m)
  BY <1>5, <1>8
<1> QED
  BY <1>6, <1>7, <1>8, <1>9, OneShelter


(* What unwinds a block that catches nothing. *)
NoClause(s, a) ==
  \/ s[Len(s)].kind \notin {"body", "try"}
  \/ s[Len(s)].kind = "try" /\ (Careful(In(Front(s), <<>>)) \/ a = Null)

LEMMA ShelterOut ==
  ASSUME IInv, ended = "no", NEW n, n = Len(frames), NEW r, r = Top, NEW s, s = r.scopes, NEW l, l = Len(s),
         NEW a, Running(frames, runs, a, ref_count, n, r), Flies(frames, a, n, l), NoClause(s, a)
  PROVE  Sheltered(frames, n, l - 1)
<1>1. /\ FramesOK(frames, runs) /\ n \in Nat \ {0} /\ n \in DOMAIN frames /\ r = frames[n] /\ s \in Scopings
      /\ Level(s, r.todo, runs)
  BY RunningType
<1>2. l \in Nat \ {0} /\ l \in Nat /\ l - 1 \in Nat /\ DOMAIN s = 1 .. l /\ s # <<>> /\ l # 0
  BY <1>1, LevelType
<1>3. a # Null /\ Sheltered(frames, n, l)
  BY DEF Flies
<1>4. CASE s[l].kind # "try"
  <2>1. \A h, k \in Nat : UpTo(h, k, n, l - 1) => UpTo(h, k, n, l)
    BY <1>1, <1>2 DEF UpTo
  <2>2. \A h, k \in Nat : UpTo(h, k, n, l) => UpTo(h, k, n, l - 1) \/ (h = n /\ k = l)
    BY <1>1, <1>2 DEF UpTo
  <2>3. \A h, k \in Nat : Place(frames, h, k) /\ UpTo(h, k, n, l) /\ frames[h].scopes[k].kind = "try" =>
           UpTo(h, k, n, l - 1)
    BY <1>1, <1>4, <2>2
  <2> PICK m : m = l - 1
    OBVIOUS
  <2> QED
    BY <1>3, <2>1, <2>3, ShelterBelow
<1>5. CASE s[l].kind = "try"
  <2>1. PICK y, e : y = Front(s) /\ e = <<>>
    OBVIOUS
  <2>2. PICK gs : gs = In(y, e)
    OBVIOUS
  <2>3. Careful(gs)
    BY <1>3, <1>5, <2>1, <2>2 DEF NoClause
  <2>4. PICK m : m = l - 1
    OBVIOUS
  <2>5. y \in Scopings /\ Prefix(s, y, m) /\ e \in Code
    <3>1. e \in Code
      BY <2>1 DEF Code
    <3>2. s \in Scopings /\ s # <<>> /\ m = Len(s) - 1 /\ y = Front(s)
      BY <1>1, <1>2, <2>1, <2>4
    <3>3. y \in Scopings /\ Prefix(s, y, m)
      BY <3>2, FrontKept
    <3> QED
      BY <3>1, <3>3
  <2>6. PICK q : Framed(q, r, y, e, r.operand) /\ Replaced(frames, gs, n, q)
    BY <2>2, <2>5, Placed
  <2>7. gs \in Seq(FrameRecords) /\ n = Len(gs) /\ gs[n].scopes = y /\ m = Len(gs[n].scopes)
    BY <2>5, <2>6 DEF Replaced, Framed, Prefix
  <2>8. Sheltered(gs, n, m)
    BY <2>3, <2>7, CarefulAll
  <2>9. Replaced(gs, frames, n, r)
    BY <1>1, <2>6, RunningType DEF Replaced
  <2>10. PrefixAlike(y, s, l)
    <3>1. Len(y) = l - 1 /\ \A j \in 1 .. l - 1 : y[j] = s[j]
      BY <2>4, <2>5 DEF Prefix
    <3> QED
      BY <1>1, <1>2, <2>5, <3>1, FrontAlike
  <2>11. n = n => PrefixAlike(gs[n].scopes, r.scopes, l)
    BY <2>7, <2>10
  <2>12. AlikeUpTo(gs, frames, n, l - 1)
    BY <1>1, <1>2, <2>9, <2>11, ReplacedAlike
  <2>13. Sheltered(frames, n, m)
    BY <2>4, <2>8, <2>12, ShelteredAlike
  <2> QED
    BY <2>4, <2>13
<1> QED
  BY <1>4, <1>5

(* The block that is left. *)
Unwinding1(s, rs, l) ==
  /\ ~Returning(s[l]) /\ s[l].owns = FALSE /\ (s[l].exc # Null => Habits # {})
LEMMA BlockUnwinds ==
  ASSUME Keeps, NEW fs, NEW rs, NEW a, NEW count, NEW n, NEW r, Running(fs, rs, a, count, n, r),
         NEW s, s = r.scopes, NEW l, l = Len(s), Flies(fs, a, n, l), r.todo # <<>>, r.todo[1].op = "unwind"
  PROVE  Unwinding1(s, rs, l)
<1>1. r = fs[n] /\ Level(s, r.todo, rs)
  BY RunningType
<1>2. l \in DOMAIN s /\ ScopeOK(s[l])
  BY <1>1, LevelType
<1>3. s[l].owns = FALSE
  <2>1. Unwound(s, r.todo, rs, l)
    BY <1>1, UnwindFacts
  <2> QED
    BY <2>1 DEF Unwound
<1>4. ~BarrierAt(fs, n, l) /\ fs[n].scopes[l] = s[l]
  BY <1>1 DEF Flies
<1>5. <<n, l>>[1] = n /\ <<n, l>>[2] = l
  OBVIOUS
<1>6. ~Returning(s[l])
  <2> SUFFICES ASSUME Returning(s[l]) PROVE FALSE
    OBVIOUS
  <2>1. s[l].kind = "finally" /\ "finally" \notin Habits
    BY DEF Returning, Keeps
  <2>2. Barrier(fs, <<n, l>>)
    BY <1>4, <1>5, <2>1 DEF Barrier
  <2> QED
    BY <1>4, <2>1, <2>2 DEF BarrierAt
<1>7. s[l].exc # Null => Habits # {}
  <2> SUFFICES ASSUME s[l].exc # Null, Habits = {} PROVE FALSE
    OBVIOUS
  <2>1. s[l].kind = "catch" /\ "catch" \notin Habits
    BY <1>2 DEF ScopeOK
  <2>2. Barrier(fs, <<n, l>>)
    BY <1>4, <1>5, <2>1 DEF Barrier, KindAt
  <2> QED
    BY <1>4, <2>2 DEF BarrierAt
<1> QED
  BY <1>3, <1>6, <1>7 DEF Unwinding1


LEMMA UnwindBlockStep ==
  ASSUME IInv, Keeps, UnwindBlock
  PROVE  IInv'
<1>1. PICK n, r, s, c, l, y, d, gs : /\ n = Len(frames) /\ r = Top /\ s = Scopes /\ c = r.todo /\ l = Len(s)
                                     /\ y = Front(s) /\ d = CleanupOf(l - 1) /\ gs = In(y, d)
  OBVIOUS
<1>2. /\ Executes("unwind") /\ ~HasFinally(Last(s)) /\ frames' = gs
      /\ UNCHANGED <<program, ref_count, active_exception, runs, ended>>
  BY <1>1 DEF UnwindBlock, Left, Inner
<1>3. /\ Running(frames, runs, active_exception, ref_count, n, r)
      /\ c # <<>> /\ c[1].op = "unwind" /\ ended = "no" /\ r.operand = Null
      /\ Level(s, c, runs) /\ s = r.scopes /\ runs \in [Try -> Nat]
  BY <1>1, <1>2, Executing
<1>4. PICK m, a : m = l - 1 /\ a = active_exception
  OBVIOUS
<1>5. s \in Scopings /\ s # <<>>
  BY <1>3, LevelType
<1>6. /\ Prefix(s, y, m) /\ y \in Scopings /\ m + 1 = l /\ m \in Nat /\ Last(s) = s[l] /\ l \in DOMAIN s
      /\ \A j \in m + 1 .. Len(s) : j = l
  BY <1>1, <1>4, <1>5, FrontKept
<1>7. NoClause(s, a) /\ s[l].kind # "body"
  <2>1. NotCaught
    BY DEF UnwindBlock
  <2>2. \/ s[l].kind \notin {"body", "try"}
        \/ s[l].kind = "try" /\ (Careful(In(Front(s), <<>>)) \/ a = Null)
    BY <1>1, <1>4, <1>6, <2>1 DEF NotCaught, Left
  <2> QED
    BY <1>1, <2>2 DEF NoClause
<1>8. EndsIn(c, {"unwind"})
  <2>1. Unwound(s, c, runs, l)
    BY <1>1, <1>3, UnwindFacts
  <2> QED
    BY <2>1 DEF Unwound
<1>9. Running(frames, runs, a, ref_count, n, r)
  BY <1>3, <1>4
<1>10. Flies(frames, a, n, l)
  BY <1>1, <1>3, <1>8, <1>9, FliesNow
<1>11. Unwinding1(s, runs, l)
  BY <1>1, <1>3, <1>9, <1>10, BlockUnwinds
<1>12. Sheltered(frames, n, l - 1)
  BY <1>1, <1>3, <1>7, <1>9, <1>10, ShelterOut
<1>13. Level(y, d, runs)
  <2>1. ~Returning(s[Len(s)]) /\ s[Len(s)].kind # "body"
    BY <1>1, <1>7, <1>11 DEF Unwinding1
  <2>2. Level(Front(s), CleanupOf(Len(s) - 1), runs)
    BY <1>3, <2>1, UnwindBlockLevel
  <2> QED
    BY <1>1, <2>2
<1>14. Cuts(s, y, m, runs, runs)
  <2>1. ~HasFinally(s[l]) /\ s[l].owns = FALSE /\ (s[l].exc # Null => Habits # {})
    BY <1>2, <1>6, <1>11 DEF Unwinding1
  <2>2. Leavable(s, m, runs)
    BY <1>6, <2>1 DEF Leavable
  <2> QED
    BY <1>6, <2>2, CutsOnly
<1>15. d \in Code
  BY <1>13, LevelType
<1>16. PICK q : Framed(q, r, y, d, r.operand) /\ Replaced(frames, gs, n, q)
  BY <1>1, <1>3, <1>6, <1>15, Placed
<1>17. Flying(gs, a) /\ Shelter(gs)
  <2>1. Onward(s, y, d, l)
    BY <1>4, <1>6 DEF Prefix, Onward
  <2>2. PICK o : o = r.operand
    OBVIOUS
  <2>3. Framed(q, r, y, d, o)
    BY <1>16, <2>2
  <2> QED
    BY <1>1, <1>3, <1>9, <1>10, <1>12, <1>16, <2>1, <2>3, FliesOn
<1>18. OthersRun(frames, Len(frames), runs, runs)
  BY SameOthers
<1>19. Flying(gs, active_exception) /\ Cuts(Scopes, y, m, runs, runs) /\ Top.operand = Null
  BY <1>1, <1>3, <1>4, <1>14, <1>17
<1> QED
  BY <1>1, <1>2, <1>3, <1>13, <1>17, <1>18, <1>19, Moved

LEMMA UnwindTryStep ==
  ASSUME IInv, Keeps, UnwindTry
  PROVE  IInv'
<1>1. PICK n, r, s, c, l, y, d, t, x : /\ n = Len(frames) /\ r = Top /\ s = Scopes /\ c = r.todo /\ l = Len(s)
                                       /\ y = Front(s) /\ d = CleanupOf(l - 1) /\ t = Last(s).of
                                       /\ x = Scope("finally", t, Null, d)
  OBVIOUS
<1>2. PICK z, rz, gs : z = Append(y, x) /\ rz = [runs EXCEPT ![t] = 1] /\ gs = In(z, <<>>)
  OBVIOUS
<1>3. /\ Executes("unwind") /\ HasFinally(Last(s)) /\ frames' = gs
      /\ runs' = [runs EXCEPT ![t] = @ + 1]
      /\ UNCHANGED <<program, ref_count, active_exception, ended>>
  BY <1>1, <1>2 DEF UnwindTry, FinallyBlock, Left, Inner
<1>4. /\ Running(frames, runs, active_exception, ref_count, n, r)
      /\ c # <<>> /\ c[1].op = "unwind" /\ ended = "no" /\ r.operand = Null
      /\ Level(s, c, runs) /\ s = r.scopes /\ runs \in [Try -> Nat]
  BY <1>1, <1>3, Executing
<1>5. PICK m, a : m = l - 1 /\ a = active_exception
  OBVIOUS
<1>6. s \in Scopings /\ s # <<>>
  BY <1>4, LevelType
<1>7. /\ Prefix(s, y, m) /\ y \in Scopings /\ m + 1 = l /\ m \in Nat /\ Last(s) = s[l] /\ l \in DOMAIN s
      /\ \A j \in m + 1 .. Len(s) : j = l
  BY <1>1, <1>5, <1>6, FrontKept
<1>8. NoClause(s, a)
  <2>1. NotCaught
    BY DEF UnwindTry
  <2>2. \/ s[l].kind \notin {"body", "try"}
        \/ s[l].kind = "try" /\ (Careful(In(Front(s), <<>>)) \/ a = Null)
    BY <1>1, <1>5, <1>7, <2>1 DEF NotCaught, Left
  <2> QED
    BY <1>1, <2>2 DEF NoClause
<1>9. EndsIn(c, {"unwind"})
  <2>1. Unwound(s, c, runs, l)
    BY <1>1, <1>4, UnwindFacts
  <2> QED
    BY <2>1 DEF Unwound
<1>10. Running(frames, runs, a, ref_count, n, r)
  BY <1>4, <1>5
<1>11. Flies(frames, a, n, l)
  BY <1>1, <1>4, <1>9, <1>10, FliesNow
<1>12. Unwinding1(s, runs, l)
  BY <1>1, <1>4, <1>10, <1>11, BlockUnwinds
<1>13. Sheltered(frames, n, l - 1)
  BY <1>1, <1>4, <1>8, <1>10, <1>11, ShelterOut
<1>14. UnwindsTry(t, z, runs, rz)
  <2>1. \A j, k \in DOMAIN s : HasFinally(s[j]) /\ HasFinally(s[k]) /\ s[j].of = s[k].of => j = k
    <3>1. Running(frames, runs, active_exception, ref_count, n, r) /\ s = r.scopes
      BY <1>4
    <3> QED
      BY <3>1, RunningOpen
  <2>2. z = Append(Front(s), Scope("finally", t, Null, CleanupOf(Len(s) - 1))) /\ t = Last(s).of
    BY <1>1, <1>2
  <2>3. runs \in [Try -> Nat] /\ Level(s, c, runs) /\ c # <<>> /\ c[1].op = "unwind" /\ HasFinally(Last(s))
    BY <1>3, <1>4
  <2> QED
    BY <1>2, <2>1, <2>2, <2>3, UnwindTryLevel
<1>15. t \in Try /\ runs[t] = 0 /\ Level(z, <<>>, rz) /\ d \in Code /\ rz \in [Try -> Nat]
  <2>1. t \in Try /\ runs[t] = 0 /\ Level(z, <<>>, rz)
    BY <1>14 DEF UnwindsTry
  <2>2. d \in Code
    BY <1>1, <1>5, <1>7 DEF CleanupOf, DecRefSlot, Unwind, Code, Ops
  <2>3. rz \in [Try -> Nat]
    BY <1>2, <1>4
  <2> QED
    BY <2>1, <2>2, <2>3
<1>16. runs' = rz
  BY <1>2, <1>3, <1>4, <1>15
<1>17. FinallyRan(frames, n, runs, rz, t)
  <2>1. l \in DOMAIN r.scopes /\ HasFinally(r.scopes[l]) /\ t = r.scopes[l].of
    BY <1>1, <1>3, <1>4, <1>7
  <2> QED
    BY <1>2, <1>4, <2>1, FinallyOthers
<1>18. Leavable(s, m, rz)
  <2>1. s[l].owns = FALSE /\ (s[l].exc # Null => Habits # {}) /\ rz[s[l].of] = 1
    BY <1>1, <1>7, <1>12, <1>17 DEF Unwinding1, FinallyRan
  <2> QED
    BY <1>7, <2>1 DEF Leavable
<1>19. PushesBlock(s, z, m, runs, rz, x)
  BY <1>1, <1>2, <1>7, <1>15, <1>17, <1>18, FinallyCuts
<1>20. Cuts(s, z, m, runs, rz) /\ Len(z) = l /\ z \in Scopings /\ \A j \in 1 .. m : z[j] = s[j]
  <2>1. Cuts(s, z, m, runs, rz) /\ Len(z) = l /\ z \in Scopings
    BY <1>7, <1>19 DEF PushesBlock
  <2>2. x \in ScopeRecords
    <3>1. Opened(x, "finally", t, Null, d)
      BY <1>1, <1>2, <1>7, <1>15, <1>17, <1>18, FinallyCuts
    <3> QED
      BY <3>1 DEF Opened
  <2>3. \A j \in 1 .. Len(y) : z[j] = y[j]
    BY <1>2, <1>7, <2>2, Pushed
  <2> QED
    BY <1>7, <2>1, <2>3 DEF Prefix
<1>21. <<>> \in Code /\ ~EndsIn(<<>>, {"unwind"})
  BY DEF Code, EndsIn
<1>22. PICK q : Framed(q, r, z, <<>>, r.operand) /\ Replaced(frames, gs, n, q)
  BY <1>1, <1>2, <1>4, <1>20, <1>21, Placed
<1>23. Flying(gs, a) /\ Shelter(gs)
  <2>1. Onward(s, z, <<>>, l)
    BY <1>5, <1>20, <1>21 DEF Onward
  <2>2. PICK o : o = r.operand
    OBVIOUS
  <2>3. Framed(q, r, z, <<>>, o)
    BY <1>22, <2>2
  <2> QED
    BY <1>1, <1>4, <1>10, <1>11, <1>13, <1>22, <2>1, <2>3, FliesOn
<1>24. OthersRun(frames, Len(frames), runs, rz)
  BY <1>1, <1>17 DEF FinallyRan
<1>25. Flying(gs, active_exception) /\ Cuts(Scopes, z, m, runs, rz) /\ Top.operand = Null
  BY <1>1, <1>4, <1>5, <1>20, <1>23
<1> QED
  BY <1>2, <1>3, <1>4, <1>15, <1>16, <1>23, <1>24, <1>25, Moved


(* The exception is caught. *)
Catches(s, z, l, t, o, x) ==
  /\ Len(z) = l /\ DOMAIN z = 1 .. l /\ DOMAIN s = 1 .. l /\ l \in Nat \ {0} /\ z \in Scopings
  /\ \A j \in 1 .. l - 1 : z[j] = s[j] /\ j # l
  /\ z[l] = x /\ Opened(x, "catch", t, o, <<>>)
  /\ s[l].kind = "try" /\ s[l].of = t /\ s[l].owns = FALSE /\ s[l].exc = Null
LEMMA CatchesType ==
  ASSUME NEW s, NEW c, NEW rs, Level(s, c, rs), c # <<>>, c[1].op = "unwind", NEW l, l = Len(s),
         s[l].kind = "try", NEW o \in Obj, NEW t, t = s[l].of,
         NEW x, x = Scope("catch", t, o, <<>>), NEW z, z = Append(Front(s), x)
  PROVE  Catches(s, z, l, t, o, x)
<1>1. s \in Scopings /\ s # <<>> /\ l \in Nat \ {0} /\ DOMAIN s = 1 .. l /\ l \in DOMAIN s
      /\ ScopeOK(s[l]) /\ s[l] \in ScopeRecords
  BY LevelType
<1>2. PICK y, m : y = Front(s) /\ m = l - 1
  OBVIOUS
<1>3. Prefix(s, y, m) /\ y \in Scopings
  BY <1>1, <1>2, FrontKept
<1>4. Opened(x, "catch", t, o, <<>>)
  <2>1. <<>> \in Code
    BY DEF Code
  <2>2. t \in Try \/ t = Null
    BY <1>1 DEF ScopeRecords
  <2>3. "catch" \in Kinds
    BY DEF Kinds
  <2>4. PICK e : e = <<>>
    OBVIOUS
  <2> QED
    BY <2>1, <2>2, <2>3, <2>4, NewScope
<1>5. x \in ScopeRecords
  BY <1>4 DEF Opened
<1>6. /\ z \in Scopings /\ Len(z) = Len(y) + 1 /\ DOMAIN z = 1 .. Len(y) + 1
      /\ \A j \in 1 .. Len(y) : z[j] = y[j]
      /\ z[Len(y) + 1] = x
  BY <1>2, <1>3, <1>5, Pushed
<1>7. Len(y) = l - 1 /\ \A j \in 1 .. l - 1 : y[j] = s[j] /\ j # l
  BY <1>1, <1>2, <1>3 DEF Prefix
<1>8. s[l].owns = FALSE
  <2>1. Unwound(s, c, rs, l)
    BY UnwindFacts
  <2> QED
    BY <2>1 DEF Unwound
<1>9. s[l].exc = Null
  BY <1>1 DEF ScopeOK
<1> QED
  BY <1>1, <1>4, <1>6, <1>7, <1>8, <1>9 DEF Catches

LEMMA CatchStatements ==
  ASSUME NEW s, NEW z, NEW l, NEW t, NEW o, NEW x, Catches(s, z, l, t, o, x), NEW rs
  PROVE  StatementScopes(s, z, rs, rs)
<1>1. \A i \in 1 .. l : i = l \/ (i \in 1 .. l - 1 /\ z[i] = s[i])
  BY DEF Catches
<1>2. /\ DOMAIN s = 1 .. l /\ DOMAIN z = 1 .. l /\ z[l].kind = "catch" /\ z[l].of = t
      /\ s[l].kind = "try" /\ s[l].of = t /\ l \in 1 .. l
  BY DEF Catches, Opened
<1>3. HasFinally(z[l]) <=> HasFinally(s[l])
  BY <1>2 DEF HasFinally
<1>4. \A i \in 1 .. l : HasFinally(z[i]) => SameOpen(z, s, i)
  BY <1>1, <1>2, <1>3 DEF SameOpen
<1>5. \A i \in 1 .. l : HasFinally(s[i]) => SameOpen(s, z, i)
  BY <1>1, <1>2, <1>3 DEF SameOpen
<1>6. \A i \in 1 .. l : z[i].kind = "finally" => SameRun(z, s, i)
  BY <1>1, <1>2 DEF SameRun
<1> QED
  BY <1>2, <1>4, <1>5, <1>6 DEF StatementScopes

(* A frame q that refers to one object more than the frame r. *)
RefersAlso(r, q, x, o, u) ==
  /\ u # o => References(q, u) = References(r, u)
  /\ u = o => x \notin References(r, u) /\ References(q, u) = References(r, u) \cup {x}
SameUse(r, q) == q.operand = r.operand /\ q.obj = r.obj
TakesCaught(s, z, k, o) ==
  /\ DOMAIN z = DOMAIN s /\ k \in DOMAIN s
  /\ \A i \in DOMAIN s : i # k => z[i] = s[i]
  /\ s[k].exc = Null /\ z[k].exc = o
  /\ \A u \in Obj : Held(z, k, u) <=> Held(s, k, u)
LEMMA CaughtAlso ==
  ASSUME NEW r, NEW q, SameUse(r, q), NEW s, s = r.scopes, NEW z, z = q.scopes,
         NEW k, NEW o \in Obj, TakesCaught(s, z, k, o), NEW x, x = <<"caught", k>>, NEW u \in Obj
  PROVE  RefersAlso(r, q, x, o, u)
<1>1. DOMAIN z = DOMAIN s /\ k \in DOMAIN s
  BY DEF TakesCaught
<1>2. \A i \in DOMAIN s : i = k \/ z[i] = s[i]
  BY DEF TakesCaught
<1>3. q.operand = r.operand /\ q.obj = r.obj
  BY DEF SameUse
<1>4. u # Null
  BY NullAssumption
<1>5. \A i \in DOMAIN s : Held(z, i, u) <=> Held(s, i, u)
  BY <1>1, <1>2 DEF TakesCaught, Held
<1>6. \A i \in DOMAIN s : i # k => (Caught(z, i, u) <=> Caught(s, i, u))
  BY <1>1, <1>2 DEF Caught
<1>7. ~Caught(s, k, u) /\ (Caught(z, k, u) <=> u = o)
  BY <1>1, <1>4 DEF TakesCaught, Caught
<1>8. CASE u # o
  <2>1. \A i \in DOMAIN s : Caught(z, i, u) <=> Caught(s, i, u)
    BY <1>6, <1>7, <1>8
  <2>2. ScopesLess(z, s, u) /\ ScopesLess(s, z, u)
    BY <1>1, <1>5, <2>1 DEF ScopesLess
  <2>3. /\ q.operand = u => r.operand = u
        /\ r.operand = u => q.operand = u
        /\ q.obj = u => r.obj = u
        /\ r.obj = u => q.obj = u
        /\ ScopesLess(q.scopes, r.scopes, u) /\ ScopesLess(r.scopes, q.scopes, u)
    BY <1>3, <2>2
  <2>4. References(q, u) \subseteq References(r, u)
    BY <2>3, ReferencesLess
  <2>5. References(r, u) \subseteq References(q, u)
    BY <2>3, ReferencesLess
  <2> QED
    BY <1>8, <2>4, <2>5 DEF RefersAlso
<1>9. CASE u = o
  <2>1. x \notin References(r, u)
    <3> SUFFICES ASSUME x \in References(r, u) PROVE FALSE
      OBVIOUS
    <3>1. \E i \in DOMAIN s : Caught(s, i, u) /\ <<"caught", k>> = <<"caught", i>>
      BY ReferenceIn
    <3> QED
      BY <1>7, <3>1
  <2>2. \A e : e \in References(q, u) <=> e \in References(r, u) \cup {x}
    <3> SUFFICES ASSUME NEW e
                 PROVE  e \in References(q, u) <=> e \in References(r, u) \cup {x}
      OBVIOUS
    <3>1. e \in References(q, u) <=>
           \/ \E i \in DOMAIN s : Held(z, i, u) /\ e = <<"variable", i>>
           \/ \E i \in DOMAIN s : Caught(z, i, u) /\ e = <<"caught", i>>
           \/ r.operand = u /\ e = <<"operand", 0>>
           \/ r.obj = u /\ e = <<"destructor", 0>>
      BY <1>1, <1>3, ReferenceIn
    <3>2. e \in References(r, u) <=>
           \/ \E i \in DOMAIN s : Held(s, i, u) /\ e = <<"variable", i>>
           \/ \E i \in DOMAIN s : Caught(s, i, u) /\ e = <<"caught", i>>
           \/ r.operand = u /\ e = <<"operand", 0>>
           \/ r.obj = u /\ e = <<"destructor", 0>>
      BY ReferenceIn
    <3>3. (\E i \in DOMAIN s : Caught(z, i, u) /\ e = <<"caught", i>>) <=>
           (\E i \in DOMAIN s : Caught(s, i, u) /\ e = <<"caught", i>>) \/ e = <<"caught", k>>
      BY <1>1, <1>6, <1>7, <1>9
    <3>4. (\E i \in DOMAIN s : Held(z, i, u) /\ e = <<"variable", i>>) <=>
           (\E i \in DOMAIN s : Held(s, i, u) /\ e = <<"variable", i>>)
      BY <1>5
    <3> QED
      BY <3>1, <3>2, <3>3, <3>4
  <2> QED
    BY <1>9, <2>1, <2>2 DEF RefersAlso
<1> QED
  BY <1>8, <1>9

TakesVariable(s, z, k, o) ==
  /\ DOMAIN z = DOMAIN s /\ k \in DOMAIN s
  /\ \A i \in DOMAIN s : i # k => z[i] = s[i]
  /\ s[k].owns = FALSE /\ z[k].owns = TRUE /\ z[k].slot = o /\ z[k].exc = s[k].exc
LEMMA VariableAlso ==
  ASSUME NEW r, NEW q, SameUse(r, q), NEW s, s = r.scopes, NEW z, z = q.scopes,
         NEW k, NEW o \in Obj, TakesVariable(s, z, k, o), NEW x, x = <<"variable", k>>, NEW u \in Obj
  PROVE  RefersAlso(r, q, x, o, u)
<1>1. DOMAIN z = DOMAIN s /\ k \in DOMAIN s
  BY DEF TakesVariable
<1>2. \A i \in DOMAIN s : i = k \/ z[i] = s[i]
  BY DEF TakesVariable
<1>3. q.operand = r.operand /\ q.obj = r.obj
  BY DEF SameUse
<1>4. u # Null
  BY NullAssumption
<1>5. \A i \in DOMAIN s : Caught(z, i, u) <=> Caught(s, i, u)
  BY <1>1, <1>2 DEF TakesVariable, Caught
<1>6. \A i \in DOMAIN s : i # k => (Held(z, i, u) <=> Held(s, i, u))
  BY <1>1, <1>2 DEF Held
<1>7. ~Held(s, k, u) /\ (Held(z, k, u) <=> u = o)
  BY <1>1, <1>4 DEF TakesVariable, Held
<1>8. CASE u # o
  <2>1. \A i \in DOMAIN s : Held(z, i, u) <=> Held(s, i, u)
    BY <1>6, <1>7, <1>8
  <2>2. ScopesLess(z, s, u) /\ ScopesLess(s, z, u)
    BY <1>1, <1>5, <2>1 DEF ScopesLess
  <2>3. /\ q.operand = u => r.operand = u
        /\ r.operand = u => q.operand = u
        /\ q.obj = u => r.obj = u
        /\ r.obj = u => q.obj = u
        /\ ScopesLess(q.scopes, r.scopes, u) /\ ScopesLess(r.scopes, q.scopes, u)
    BY <1>3, <2>2
  <2>4. References(q, u) \subseteq References(r, u)
    BY <2>3, ReferencesLess
  <2>5. References(r, u) \subseteq References(q, u)
    BY <2>3, ReferencesLess
  <2> QED
    BY <1>8, <2>4, <2>5 DEF RefersAlso
<1>9. CASE u = o
  <2>1. x \notin References(r, u)
    <3> SUFFICES ASSUME x \in References(r, u) PROVE FALSE
      OBVIOUS
    <3>1. \E i \in DOMAIN s : Held(s, i, u) /\ <<"variable", k>> = <<"variable", i>>
      BY ReferenceIn
    <3> QED
      BY <1>7, <3>1
  <2>2. \A e : e \in References(q, u) <=> e \in References(r, u) \cup {x}
    <3> SUFFICES ASSUME NEW e
                 PROVE  e \in References(q, u) <=> e \in References(r, u) \cup {x}
      OBVIOUS
    <3>1. e \in References(q, u) <=>
           \/ \E i \in DOMAIN s : Held(z, i, u) /\ e = <<"variable", i>>
           \/ \E i \in DOMAIN s : Caught(z, i, u) /\ e = <<"caught", i>>
           \/ r.operand = u /\ e = <<"operand", 0>>
           \/ r.obj = u /\ e = <<"destructor", 0>>
      BY <1>1, <1>3, ReferenceIn
    <3>2. e \in References(r, u) <=>
           \/ \E i \in DOMAIN s : Held(s, i, u) /\ e = <<"variable", i>>
           \/ \E i \in DOMAIN s : Caught(s, i, u) /\ e = <<"caught", i>>
           \/ r.operand = u /\ e = <<"operand", 0>>
           \/ r.obj = u /\ e = <<"destructor", 0>>
      BY ReferenceIn
    <3>3. (\E i \in DOMAIN s : Held(z, i, u) /\ e = <<"variable", i>>) <=>
           (\E i \in DOMAIN s : Held(s, i, u) /\ e = <<"variable", i>>) \/ e = <<"variable", k>>
      BY <1>1, <1>6, <1>7, <1>9
    <3>4. (\E i \in DOMAIN s : Caught(z, i, u) /\ e = <<"caught", i>>) <=>
           (\E i \in DOMAIN s : Caught(s, i, u) /\ e = <<"caught", i>>)
      BY <1>5
    <3> QED
      BY <3>1, <3>2, <3>3, <3>4
  <2> QED
    BY <1>9, <2>1, <2>2 DEF RefersAlso
<1> QED
  BY <1>8, <1>9

LEMMA OperandAlso ==
  ASSUME NEW r, NEW q, q.scopes = r.scopes, q.obj = r.obj, r.operand = Null,
         NEW o \in Obj, q.operand = o, NEW x, x = <<"operand", 0>>, NEW u \in Obj
  PROVE  RefersAlso(r, q, x, o, u)
<1>1. u # Null
  BY NullAssumption
<1>2. \A i \in DOMAIN r.scopes : <<"operand", 0>> # <<"variable", i>> /\ <<"operand", 0>> # <<"caught", i>>
  OBVIOUS
<1>3. <<"operand", 0>> # <<"destructor", 0>>
  OBVIOUS
<1>4. x \notin References(r, u)
  BY <1>1, <1>2, <1>3, ReferenceIn
<1>5. \A e : e \in References(q, u) <=> e \in References(r, u) \/ (u = o /\ e = x)
  <2> SUFFICES ASSUME NEW e
               PROVE  e \in References(q, u) <=> e \in References(r, u) \/ (u = o /\ e = x)
    OBVIOUS
  <2>1. e \in References(q, u) <=>
         \/ \E i \in DOMAIN r.scopes : Held(r.scopes, i, u) /\ e = <<"variable", i>>
         \/ \E i \in DOMAIN r.scopes : Caught(r.scopes, i, u) /\ e = <<"caught", i>>
         \/ o = u /\ e = <<"operand", 0>>
         \/ r.obj = u /\ e = <<"destructor", 0>>
    BY ReferenceIn
  <2>2. e \in References(r, u) <=>
         \/ \E i \in DOMAIN r.scopes : Held(r.scopes, i, u) /\ e = <<"variable", i>>
         \/ \E i \in DOMAIN r.scopes : Caught(r.scopes, i, u) /\ e = <<"caught", i>>
         \/ r.obj = u /\ e = <<"destructor", 0>>
    BY <1>1, ReferenceIn
  <2> QED
    BY <2>1, <2>2
<1> QED
  BY <1>4, <1>5 DEF RefersAlso

(* Its object is released once, and the variable of the clause refers to it. *)
LEMMA CatchReferences ==
  ASSUME NEW s, NEW z, NEW l, NEW t, NEW o \in Obj, NEW x, Catches(s, z, l, t, o, x),
         NEW r, s = r.scopes, NEW c, NEW q, Framed(q, r, z, c, r.operand), NEW u \in Obj,
         NEW ref, ref = <<"caught", l>>
  PROVE  RefersAlso(r, q, ref, o, u)
<1>1. \A i \in 1 .. l : i = l \/ (i \in 1 .. l - 1 /\ z[i] = s[i])
  BY DEF Catches
<1>2. /\ DOMAIN s = 1 .. l /\ DOMAIN z = 1 .. l /\ z[l].owns = FALSE /\ z[l].exc = o
      /\ s[l].owns = FALSE /\ s[l].exc = Null /\ l \in 1 .. l
  BY DEF Catches, Opened
<1>3. SameUse(r, q) /\ z = q.scopes
  BY DEF SameUse, Framed
<1>4. TakesCaught(s, z, l, o)
  BY <1>1, <1>2 DEF TakesCaught, Held
<1> QED
  BY <1>3, <1>4, CaughtAlso


(* An object loses a reference. *)
Lowered(count, cnt, o) ==
  /\ cnt \in [Obj -> Nat] /\ cnt[o] = count[o] - 1
  /\ \A u \in Obj : u # o => cnt[u] = count[u]
LEMMA DecreasedOne ==
  ASSUME NEW o \in Obj, ref_count \in [Obj -> Nat], ref_count[o] > 0, NEW cnt, cnt = Decreased(o)
  PROVE  Lowered(ref_count, cnt, o)
<1>1. o # Null
  BY NullAssumption
<1>2. cnt = [ref_count EXCEPT ![o] = ref_count[o] - 1]
  BY <1>1 DEF Decreased
<1>3. ref_count[o] - 1 \in Nat
  OBVIOUS
<1> QED
  BY <1>2, <1>3 DEF Lowered

LEMMA CatchCounted ==
  ASSUME NEW fs, NEW rs, NEW o \in Obj, NEW count, NEW n, NEW r, Running(fs, rs, o, count, n, r),
         NEW s, s = r.scopes, NEW z, NEW l, NEW t, NEW x, Catches(s, z, l, t, o, x),
         NEW c, NEW q, Framed(q, r, z, c, r.operand), NEW gs, Replaced(fs, gs, n, q),
         NEW cnt, count[o] > 0 => Lowered(count, cnt, o)
  PROVE  Counted(gs, Null, cnt) /\ count[o] > 0
<1>1. /\ 0 \notin DOMAIN fs /\ Counted(fs, o, count) /\ r = fs[n]
  BY RunningType
<1>2. o # Null
  BY NullAssumption
<1>3. PICK k, j : k = count[o] /\ j = k - 2
  OBVIOUS
<1>4. k \in Nat /\ k > 1 /\ j \in Nat /\ Covers(j, OwnersIn(fs, Null, o))
  <2>1. Covers(k, OwnersIn(fs, o, o))
    BY <1>1, <1>3 DEF Counted
  <2>2. k \in Nat /\ k > 1 /\ k - 2 \in Nat /\ Covers(k - 2, OwnersIn(fs, Null, o))
    BY <1>1, <1>2, <2>1, CountCaught
  <2> QED
    BY <1>3, <2>2
<1>5. Lowered(count, cnt, o) /\ count[o] > 0
  BY <1>3, <1>4
<1>6. ASSUME NEW u \in Obj PROVE Covers(cnt[u], OwnersIn(gs, Null, u))
  <2>1. CASE u = o
    <3>1. PICK e : e = <<"caught", l>>
      OBVIOUS
    <3>2. e \notin References(fs[n], o) /\ References(q, o) = References(fs[n], o) \cup {e}
      <4>1. RefersAlso(r, q, e, o, o)
        BY <3>1, CatchReferences
      <4> QED
        BY <1>1, <4>1 DEF RefersAlso
    <3>3. Covers(j + 1, OwnersIn(gs, Null, o))
      BY <1>4, <3>2, CountMore
    <3>4. cnt[o] = j + 1
      BY <1>3, <1>4, <1>5 DEF Lowered
    <3> QED
      BY <2>1, <3>3, <3>4
  <2>2. CASE u # o
    <3>1. u # Null
      BY NullAssumption
    <3>2. PICK v : v = count[u]
      OBVIOUS
    <3>3. Covers(v, OwnersIn(fs, Null, u))
      <4>1. Covers(v, OwnersIn(fs, o, u))
        BY <1>1, <3>2 DEF Counted
      <4>2. OwnersIn(fs, Null, u) = OwnersIn(fs, o, u)
        BY <2>2, <3>1, CountOther
      <4> QED
        BY <4>1, <4>2
    <3>4. References(q, u) = References(fs[n], u)
      <4>1. RefersAlso(r, q, <<"caught", l>>, o, u)
        BY CatchReferences
      <4> QED
        BY <1>1, <2>2, <4>1 DEF RefersAlso
    <3>5. References(q, u) \subseteq References(fs[n], u) /\ References(fs[n], u) \subseteq References(q, u)
      BY <3>4
    <3>6. Covers(v, OwnersIn(gs, Null, u))
      BY <3>3, <3>5, CountLess
    <3>7. cnt[u] = v
      BY <1>5, <2>2, <3>2 DEF Lowered
    <3> QED
      BY <3>6, <3>7
  <2> QED
    BY <2>1, <2>2
<1> QED
  BY <1>5, <1>6 DEF Counted

LEMMA CatchExceptionStep ==
  ASSUME IInv, CatchException
  PROVE  IInv'
<1>1. PICK n, r, s, c, l, t, o, x : /\ n = Len(frames) /\ r = Top /\ s = Scopes /\ c = r.todo /\ l = Len(s)
                                    /\ t = s[l].of /\ o = active_exception
                                    /\ x = Scope("catch", t, o, <<>>)
  OBVIOUS
<1>2. PICK z, gs, cnt : z = Append(Front(s), x) /\ gs = In(z, <<>>) /\ cnt = Decreased(o)
  OBVIOUS
<1>3. /\ Executes("unwind") /\ o # Null
  BY <1>1 DEF CatchException
<1>4. /\ Running(frames, runs, active_exception, ref_count, n, r)
      /\ c # <<>> /\ c[1].op = "unwind" /\ ended = "no" /\ r.operand = Null
      /\ Level(s, c, runs) /\ s = r.scopes /\ runs \in [Try -> Nat]
      /\ active_exception \in Obj \cup {Null} /\ ref_count \in [Obj -> Nat]
  BY <1>1, <1>3, Executing
<1>5. s \in Scopings /\ s # <<>> /\ Last(s) = s[l]
  BY <1>1, <1>4, LevelType, FrontCut
<1>6. /\ frames' = gs /\ ref_count' = cnt /\ active_exception' = Null /\ s[l].kind = "try"
      /\ UNCHANGED <<program, runs, ended>>
  BY <1>1, <1>2, <1>5 DEF CatchException, Left
<1>7. o \in Obj
  BY <1>1, <1>3, <1>4
<1>8. Running(frames, runs, o, ref_count, n, r)
  BY <1>1, <1>4
<1>9. Catches(s, z, l, t, o, x)
  BY <1>1, <1>2, <1>4, <1>6, <1>7, CatchesType
<1>10. Level(z, <<>>, runs)
  <2>1. Last(s).kind = "try" /\ t = Last(s).of /\ z = Append(Front(s), Scope("catch", t, o, <<>>))
    BY <1>1, <1>2, <1>5, <1>6
  <2> QED
    BY <1>4, <1>7, <2>1, CatchLevel
<1>11. PICK d, w : d = <<>> /\ w = r.operand
  OBVIOUS
<1>12. d \in Code /\ z \in Scopings /\ ~EndsIn(d, {"unwind"})
  BY <1>9, <1>11 DEF Catches, Code, EndsIn
<1>13. PICK q : Framed(q, r, z, d, w) /\ Replaced(frames, gs, n, q)
  <2>1. gs = In(z, d)
    BY <1>2, <1>11
  <2>2. \E q : /\ Framed(q, r, z, d, r.operand) /\ gs = [frames EXCEPT ![n] = q]
               /\ Replaced(frames, gs, n, q)
    BY <1>1, <1>4, <1>12, <2>1, Placed
  <2> QED
    BY <1>11, <2>2
<1>14. Flies(frames, o, n, l)
  <2>1. Unwound(s, c, runs, l)
    BY <1>1, <1>4, UnwindFacts
  <2>2. EndsIn(r.todo, {"unwind"})
    BY <1>1, <2>1 DEF Unwound
  <2> QED
    BY <1>1, <1>4, <1>8, <2>2, FliesNow
<1>15. OnlyAt(gs, n, l)
  <2>1. Onward(s, z, d, l)
    BY <1>9, <1>12 DEF Onward, Catches
  <2> QED
    BY <1>1, <1>4, <1>8, <1>13, <1>14, <2>1, OnwardAt
<1>16. Flying(gs, Null) /\ Shelter(gs)
  <2>1. ~UnwindsAt(gs, n, l)
    <3>1. gs[n] = q /\ q.scopes = z /\ q.todo = d /\ Len(z) = l /\ l \in Nat /\ z[l].kind = "catch"
      BY <1>9, <1>13 DEF Replaced, Framed, Catches, Opened
    <3> QED
      BY <3>1 DEF UnwindsAt, UnwindsIn
  <2>2. \A f, i \in Nat : ~UnwindsAt(gs, f, i)
    BY <1>15, <2>1 DEF OnlyAt
  <2> QED
    BY <2>2, NoneShelter
<1>17. Framed(q, r, z, d, r.operand) /\ w = Null
  BY <1>4, <1>11, <1>13
<1>18. ref_count[o] > 0 => Lowered(ref_count, cnt, o)
  BY <1>2, <1>4, <1>7, DecreasedOne
<1>19. Counted(gs, Null, cnt) /\ ref_count[o] > 0
  BY <1>4, <1>7, <1>8, <1>9, <1>13, <1>17, <1>18, CatchCounted
<1>20. cnt \in [Obj -> Nat]
  BY <1>18, <1>19 DEF Lowered
<1>21. Statements(gs, runs)
  <2>1. StatementScopes(s, z, runs, runs)
    BY <1>9, CatchStatements
  <2>2. FramesOK(frames, runs) /\ Statements(frames, runs) /\ frames[n] = r
    BY <1>4, RunningType
  <2>3. StatementScopes(frames[n].scopes, q.scopes, runs, runs)
    BY <1>4, <1>13, <2>1, <2>2 DEF Framed
  <2> QED
    BY <1>13, <2>2, <2>3, StatementsReplaced
<1>22. OthersRun(frames, n, runs, runs)
  BY SameOthers
<1>23. PICK b : b = Null
  OBVIOUS
<1>24. /\ b \in Obj \cup {Null} /\ Flying(gs, b) /\ Counted(gs, b, cnt) /\ active_exception' = b
       /\ (w # Null => d = <<DropOperand>>) /\ Level(z, d, runs)
  BY <1>6, <1>10, <1>11, <1>16, <1>17, <1>19, <1>23
<1>25. runs' = runs /\ UNCHANGED <<program, ended>> /\ Shelter(gs) /\ frames' = gs /\ ref_count' = cnt
  BY <1>6, <1>16
<1> QED
  BY <1>4, <1>13, <1>20, <1>21, <1>22, <1>24, <1>25, Continued


(* One object is counted anew. *)
OthersCount(count, cnt, o) ==
  cnt \in [Obj -> Nat] /\ \A u \in Obj : u # o => cnt[u] = count[u]
OthersRefer(r, q, o) == \A u \in Obj : u # o => References(q, u) = References(r, u)
LEMMA CountedBut ==
  ASSUME NEW fs, NEW a, NEW count, Counted(fs, a, count), NEW n, NEW r, r = fs[n], NEW o \in Obj,
         NEW q, NEW gs, Replaced(fs, gs, n, q), OthersRefer(r, q, o),
         NEW cnt, OthersCount(count, cnt, o),
         NEW b, b = a \/ (a \in {o, Null} /\ b \in {o, Null}),
         Covers(cnt[o], OwnersIn(gs, b, o))
  PROVE  Counted(gs, b, cnt)
<1> SUFFICES ASSUME NEW u \in Obj PROVE Covers(cnt[u], OwnersIn(gs, b, u))
  BY DEF Counted
<1>1. CASE u = o
  BY <1>1
<1>2. CASE u # o
  <2>1. u # Null
    BY NullAssumption
  <2>2. PICK v : v = count[u]
    OBVIOUS
  <2>3. Covers(v, OwnersIn(fs, a, u))
    BY <2>2 DEF Counted
  <2>4. Covers(v, OwnersIn(fs, b, u))
    <3>1. CASE b = a
      BY <2>3, <3>1
    <3>2. CASE b # a
      <4>1. a # u /\ b # u
        BY <1>2, <2>1, <3>2
      <4>2. OwnersIn(fs, b, u) = OwnersIn(fs, a, u)
        BY <4>1, CountOther
      <4> QED
        BY <2>3, <4>2
    <3> QED
      BY <3>1, <3>2
  <2>5. References(q, u) \subseteq References(fs[n], u) /\ References(fs[n], u) \subseteq References(q, u)
    BY <1>2 DEF OthersRefer
  <2>6. Covers(v, OwnersIn(gs, b, u))
    BY <2>4, <2>5, CountLess
  <2>7. cnt[u] = v
    BY <1>2, <2>2 DEF OthersCount
  <2> QED
    BY <2>6, <2>7
<1> QED
  BY <1>1, <1>2

(* Nothing else refers to free memory. *)
LEMMA FreshCovers ==
  ASSUME NEW fs, NEW a, NEW count, Counted(fs, a, count), NEW o \in Obj, count[o] = 0
  PROVE  Covers(0, OwnersIn(fs, a, o))
BY DEF Counted

(* Blocks that are not left, and code that does not start to unwind. *)
LEMMA SameStill ==
  ASSUME NEW r, NEW s \in Scopings, s = r.scopes, NEW z \in Scopings, SameBlocks(s, z), Len(z) = Len(s), NEW c,
         EndsIn(c, {"unwind"}) => EndsIn(r.todo, {"unwind"})
  PROVE  StillUnwinds(r, z, c)
<1>1. \A i \in Nat : PrefixAlike(s, z, i)
  BY SameStatements
<1>2. \A i \in DOMAIN z : i \in DOMAIN s /\ z[i].kind = s[i].kind /\ z[i].after = s[i].after
  BY DEF SameBlocks
<1> SUFFICES ASSUME NEW i \in Nat,
                    \/ i = Len(z) + 1 /\ EndsIn(c, {"unwind"})
                    \/ i \in DOMAIN z /\ z[i].kind = "finally" /\ EndsIn(z[i].after, {"unwind"})
             PROVE  UnwindsIn(r, i)
  BY <1>1 DEF StillUnwinds
<1>3. CASE i = Len(z) + 1 /\ EndsIn(c, {"unwind"})
  BY <1>3 DEF UnwindsIn
<1>4. CASE i \in DOMAIN z /\ z[i].kind = "finally" /\ EndsIn(z[i].after, {"unwind"})
  <2>1. i \in DOMAIN s /\ s[i].kind = "finally" /\ EndsIn(s[i].after, {"unwind"})
    BY <1>2, <1>4
  <2> QED
    BY <2>1 DEF UnwindsIn
<1> QED
  BY <1>3, <1>4

(* A variable is declared. *)
Declares(s, z, l, o) ==
  /\ z \in Scopings /\ Len(z) = l /\ l \in DOMAIN s /\ SameBlocks(s, z) /\ TakesVariable(s, z, l, o)
LEMMA DeclaresType ==
  ASSUME NEW s, NEW rs, Level(s, <<>>, rs), NEW l, l = Len(s), ~s[l].declared, NEW o \in Obj, NEW z,
         z = [s EXCEPT ![l].slot = o, ![l].owns = TRUE, ![l].declared = TRUE]
  PROVE  Declares(s, z, l, o)
<1>1. /\ s \in Scopings /\ l \in DOMAIN s /\ ScopeOK(s[l]) /\ s[l] \in ScopeRecords
      /\ \A j \in DOMAIN s : s[j] \in ScopeRecords
  BY LevelType
<1>2. Level(z, <<>>, rs)
  BY DeclareLevel
<1>3. z \in Scopings
  BY <1>2, LevelType
<1>4. z = [s EXCEPT ![l] = [s[l] EXCEPT !.slot = o, !.owns = TRUE, !.declared = TRUE]]
  OBVIOUS
<1>5. PICK x : x = [s[l] EXCEPT !.slot = o, !.owns = TRUE, !.declared = TRUE]
  OBVIOUS
<1>6. /\ x.kind = s[l].kind /\ x.of = s[l].of /\ x.after = s[l].after /\ x.exc = s[l].exc
      /\ x.owns = TRUE /\ x.slot = o
  BY <1>1, <1>5 DEF ScopeRecords
<1>7. DOMAIN z = DOMAIN s /\ z[l] = x /\ \A i \in DOMAIN s : i # l => z[i] = s[i]
  BY <1>1, <1>4, <1>5 DEF Scopings
<1>8. Len(z) = l
  BY <1>1, <1>3, <1>7, ScopingType
<1>9. s[l].owns = FALSE
  BY <1>1 DEF ScopeOK, ScopeRecords
<1>10. SameBlocks(s, z)
  BY <1>6, <1>7 DEF SameBlocks
<1>11. TakesVariable(s, z, l, o)
  BY <1>1, <1>6, <1>7, <1>9 DEF TakesVariable
<1> QED
  BY <1>1, <1>3, <1>8, <1>10, <1>11 DEF Declares

LEMMA DeclareStep ==
  ASSUME IInv, NEW o \in Obj, Declare(o)
  PROVE  IInv'
<1>1. PICK n, r, s, l, x, a, d : /\ n = Len(frames) /\ r = Top /\ s = Scopes /\ l = Len(s) /\ x = <<"variable", l>>
                                 /\ a = active_exception /\ d = <<>>
  OBVIOUS
<1>2. PICK z : z = [s EXCEPT ![l].slot = o, ![l].owns = TRUE, ![l].declared = TRUE]
  OBVIOUS
<1>3. PICK gs, cnt : gs = In(z, <<>>) /\ cnt = [ref_count EXCEPT ![o] = 1]
  OBVIOUS
<1>4. /\ Ready /\ ref_count[o] = 0 /\ ~s[l].declared /\ frames' = gs /\ ref_count' = cnt
      /\ UNCHANGED <<program, active_exception, runs, ended>>
  BY <1>1, <1>2, <1>3 DEF Declare, Fresh, Inner
<1>5. /\ Running(frames, runs, a, ref_count, n, r)
      /\ r.todo = <<>> /\ r.operand = Null /\ ended = "no"
      /\ Level(s, <<>>, runs) /\ s = r.scopes
      /\ a \in Obj \cup {Null} /\ ref_count \in [Obj -> Nat] /\ runs \in [Try -> Nat]
  BY <1>1, <1>4, AtReady
<1>6. Level(z, <<>>, runs) /\ s \in Scopings
  <2>1. z = [s EXCEPT ![Len(s)].slot = o, ![Len(s)].owns = TRUE, ![Len(s)].declared = TRUE]
    BY <1>1, <1>2
  <2>2. Level(z, <<>>, runs)
    BY <1>5, <2>1, DeclareLevel
  <2>3. s \in Scopings
    BY <1>5, LevelType
  <2> QED
    BY <2>2, <2>3
<1>7. Declares(s, z, l, o)
  BY <1>1, <1>2, <1>4, <1>5, DeclaresType
<1>8. PICK w : w = r.operand
  OBVIOUS
<1>9. z \in Scopings /\ d \in Code /\ Len(z) = Len(s) /\ SameBlocks(s, z) /\ TakesVariable(s, z, l, o)
      /\ ~EndsIn(d, {"unwind"})
  BY <1>1, <1>7 DEF Declares, Code, EndsIn
<1>10. PICK q : Framed(q, r, z, d, w) /\ Replaced(frames, gs, n, q)
  <2>1. gs = In(z, d)
    BY <1>1, <1>3
  <2>2. \E q : /\ Framed(q, r, z, d, r.operand) /\ gs = [frames EXCEPT ![n] = q]
               /\ Replaced(frames, gs, n, q)
    BY <1>1, <1>5, <1>9, <2>1, Placed
  <2> QED
    BY <1>8, <2>2
<1>11. frames[n] = r /\ Counted(frames, a, ref_count) /\ Flying(frames, a) /\ Shelter(frames)
       /\ FramesOK(frames, runs) /\ Statements(frames, runs)
  BY <1>5, RunningType
<1>12. SameUse(r, q) /\ z = q.scopes /\ d = q.todo
  BY <1>8, <1>10 DEF SameUse, Framed
<1>13. \A u \in Obj : RefersAlso(r, q, x, o, u)
  BY <1>1, <1>5, <1>9, <1>12, VariableAlso
<1>14. OthersRefer(r, q, o) /\ x \notin References(frames[n], o) /\ References(q, o) = References(frames[n], o) \cup {x}
  BY <1>11, <1>13 DEF RefersAlso, OthersRefer
<1>15. cnt \in [Obj -> Nat] /\ OthersCount(ref_count, cnt, o) /\ cnt[o] = 0 + 1
  BY <1>3, <1>5 DEF OthersCount
<1>16. Covers(0, OwnersIn(frames, a, o))
  BY <1>4, <1>11, FreshCovers
<1>17. Covers(0 + 1, OwnersIn(gs, a, o))
  <2>1. PICK k : k = 0
    OBVIOUS
  <2>2. Covers(k + 1, OwnersIn(gs, a, o))
    BY <1>10, <1>14, <1>16, <2>1, CountMore
  <2> QED
    BY <2>1, <2>2
<1>18. Counted(gs, a, cnt)
  <2>1. Covers(cnt[o], OwnersIn(gs, a, o)) /\ (a = a \/ (a \in {o, Null} /\ a \in {o, Null}))
    BY <1>15, <1>17
  <2> QED
    BY <1>10, <1>11, <1>14, <1>15, <2>1, CountedBut
<1>19. Flying(gs, a) /\ Shelter(gs)
  <2>1. StillUnwinds(r, z, d)
    BY <1>5, <1>6, <1>9, SameStill
  <2> QED
    BY <1>10, <1>11, <1>12, <2>1, StillShelter
<1>20. Statements(gs, runs)
  <2>1. StatementScopes(s, z, runs, runs)
    BY <1>9, SameStatements
  <2>2. StatementScopes(frames[n].scopes, q.scopes, runs, runs)
    BY <1>5, <1>11, <1>12, <2>1
  <2> QED
    BY <1>10, <1>11, <2>2, StatementsReplaced
<1>21. OthersRun(frames, n, runs, runs)
  BY SameOthers
<1>22. (w # Null => d = <<DropOperand>>) /\ Level(z, d, runs)
  BY <1>1, <1>5, <1>6, <1>8
<1>23. Running(frames, runs, active_exception, ref_count, n, r)
  BY <1>1, <1>5
<1>24. /\ runs' = runs /\ UNCHANGED <<program, ended>> /\ active_exception' = a /\ frames' = gs /\ ref_count' = cnt
  BY <1>1, <1>4
<1> QED
  BY <1>5, <1>10, <1>15, <1>18, <1>19, <1>20, <1>21, <1>22, <1>23, <1>24, Continued


(* An exception is thrown: nothing else is in flight. *)
LEMMA ThrownOnly ==
  ASSUME NEW fs, NEW a, a = Null, NEW count, NEW rs, NEW n, NEW r, Running(fs, rs, a, count, n, r),
         NEW s, s = r.scopes, NEW z \in Scopings, SameBlocks(s, z), NEW l, l = Len(z),
         NEW c, NEW o, NEW q, Framed(q, r, z, c, o), NEW gs, Replaced(fs, gs, n, q), NEW l1, l1 = l + 1
  PROVE  OnlyAt(gs, n, l1)
<1>1. Flying(fs, a) /\ r = fs[n] /\ n \in DOMAIN fs /\ DOMAIN fs = 1 .. n /\ n \in Nat
  BY RunningType
<1>2. \A f, i \in Nat : ~UnwindsAt(fs, f, i)
  BY <1>1 DEF Flying
<1>3. q.scopes = z /\ q.todo = c
  BY DEF Framed
<1> SUFFICES ASSUME NEW f \in Nat, NEW i \in Nat, UnwindsAt(gs, f, i) PROVE f = n /\ i = l1
  BY DEF OnlyAt
<1>4. f \in DOMAIN gs /\ UnwindsIn(gs[f], i) /\ DOMAIN gs = 1 .. n
  BY DEF UnwindsAt, Replaced
<1>5. f = n
  <2> SUFFICES ASSUME f # n PROVE FALSE
    OBVIOUS
  <2>1. gs[f] = fs[f] /\ f \in DOMAIN fs
    BY <1>1, <1>4 DEF Replaced
  <2>2. UnwindsAt(fs, f, i)
    BY <1>4, <2>1 DEF UnwindsAt
  <2> QED
    BY <1>2, <2>2
<1>6. UnwindsIn(q, i)
  BY <1>4, <1>5 DEF Replaced
<1>7. CASE i \in DOMAIN z /\ z[i].kind = "finally" /\ EndsIn(z[i].after, {"unwind"})
  <2>1. i \in DOMAIN s /\ s[i].kind = "finally" /\ EndsIn(s[i].after, {"unwind"})
    BY <1>7 DEF SameBlocks
  <2>2. UnwindsIn(r, i)
    BY <2>1 DEF UnwindsIn
  <2>3. UnwindsAt(fs, n, i)
    BY <1>1, <2>2 DEF UnwindsAt
  <2> QED
    BY <1>1, <1>2, <2>3
<1>8. CASE i = l1
  BY <1>5, <1>8
<1> QED
  BY <1>3, <1>6, <1>7, <1>8 DEF UnwindsIn

(* What may be thrown. *)
LEMMA ThrowFacts ==
  ASSUME Keeps, MayThrow
  PROVE  ~Late /\ active_exception = Null
BY DEF Keeps, MayThrow, MayLeave

(* The exception has the two references of active_exception. *)
LEMMA RaisedCounted ==
  ASSUME NEW fs, NEW a, a = Null, NEW count, Counted(fs, a, count), NEW n, NEW r, r = fs[n], NEW o \in Obj,
         NEW q, NEW gs, Replaced(fs, gs, n, q), OthersRefer(r, q, o),
         NEW cnt, OthersCount(count, cnt, o), NEW k, cnt[o] = k + 2, Covers(k, OwnersIn(gs, Null, o))
  PROVE  Counted(gs, o, cnt)
<1>1. 0 \notin DOMAIN gs /\ o # Null
  BY NullAssumption DEF Replaced
<1>2. Covers(k + 2, OwnersIn(gs, o, o))
  BY <1>1, CountThrown
<1>3. PICK b : b = o
  OBVIOUS
<1>4. Covers(cnt[o], OwnersIn(gs, b, o)) /\ (b = a \/ (a \in {o, Null} /\ b \in {o, Null}))
  BY <1>2, <1>3
<1>5. Counted(gs, b, cnt)
  BY <1>4, CountedBut
<1> QED
  BY <1>3, <1>5

LEMMA ThrowStep ==
  ASSUME IInv, Keeps, NEW o \in Obj, Throw(o)
  PROVE  IInv'
<1>1. PICK n, r, s, l, l1, a, c : /\ n = Len(frames) /\ r = Top /\ s = Scopes /\ l = Len(s) /\ l1 = l + 1
                                  /\ a = active_exception /\ c = CleanupOf(l)
  OBVIOUS
<1>2. PICK gs, cnt : gs = In(s, c) /\ cnt = [ref_count EXCEPT ![o] = 2]
  OBVIOUS
<1>3. /\ Ready /\ ref_count[o] = 0 /\ ~Late /\ a = Null /\ Careful(frames)
      /\ frames' = gs /\ ref_count' = cnt /\ active_exception' = o
      /\ UNCHANGED <<program, runs, ended>>
  <2>1. MayThrow /\ "local" \notin Habits
    BY DEF Throw, Keeps
  <2>2. ~Late /\ a = Null
    BY <1>1, <2>1, ThrowFacts
  <2>3. o \in Fresh
    BY <2>1 DEF Throw
  <2>4. Raise(o, 2) /\ frames' = gs
    BY <1>1, <1>2, <2>3 DEF Throw, Inner
  <2>5. ref_count' = cnt /\ active_exception' = o /\ UNCHANGED <<program, runs, ended>>
    BY <1>2, <2>4 DEF Raise
  <2> QED
    BY <2>2, <2>3, <2>4, <2>5 DEF Throw, Fresh
<1>4. /\ Running(frames, runs, a, ref_count, n, r)
      /\ r.todo = <<>> /\ r.operand = Null /\ ended = "no"
      /\ Level(s, <<>>, runs) /\ s = r.scopes
      /\ ref_count \in [Obj -> Nat] /\ runs \in [Try -> Nat]
  BY <1>1, <1>3, AtReady
<1>5. Level(s, c, runs) /\ s \in Scopings /\ c \in Code
  <2>1. \A j \in DOMAIN s : s[j].declared \/ s[j].slot = Null
    BY <1>1, <1>3, NotLate
  <2>2. Level(s, CleanupOf(Len(s)), runs)
    BY <1>4, <2>1, ThrowLevel
  <2> QED
    BY <1>1, <2>2, LevelType
<1>6. PICK w : w = r.operand
  OBVIOUS
<1>7. PICK q : Framed(q, r, s, c, w) /\ Replaced(frames, gs, n, q)
  <2>1. \E q : /\ Framed(q, r, s, c, r.operand) /\ gs = [frames EXCEPT ![n] = q]
               /\ Replaced(frames, gs, n, q)
    BY <1>1, <1>2, <1>4, <1>5, Placed
  <2> QED
    BY <1>6, <2>1
<1>8. frames[n] = r /\ Counted(frames, a, ref_count)
       /\ FramesOK(frames, runs) /\ Statements(frames, runs) /\ frames \in Seq(FrameRecords) /\ n \in DOMAIN frames
  BY <1>4, RunningType
<1>9. q.operand = r.operand /\ q.obj = r.obj /\ s = q.scopes /\ c = q.todo
  BY <1>6, <1>7 DEF Framed
<1>10. SameBlocks(s, s)
  BY NothingMoved
<1>11. OnlyAt(gs, n, l1)
  BY <1>1, <1>3, <1>4, <1>5, <1>7, <1>10, ThrownOnly
<1>12. Sheltered(gs, n, l)
  <2>1. Sheltered(frames, n, l)
    BY <1>1, <1>3, <1>4, <1>8, CarefulAll
  <2>2. l \in Nat /\ l1 \in Nat /\ l1 - 1 = l
    BY <1>1, <1>4, LevelType
  <2>3. PrefixAlike(s, s, l1)
    BY <2>2, NothingMoved
  <2>4. n = n => PrefixAlike(frames[n].scopes, q.scopes, l1)
    BY <1>4, <1>8, <1>9, <2>3
  <2>5. n \in DOMAIN gs /\ n \in Nat
    BY <1>7 DEF Replaced
  <2>6. AlikeUpTo(frames, gs, n, l1 - 1)
    BY <1>7, <2>2, <2>4, <2>5, ReplacedAlike
  <2> QED
    BY <2>1, <2>2, <2>6, ShelteredAlike
<1>13. Flying(gs, o) /\ Shelter(gs)
  <2>1. o # Null
    BY NullAssumption
  <2>2. l = l1 - 1
    BY <1>1, <1>4, LevelType
  <2> QED
    BY <1>11, <1>12, <2>1, <2>2, OneShelter
<1>14. \A u \in Obj : References(q, u) = References(r, u)
  BY <1>4, <1>9 DEF References
<1>15. Counted(gs, o, cnt) /\ cnt \in [Obj -> Nat]
  <2>1. Covers(0, OwnersIn(frames, a, o))
    BY <1>3, <1>8, FreshCovers
  <2>2. PICK k : k = 0
    OBVIOUS
  <2>3. References(q, o) \subseteq References(frames[n], o) /\ References(frames[n], o) \subseteq References(q, o)
    BY <1>8, <1>14
  <2>4. Covers(k, OwnersIn(gs, a, o))
    BY <1>7, <2>1, <2>2, <2>3, CountLess
  <2>5. Covers(k, OwnersIn(gs, Null, o))
    BY <1>3, <2>4
  <2>6. OthersRefer(r, q, o)
    BY <1>14 DEF OthersRefer
  <2>7. OthersCount(ref_count, cnt, o) /\ cnt[o] = k + 2 /\ cnt \in [Obj -> Nat]
    BY <1>2, <1>4, <2>2 DEF OthersCount
  <2>8. Counted(gs, o, cnt)
    BY <1>3, <1>7, <1>8, <2>5, <2>6, <2>7, RaisedCounted
  <2> QED
    BY <2>7, <2>8
<1>16. Statements(gs, runs)
  <2>1. StatementScopes(s, s, runs, runs)
    BY <1>10, SameStatements
  <2>2. StatementScopes(frames[n].scopes, q.scopes, runs, runs)
    BY <1>4, <1>8, <1>9, <2>1
  <2> QED
    BY <1>7, <1>8, <2>2, StatementsReplaced
<1>17. OthersRun(frames, n, runs, runs)
  BY SameOthers
<1>18. w # Null => c = <<DropOperand>>
  BY <1>4, <1>6
<1>19. /\ Running(frames, runs, active_exception, ref_count, n, r) /\ o \in Obj \cup {Null}
       /\ runs' = runs /\ UNCHANGED <<program, ended>> /\ active_exception' = o /\ frames' = gs /\ ref_count' = cnt
  BY <1>1, <1>3, <1>4
<1> QED
  BY <1>4, <1>5, <1>7, <1>13, <1>15, <1>16, <1>17, <1>18, <1>19, Continued


(* The exception that a clause caught is thrown again. *)
LEMMA ShelterExtend ==
  ASSUME NEW fs, NEW g, NEW m, Sheltered(fs, g, m), NEW h, NEW k,
         \A f, i \in Nat : Place(fs, f, i) /\ BarrierAt(fs, f, i) /\ UpTo(f, i, h, k) => UpTo(f, i, g, m),
         \A f, i \in Nat : UpTo(f, i, g, m) => UpTo(f, i, h, k)
  PROVE  Sheltered(fs, h, k)
<1> SUFFICES ASSUME NEW f \in Nat, NEW i \in Nat, Place(fs, f, i), BarrierAt(fs, f, i), UpTo(f, i, h, k)
             PROVE  TryAbove(fs, f, i, h, k)
  BY DEF Sheltered
<1>1. TryAbove(fs, f, i, g, m)
  BY DEF Sheltered
<1> QED
  BY <1>1 DEF TryAbove

Rethrows(s, z, i, l, o) ==
  /\ z \in Scopings /\ Len(z) = l /\ DOMAIN z = 1 .. l /\ DOMAIN s = 1 .. l /\ l \in Nat
  /\ i \in 2 .. l /\ SameBlocks(s, z) /\ TakesCaught(z, s, i, o)
  /\ \A j \in 1 .. i - 1 : z[j] = s[j]
  /\ z[i].kind = "catch" /\ z[i].exc = Null
  /\ \A j \in i + 1 .. l : z[j].kind \notin {"body", "try", "catch", "finally"}
LEMMA RethrowsType ==
  ASSUME NEW s, NEW rs, Level(s, <<>>, rs), NEW l, l = Len(s), NEW i \in DOMAIN s, NEW o \in Obj, o = s[i].exc,
         \A j \in i + 1 .. l : s[j].kind \notin {"try", "catch", "finally"},
         NEW z, z = [s EXCEPT ![i].exc = Null]
  PROVE  Rethrows(s, z, i, l, o)
<1>1. /\ s \in Scopings /\ l \in Nat \ {0} /\ DOMAIN s = 1 .. l
      /\ \A j \in DOMAIN s : s[j] \in ScopeRecords /\ ScopeOK(s[j]) /\ (s[j].kind = "body" <=> j = 1)
  BY LevelType
<1>2. s[i].kind = "catch" /\ i # 1
  <2>1. o # Null
    BY NullAssumption
  <2> QED
    BY <1>1, <2>1 DEF ScopeOK
<1>3. PICK x : x = [s[i] EXCEPT !.exc = Null]
  OBVIOUS
<1>4. /\ x \in ScopeRecords /\ x.exc = Null /\ x.kind = s[i].kind /\ x.of = s[i].of /\ x.after = s[i].after
      /\ x.owns = s[i].owns /\ x.slot = s[i].slot
  BY <1>1, <1>3 DEF ScopeRecords
<1>5. z = [s EXCEPT ![i] = x]
  BY <1>3
<1>6. z \in Scopings /\ DOMAIN z = DOMAIN s /\ z[i] = x /\ \A j \in DOMAIN s : j # i => z[j] = s[j]
  BY <1>1, <1>4, <1>5 DEF Scopings
<1>7. Len(z) = l
  BY <1>1, <1>6, ScopingType
<1>8. SameBlocks(s, z)
  BY <1>4, <1>6 DEF SameBlocks
<1>9. TakesCaught(z, s, i, o)
  BY <1>4, <1>6 DEF TakesCaught, Held
<1>10. i \in 2 .. l
  BY <1>1, <1>2
<1>11. \A j \in 1 .. i - 1 : j \in DOMAIN s /\ j # i
  BY <1>1
<1>12. \A j \in i + 1 .. l : j \in DOMAIN s /\ j # i /\ j # 1
  BY <1>1, <1>10
<1>13. \A j \in i + 1 .. l : z[j].kind \notin {"body", "try", "catch", "finally"}
  BY <1>1, <1>6, <1>12
<1> QED
  BY <1>1, <1>2, <1>4, <1>6, <1>7, <1>8, <1>9, <1>10, <1>11, <1>13 DEF Rethrows

(* The blocks that enclose the clause are those the exception goes to. *)
LEMMA CutAlike ==
  ASSUME NEW s \in Scopings, NEW z, NEW i, NEW l, NEW o, Rethrows(s, z, i, l, o), NEW y, y = SubSeq(s, 1, i - 1)
  PROVE  PrefixAlike(y, z, i) /\ y \in Scopings /\ Len(y) = i - 1
<1>1. /\ DOMAIN z = 1 .. l /\ DOMAIN s = 1 .. l /\ l \in Nat /\ i \in 2 .. l
      /\ \A j \in 1 .. i - 1 : z[j] = s[j]
  BY DEF Rethrows
<1>2. PICK j : j = i - 1
  OBVIOUS
<1>3. j \in 0 .. Len(s)
  BY <1>1, <1>2, ScopingType
<1>4. y \in Scopings /\ Len(y) = j /\ DOMAIN y = 1 .. j /\ \A k \in 1 .. j : y[k] = s[k]
  BY <1>2, <1>3, CutAt
<1>5. \A k \in Nat : k < i => (k \in 1 .. j <=> k \in 1 .. l)
  BY <1>1, <1>2
<1>6. \A k \in Nat : k < i => (k \in DOMAIN y <=> k \in DOMAIN z) /\ (k \in DOMAIN y => z[k] = y[k])
  BY <1>1, <1>2, <1>4, <1>5
<1>7. PrefixAlike(y, z, i)
  BY <1>6 DEF PrefixAlike
<1> QED
  BY <1>2, <1>4, <1>7

LEMMA RethrowShelter ==
  ASSUME NEW fs \in Seq(FrameRecords), fs # <<>>, NEW n, n = Len(fs), NEW r, r = fs[n], NEW s, s = r.scopes,
         NEW z, NEW i, NEW l, NEW o, Rethrows(s, z, i, l, o),
         Careful([fs EXCEPT ![n] = [r EXCEPT !.scopes = SubSeq(s, 1, i - 1)]]),
         NEW q, q.scopes = z, NEW gs, Replaced(fs, gs, n, q)
  PROVE  Sheltered(gs, n, l)
<1>1. PICK y, p, hs : y = SubSeq(s, 1, i - 1) /\ p = [r EXCEPT !.scopes = y] /\ hs = [fs EXCEPT ![n] = p]
  OBVIOUS
<1>2. r \in FrameRecords /\ s \in Scopings /\ n \in Nat
  BY FramesType, FrameFields DEF Replaced
<1>3. PrefixAlike(y, z, i) /\ y \in Scopings /\ Len(y) = i - 1
  BY <1>1, <1>2, CutAlike
<1>4. p \in FrameRecords /\ p.how = r.how /\ p.obj = r.obj /\ p.operand = r.operand /\ p.scopes = y
  BY <1>1, <1>2, <1>3 DEF FrameRecords
<1>5. Replaced(fs, hs, n, p)
  BY <1>1, <1>4, ReplaceFrame
<1>6. PICK m : m = i - 1
  OBVIOUS
<1>7. hs \in Seq(FrameRecords) /\ n = Len(hs) /\ m = Len(hs[n].scopes) /\ hs[n].scopes = y
  BY <1>3, <1>4, <1>5, <1>6 DEF Replaced
<1>8. Careful(hs)
  BY <1>1
<1>9. Sheltered(hs, n, m)
  BY <1>7, <1>8, CarefulAll
<1>10. Replaced(hs, gs, n, q)
  <2>1. /\ n \in Nat \ {0} /\ Len(hs) = n /\ DOMAIN hs = 1 .. n /\ n \in DOMAIN hs /\ hs[n] = p
        /\ \A f \in 1 .. n : f # n => hs[f] = fs[f]
        /\ \A f \in 1 .. n : hs[f].how = fs[f].how
    BY <1>5 DEF Replaced
  <2>2. q.how = fs[n].how /\ q.obj = fs[n].obj
    BY DEF Replaced
  <2> QED
    BY <1>4, <2>1, <2>2 DEF Replaced
<1>11. AlikeUpTo(hs, gs, n, i - 1)
  <2>1. i \in Nat /\ n \in DOMAIN gs
    BY DEF Rethrows, Replaced
  <2>2. n = n => PrefixAlike(hs[n].scopes, q.scopes, i)
    BY <1>3, <1>7
  <2> QED
    BY <1>2, <1>10, <2>1, <2>2, ReplacedAlike
<1>12. Sheltered(gs, n, m)
  BY <1>6, <1>9, <1>11, ShelteredAlike
<1>13. gs[n] = q /\ l \in Nat /\ i \in 2 .. l
  BY DEF Replaced, Rethrows
<1>14. \A j \in i .. l : ~BarrierAt(gs, n, j)
  <2> SUFFICES ASSUME NEW j \in i .. l, BarrierAt(gs, n, j) PROVE FALSE
    OBVIOUS
  <2>1. Barrier(gs, <<n, j>>) /\ (z[j].kind = "catch" => z[j].exc # Null)
    BY <1>13 DEF BarrierAt
  <2>2. <<n, j>>[1] = n /\ <<n, j>>[2] = j
    OBVIOUS
  <2>3. z[j].kind \in {"body", "finally", "catch"}
    BY <1>13, <2>1, <2>2 DEF Barrier, KindAt, Returning
  <2>4. j = i \/ j \in i + 1 .. l
    BY <1>13
  <2>5. z[i].kind = "catch" /\ z[i].exc = Null
    BY DEF Rethrows
  <2>6. \A k \in i + 1 .. l : z[k].kind \notin {"body", "try", "catch", "finally"}
    BY DEF Rethrows
  <2> QED
    BY <2>1, <2>3, <2>4, <2>5, <2>6
<1>15. \A f, k \in Nat : UpTo(f, k, n, m) => UpTo(f, k, n, l)
  BY <1>2, <1>6, <1>13 DEF UpTo
<1>16. \A f, k \in Nat : UpTo(f, k, n, l) => UpTo(f, k, n, m) \/ (f = n /\ k \in i .. l)
  BY <1>2, <1>6, <1>13 DEF UpTo
<1>17. \A f, k \in Nat : Place(gs, f, k) /\ BarrierAt(gs, f, k) /\ UpTo(f, k, n, l) => UpTo(f, k, n, m)
  BY <1>14, <1>16
<1> QED
  BY <1>12, <1>15, <1>17, ShelterExtend

RaisedOnce(count, cnt, o) == OthersCount(count, cnt, o) /\ cnt[o] = count[o] + 1
LEMMA RethrowCounted ==
  ASSUME NEW fs, NEW a, a = Null, NEW count, Counted(fs, a, count), NEW n, NEW r, r = fs[n], NEW o \in Obj,
         NEW s, s = r.scopes, NEW z, NEW i, NEW l, Rethrows(s, z, i, l, o), count \in [Obj -> Nat],
         NEW q, q.scopes = z, SameUse(r, q), NEW gs, Replaced(fs, gs, n, q),
         NEW cnt, RaisedOnce(count, cnt, o)
  PROVE  Counted(gs, o, cnt)
<1>1. PICK x, k : x = <<"caught", i>> /\ k = count[o]
  OBVIOUS
<1>2. SameUse(q, r) /\ TakesCaught(z, s, i, o)
  BY DEF SameUse, Rethrows
<1>3. \A u \in Obj : RefersAlso(q, r, x, o, u)
  BY <1>1, <1>2, CaughtAlso
<1>4. OthersRefer(r, q, o) /\ x \in References(fs[n], o) /\ References(q, o) = References(fs[n], o) \ {x}
  BY <1>3 DEF RefersAlso, OthersRefer
<1>5. Covers(k, OwnersIn(fs, a, o))
  BY <1>1 DEF Counted
<1>6. k \in Nat /\ k > 0 /\ k - 1 \in Nat /\ Covers(k - 1, OwnersIn(gs, a, o))
  BY <1>4, <1>5, CountTake
<1>7. PICK j : j = k - 1
  OBVIOUS
<1>8. Covers(j, OwnersIn(gs, Null, o)) /\ cnt[o] = j + 2 /\ OthersCount(count, cnt, o)
  BY <1>1, <1>6, <1>7 DEF RaisedOnce
<1> QED
  BY <1>4, <1>8, RaisedCounted


LEMMA RethrowStep ==
  ASSUME IInv, Keeps, NEW i, Rethrow(i)
  PROVE  IInv'
<1>1. PICK n, r, s, l, l1, a, c, o : /\ n = Len(frames) /\ r = Top /\ s = Scopes /\ l = Len(s) /\ l1 = l + 1
                                     /\ a = active_exception /\ c = CleanupOf(l) /\ o = s[i].exc
  OBVIOUS
<1>2. PICK z : z = [s EXCEPT ![i].exc = Null]
  OBVIOUS
<1>3. PICK gs, cnt : gs = In(z, c) /\ cnt = [ref_count EXCEPT ![o] = ref_count[o] + 1]
  OBVIOUS
<1>4. /\ Ready /\ ~Late /\ a = Null /\ i \in DOMAIN s /\ o # Null
      /\ \A j \in i + 1 .. l : s[j].kind \notin {"try", "catch", "finally"}
      /\ Careful([frames EXCEPT ![n] = [r EXCEPT !.scopes = SubSeq(s, 1, i - 1)]])
      /\ frames' = gs /\ ref_count' = cnt /\ active_exception' = o
      /\ UNCHANGED <<program, runs, ended>>
  <2>1. MayThrow
    BY DEF Rethrow
  <2>2. ~Late /\ a = Null
    BY <1>1, <2>1, ThrowFacts
  <2>3. Raise(o, ref_count[o] + 1) /\ frames' = gs
    BY <1>1, <1>2, <1>3 DEF Rethrow, Inner
  <2>4. ref_count' = cnt /\ active_exception' = o /\ UNCHANGED <<program, runs, ended>>
    BY <1>3, <2>3 DEF Raise
  <2>5. Careful([frames EXCEPT ![n] = [r EXCEPT !.scopes = SubSeq(s, 1, i - 1)]])
    BY <1>1 DEF Rethrow, WithTop
  <2>6. Ready /\ i \in DOMAIN s /\ o # Null /\ \A j \in i + 1 .. l : s[j].kind \notin {"try", "catch", "finally"}
    BY <1>1 DEF Rethrow, Inner
  <2> QED
    BY <2>2, <2>3, <2>4, <2>5, <2>6
<1>5. /\ Running(frames, runs, a, ref_count, n, r)
      /\ r.todo = <<>> /\ r.operand = Null /\ ended = "no"
      /\ Level(s, <<>>, runs) /\ s = r.scopes
      /\ ref_count \in [Obj -> Nat] /\ runs \in [Try -> Nat]
  BY <1>1, <1>4, AtReady
<1>6. s \in Scopings /\ DOMAIN s = 1 .. l /\ l \in Nat /\ o \in Obj
  <2>1. s \in Scopings /\ DOMAIN s = 1 .. Len(s) /\ \A j \in DOMAIN s : s[j] \in ScopeRecords
    BY <1>5, LevelType
  <2>2. o \in Obj
    BY <1>1, <1>4, <2>1 DEF ScopeRecords
  <2> QED
    BY <1>1, <2>1, <2>2, ScopingType
<1>7. Level(z, c, runs) /\ z \in Scopings /\ c \in Code
  <2>1. \A j \in DOMAIN s : s[j].declared \/ s[j].slot = Null
    BY <1>1, <1>4, NotLate
  <2>2. \A j \in i + 1 .. Len(s) : s[j].kind # "finally"
    BY <1>1, <1>4
  <2>3. Level(z, CleanupOf(Len(s)), runs)
    BY <1>2, <1>4, <1>5, <2>1, <2>2, RethrowLevel
  <2> QED
    BY <1>1, <2>3, LevelType
<1>8. Rethrows(s, z, i, l, o)
  BY <1>1, <1>2, <1>4, <1>5, <1>6, RethrowsType
<1>9. PICK w : w = r.operand
  OBVIOUS
<1>10. PICK q : Framed(q, r, z, c, w) /\ Replaced(frames, gs, n, q)
  <2>1. \E q : /\ Framed(q, r, z, c, r.operand) /\ gs = [frames EXCEPT ![n] = q]
               /\ Replaced(frames, gs, n, q)
    BY <1>1, <1>3, <1>5, <1>7, Placed
  <2> QED
    BY <1>9, <2>1
<1>11. /\ frames[n] = r /\ Counted(frames, a, ref_count) /\ n = Len(frames) /\ frames # <<>>
       /\ FramesOK(frames, runs) /\ Statements(frames, runs) /\ frames \in Seq(FrameRecords) /\ n \in DOMAIN frames
  BY <1>5, RunningType
<1>12. SameUse(r, q) /\ q.scopes = z
  BY <1>9, <1>10 DEF Framed, SameUse
<1>13. SameBlocks(s, z) /\ Len(z) = l
  BY <1>8 DEF Rethrows
<1>14. OnlyAt(gs, n, l1)
  BY <1>1, <1>4, <1>5, <1>7, <1>10, <1>13, ThrownOnly
<1>15. Sheltered(gs, n, l)
  BY <1>4, <1>5, <1>8, <1>10, <1>11, <1>12, RethrowShelter
<1>16. Flying(gs, o) /\ Shelter(gs)
  <2>1. l = l1 - 1
    BY <1>1, <1>6
  <2> QED
    BY <1>4, <1>14, <1>15, <2>1, OneShelter
<1>17. Counted(gs, o, cnt) /\ cnt \in [Obj -> Nat]
  <2>1. RaisedOnce(ref_count, cnt, o) /\ cnt \in [Obj -> Nat]
    BY <1>3, <1>5, <1>6 DEF RaisedOnce, OthersCount
  <2>2. Counted(gs, o, cnt)
    BY <1>4, <1>5, <1>6, <1>8, <1>10, <1>11, <1>12, <2>1, RethrowCounted
  <2> QED
    BY <2>1, <2>2
<1>18. Statements(gs, runs)
  <2>1. StatementScopes(s, z, runs, runs)
    BY <1>13, SameStatements
  <2>2. StatementScopes(frames[n].scopes, q.scopes, runs, runs)
    BY <1>5, <1>11, <1>12, <2>1
  <2> QED
    BY <1>10, <1>11, <2>2, StatementsReplaced
<1>19. OthersRun(frames, n, runs, runs)
  BY SameOthers
<1>20. w # Null => c = <<DropOperand>>
  BY <1>5, <1>9
<1>21. /\ Running(frames, runs, active_exception, ref_count, n, r) /\ o \in Obj \cup {Null}
       /\ runs' = runs /\ UNCHANGED <<program, ended>> /\ active_exception' = o /\ frames' = gs /\ ref_count' = cnt
  BY <1>1, <1>4, <1>5, <1>6
<1> QED
  BY <1>5, <1>7, <1>10, <1>16, <1>17, <1>18, <1>19, <1>20, <1>21, Continued


(* The last frame keeps its blocks. *)
Sound(gs, rs, b) ==
  FramesOK(gs, rs) /\ Below(gs) /\ Flying(gs, b) /\ Shelter(gs) /\ Statements(gs, rs)
Stays(r, z, c, rs) ==
  /\ SameBlocks(r.scopes, z) /\ Len(z) = Len(r.scopes) /\ Level(z, c, rs)
  /\ EndsIn(c, {"unwind"}) => EndsIn(r.todo, {"unwind"})
LEMMA SoundStays ==
  ASSUME NEW fs, NEW rs, NEW a, Sound(fs, rs, a), NEW n, NEW r, r = fs[n], r.scopes \in Scopings,
         NEW z, NEW c, Stays(r, z, c, rs), NEW o, NEW q, Framed(q, r, z, c, o),
         NEW gs, Replaced(fs, gs, n, q)
  PROVE  Sound(gs, rs, a)
<1>1. /\ FramesOK(fs, rs) /\ Below(fs) /\ Flying(fs, a) /\ Shelter(fs) /\ Statements(fs, rs)
      /\ r = fs[n] /\ r.scopes \in Scopings
  BY DEF Sound
<1>2. SameBlocks(r.scopes, z) /\ Len(z) = Len(r.scopes) /\ Level(z, c, rs)
      /\ (EndsIn(c, {"unwind"}) => EndsIn(r.todo, {"unwind"}))
  BY DEF Stays
<1>3. q.scopes = z /\ q.todo = c
  BY DEF Framed
<1>4. z \in Scopings
  BY <1>2, LevelType
<1>5. FramesOK(gs, rs)
  <2>1. Level(q.scopes, q.todo, rs)
    BY <1>2, <1>3
  <2>2. OthersRun(fs, n, rs, rs)
    BY SameOthers
  <2> QED
    BY <1>1, <2>1, <2>2, FramesReplaced
<1>6. Below(gs)
  BY <1>1, BelowReplaced
<1>7. Flying(gs, a) /\ Shelter(gs)
  <2>1. PICK s : s = r.scopes
    OBVIOUS
  <2>2. StillUnwinds(r, z, c)
    BY <1>1, <1>2, <1>4, <2>1, SameStill
  <2> QED
    BY <1>1, <1>3, <2>2, StillShelter
<1>8. Statements(gs, rs)
  <2>1. StatementScopes(r.scopes, z, rs, rs)
    BY <1>2, SameStatements
  <2>2. StatementScopes(fs[n].scopes, q.scopes, rs, rs)
    BY <1>1, <1>3, <2>1
  <2> QED
    BY <1>1, <2>2, StatementsReplaced
<1> QED
  BY <1>5, <1>6, <1>7, <1>8 DEF Sound

LEMMA StaysSound ==
  ASSUME NEW fs, NEW rs, NEW a, NEW count, NEW n, NEW r, Running(fs, rs, a, count, n, r),
         NEW z, NEW c, Stays(r, z, c, rs), NEW o, NEW q, Framed(q, r, z, c, o),
         NEW gs, Replaced(fs, gs, n, q)
  PROVE  Sound(gs, rs, a)
<1>1. Sound(fs, rs, a) /\ r = fs[n] /\ r.scopes \in Scopings
  <2>1. /\ FramesOK(fs, rs) /\ Below(fs) /\ Flying(fs, a) /\ Shelter(fs) /\ Statements(fs, rs)
        /\ r = fs[n] /\ r.scopes \in Scopings
    BY RunningType
  <2> QED
    BY <2>1 DEF Sound
<1> QED
  BY <1>1, SoundStays

(* A frame is pushed. *)
LEMMA FrameReferences ==
  ASSUME NEW how, NEW obj, NEW p, p = Frame(how, obj), NEW u \in Obj
  PROVE  References(p, u) = IF u = obj THEN {<<"destructor", 0>>} ELSE {}
<1>1. u # Null
  BY NullAssumption
<1>2. /\ p.operand = Null /\ p.obj = obj /\ DOMAIN p.scopes = {1}
      /\ p.scopes[1].owns = FALSE /\ p.scopes[1].exc = Null
  BY DEF Frame, Scope
<1> QED
  BY <1>1, <1>2 DEF References

LEMMA PushedState ==
  ASSUME NEW gs, NEW rs, NEW b, Sound(gs, rs, b), NEW n, n = Len(gs), n # 0,
         NEW how \in {"call", "operator", "initializer", "destructor"}, NEW obj, obj \in Obj \/ obj = Null,
         obj # Null => how = "destructor", WaitsFor(gs[n], how),
         NEW p, p = Frame(how, obj), NEW hs, hs = Append(gs, p), NEW cnt, Counted(hs, b, cnt)
  PROVE  StateOK(hs, rs, b, cnt) /\ hs # <<>>
<1>1. FramesOK(gs, rs) /\ Below(gs) /\ Flying(gs, b) /\ Shelter(gs) /\ Statements(gs, rs)
  BY DEF Sound
<1>2. gs \in Seq(FrameRecords)
  BY <1>1 DEF FramesOK
<1>3. /\ p \in FrameRecords /\ p.how = how /\ p.obj = obj /\ p.operand = Null /\ p.todo = <<>>
      /\ Level(p.scopes, p.todo, rs)
      /\ DOMAIN p.scopes = {1} /\ Len(p.scopes) = 1
      /\ p.scopes[1].kind = "body"
  <2>1. Enters(p, how, obj, rs)
    BY NewFrame
  <2> QED
    BY <2>1 DEF Enters
<1>4. Pushes(gs, hs, n, p)
  BY <1>2, <1>3, PushFrame
<1>5. FramesOK(hs, rs)
  <2>1. p.how # "main" /\ (p.obj # Null => p.how = "destructor") /\ Level(p.scopes, p.todo, rs)
    BY <1>3
  <2> QED
    BY <1>1, <1>4, <2>1, FramesPushed
<1>6. Waits(hs)
  <2>1. WaitsFor(gs[n], p.how)
    BY <1>3
  <2>2. Below(hs)
    BY <1>1, <1>4, <2>1, BelowPushed
  <2>3. hs[Len(hs)] = p /\ hs \in Seq(FrameRecords) /\ hs # <<>>
    BY <1>4 DEF Pushes
  <2>4. Runs(hs[Len(hs)])
    BY <1>3, <2>3 DEF Runs
  <2> QED
    BY <2>2, <2>3, <2>4, WaitsBelow
<1>7. Flying(hs, b) /\ Shelter(hs)
  <2>1. \A i \in Nat : ~UnwindsIn(p, i)
    BY <1>3 DEF UnwindsIn, EndsIn
  <2> QED
    BY <1>1, <1>4, <2>1, PushedShelter
<1>8. Statements(hs, rs)
  BY <1>1, <1>3, <1>4, StatementsPushed
<1>9. hs # <<>>
  BY <1>4 DEF Pushes
<1> QED
  BY <1>5, <1>6, <1>7, <1>8, <1>9 DEF StateOK

(* A reference is released. *)
RefersLess(r, q, x, o) ==
  \/ o = Null /\ \A u \in Obj : References(q, u) = References(r, u)
  \/ o \in Obj /\ \A u \in Obj : RefersAlso(q, r, x, o, u)
LEMMA DroppedCount ==
  ASSUME NEW fs, NEW a, NEW count, Counted(fs, a, count), NEW n, NEW r, r = fs[n],
         NEW q, NEW gs, Replaced(fs, gs, n, q), NEW x, NEW o, o \in Obj, RefersLess(r, q, x, o)
  PROVE  /\ count[o] \in Nat /\ count[o] > 0 /\ count[o] - 1 \in Nat
         /\ Covers(count[o] - 1, OwnersIn(gs, a, o)) /\ OthersRefer(r, q, o)
<1>1. o # Null
  BY NullAssumption
<1>2. \A u \in Obj : RefersAlso(q, r, x, o, u)
  BY <1>1 DEF RefersLess
<1>3. OthersRefer(r, q, o) /\ x \in References(fs[n], o) /\ References(q, o) = References(fs[n], o) \ {x}
  BY <1>2 DEF RefersAlso, OthersRefer
<1>4. PICK k : k = count[o]
  OBVIOUS
<1>5. Covers(k, OwnersIn(fs, a, o))
  BY <1>4 DEF Counted
<1>6. k \in Nat /\ k > 0 /\ k - 1 \in Nat /\ Covers(k - 1, OwnersIn(gs, a, o))
  BY <1>3, <1>5, CountTake
<1> QED
  BY <1>3, <1>4, <1>6

LEMMA NothingDropped ==
  ASSUME NEW fs, NEW a, NEW count, Counted(fs, a, count), NEW n, NEW r, r = fs[n],
         NEW q, NEW gs, Replaced(fs, gs, n, q), \A u \in Obj : References(q, u) = References(r, u)
  PROVE  Counted(gs, a, count)
<1> SUFFICES ASSUME NEW u \in Obj PROVE Covers(count[u], OwnersIn(gs, a, u))
  BY DEF Counted
<1>1. PICK k : k = count[u]
  OBVIOUS
<1>2. Covers(k, OwnersIn(fs, a, u))
  BY <1>1 DEF Counted
<1>3. References(q, u) \subseteq References(fs[n], u) /\ References(fs[n], u) \subseteq References(q, u)
  OBVIOUS
<1>4. Covers(k, OwnersIn(gs, a, u))
  BY <1>2, <1>3, CountLess
<1> QED
  BY <1>1, <1>4


LEMMA PushedCount ==
  ASSUME NEW fs, NEW a, NEW count, Counted(fs, a, count), NEW n, NEW r, r = fs[n],
         NEW q, NEW gs, Replaced(fs, gs, n, q), NEW x, NEW o \in Obj, RefersLess(r, q, x, o),
         NEW p, p = Frame("destructor", o), NEW hs, Pushes(gs, hs, n, p)
  PROVE  Counted(hs, a, count)
<1> SUFFICES ASSUME NEW u \in Obj PROVE Covers(count[u], OwnersIn(hs, a, u))
  BY DEF Counted
<1>1. /\ count[o] \in Nat /\ count[o] > 0 /\ count[o] - 1 \in Nat
      /\ Covers(count[o] - 1, OwnersIn(gs, a, o)) /\ OthersRefer(r, q, o)
  BY DroppedCount
<1>2. PICK how : how = "destructor"
  OBVIOUS
<1>3. References(p, u) = IF u = o THEN {<<"destructor", 0>>} ELSE {}
  BY <1>2, FrameReferences
<1>4. CASE u = o
  <2>1. PICK j, x2 : j = count[o] - 1 /\ x2 = <<"destructor", 0>>
    OBVIOUS
  <2>2. Covers(j, OwnersIn(gs, a, o)) /\ References(p, o) = {x2}
    BY <1>1, <1>3, <1>4, <2>1
  <2>3. Covers(j + 1, OwnersIn(hs, a, o))
    BY <2>2, CountPushed
  <2>4. j + 1 = count[o]
    BY <1>1, <2>1
  <2> QED
    BY <1>4, <2>3, <2>4
<1>5. CASE u # o
  <2>1. PICK v : v = count[u]
    OBVIOUS
  <2>2. Covers(v, OwnersIn(fs, a, u))
    BY <2>1 DEF Counted
  <2>3. References(q, u) \subseteq References(fs[n], u) /\ References(fs[n], u) \subseteq References(q, u)
    BY <1>1, <1>5 DEF OthersRefer
  <2>4. Covers(v, OwnersIn(gs, a, u))
    BY <2>2, <2>3, CountLess
  <2>5. References(p, u) = {}
    BY <1>3, <1>5
  <2>6. OwnersIn(hs, a, u) = OwnersIn(gs, a, u)
    BY <2>5, CountPushed
  <2> QED
    BY <2>1, <2>4, <2>6
<1> QED
  BY <1>4, <1>5

LEMMA Dropped ==
  ASSUME IInv, ended = "no", NEW n, n = Len(frames), NEW r,
         Running(frames, runs, active_exception, ref_count, n, r),
         NEW z, NEW c, Stays(r, z, c, runs), NEW q, Framed(q, r, z, c, Null),
         NEW x, NEW o, o \in Obj \cup {Null}, RefersLess(r, q, x, o),
         Drop(o, q), UNCHANGED <<program, active_exception, runs, ended>>
  PROVE  IInv'
<1>1. PICK a, gs, w : a = active_exception /\ gs = [frames EXCEPT ![n] = q] /\ w = Null
  OBVIOUS
<1>2. /\ a \in Obj \cup {Null} /\ ref_count \in [Obj -> Nat] /\ runs \in [Try -> Nat]
      /\ Running(frames, runs, a, ref_count, n, r)
  BY <1>1 DEF Running
<1>3. frames[n] = r /\ Counted(frames, a, ref_count) /\ n # 0
  BY <1>2, RunningType
<1>4. Framed(q, r, z, c, w)
  BY <1>1
<1>5. Replaced(frames, gs, n, q)
  BY <1>1, <1>2, <1>4, RunningReplaced
<1>6. Sound(gs, runs, a)
  BY <1>2, <1>4, <1>5, StaysSound
<1>7. gs = WithTop(q)
  BY <1>1 DEF WithTop
<1>8. CASE frames' = WithTop(q) /\ ref_count' = Decreased(o)
  <2>1. PICK cnt : cnt = Decreased(o)
    OBVIOUS
  <2>2. cnt \in [Obj -> Nat] /\ Counted(gs, a, cnt)
    <3>1. CASE o = Null
      <4>1. cnt = ref_count
        BY <2>1, <3>1 DEF Decreased
      <4>2. o \notin Obj
        BY <3>1, NullAssumption
      <4>3. \A u \in Obj : References(q, u) = References(r, u)
        BY <4>2 DEF RefersLess
      <4>4. Counted(gs, a, ref_count)
        BY <1>3, <1>5, <4>3, NothingDropped
      <4> QED
        BY <1>2, <4>1, <4>4
    <3>2. CASE o \in Obj
      <4>1. /\ ref_count[o] \in Nat /\ ref_count[o] > 0 /\ ref_count[o] - 1 \in Nat
            /\ Covers(ref_count[o] - 1, OwnersIn(gs, a, o)) /\ OthersRefer(r, q, o)
        BY <1>3, <1>5, <3>2, DroppedCount
      <4>2. Lowered(ref_count, cnt, o)
        BY <1>2, <2>1, <3>2, <4>1, DecreasedOne
      <4>3. OthersCount(ref_count, cnt, o) /\ cnt[o] = ref_count[o] - 1 /\ cnt \in [Obj -> Nat]
        BY <4>2 DEF Lowered, OthersCount
      <4>4. PICK b : b = a
        OBVIOUS
      <4>5. Covers(cnt[o], OwnersIn(gs, b, o)) /\ (b = a \/ (a \in {o, Null} /\ b \in {o, Null}))
        BY <4>1, <4>3, <4>4
      <4>6. Counted(gs, b, cnt)
        BY <1>3, <1>5, <3>2, <4>1, <4>3, <4>5, CountedBut
      <4> QED
        BY <4>3, <4>4, <4>6
    <3> QED
      BY <3>1, <3>2
  <2>3. Flying(gs, a) /\ Shelter(gs) /\ Statements(gs, runs)
    BY <1>6 DEF Sound
  <2>4. OthersRun(frames, n, runs, runs)
    BY SameOthers
  <2>5. Level(z, c, runs) /\ (w # Null => c = <<DropOperand>>)
    BY <1>1 DEF Stays
  <2>6. /\ frames' = gs /\ runs' = runs /\ active_exception' = a /\ ref_count' = cnt /\ UNCHANGED <<program, ended>>
    BY <1>1, <1>7, <1>8, <2>1
  <2> QED
    BY <1>2, <1>4, <1>5, <2>2, <2>3, <2>4, <2>5, <2>6, Continued
<1>9. CASE /\ o # Null /\ frames' = Append(WithTop(q), Frame("destructor", o)) /\ ref_count' = ref_count
  <2>1. PICK how, p, hs : how = "destructor" /\ p = Frame(how, o) /\ hs = Append(gs, p)
    OBVIOUS
  <2>2. o \in Obj
    BY <1>9
  <2>3. gs \in Seq(FrameRecords) /\ n = Len(gs) /\ gs[n] = q
    BY <1>5 DEF Replaced
  <2>4. Pushes(gs, hs, n, p)
    <3>1. Enters(p, how, o, runs)
      BY <2>1, <2>2, NewFrame
    <3>2. p \in FrameRecords
      BY <3>1 DEF Enters
    <3> QED
      BY <2>1, <2>3, <3>2, PushFrame
  <2>5. Counted(hs, a, ref_count)
    BY <1>3, <1>5, <2>1, <2>2, <2>4, PushedCount
  <2>6. WaitsFor(gs[n], how)
    <3>1. q.operand = Null
      BY DEF Framed
    <3> QED
      BY <2>1, <2>3, <3>1 DEF WaitsFor
  <2>7. how \in {"call", "operator", "initializer", "destructor"} /\ (o \in Obj \/ o = Null) /\ (o # Null => how = "destructor")
    BY <2>1, <2>2
  <2>8. StateOK(hs, runs, a, ref_count) /\ hs # <<>>
    BY <1>3, <1>6, <2>1, <2>3, <2>5, <2>6, <2>7, PushedState
  <2>9. /\ frames' = hs /\ runs' = runs /\ active_exception' = a /\ ref_count' = ref_count
        /\ program' = program /\ ended' = "no"
    BY <1>1, <1>7, <1>9, <2>1
  <2> QED
    BY <1>2, <2>8, <2>9, Resumed
<1>10. \/ frames' = WithTop(q) /\ ref_count' = Decreased(o)
       \/ /\ o # Null /\ frames' = Append(WithTop(q), Frame("destructor", o)) /\ ref_count' = ref_count
  BY DEF Drop
<1> QED
  BY <1>8, <1>9, <1>10


(* DEC_REF_SLOT. *)
LEMMA ReleaseSlotStep ==
  ASSUME IInv, ReleaseSlot
  PROVE  IInv'
<1>1. PICK n, r, s, k, o, d, x : /\ n = Len(frames) /\ r = Top /\ s = Scopes /\ k = Next1 /\ o = s[k].slot
                                 /\ d = Tail(r.todo) /\ x = <<"variable", k>>
  OBVIOUS
<1>2. PICK z : z = [s EXCEPT ![k].owns = FALSE]
  OBVIOUS
<1>3. Executes("DEC_REF_SLOT") /\ UNCHANGED <<program, active_exception, runs, ended>>
  BY DEF ReleaseSlot
<1>4. /\ Running(frames, runs, active_exception, ref_count, n, r)
      /\ r.todo # <<>> /\ r.todo[1].op = "DEC_REF_SLOT" /\ ended = "no" /\ r.operand = Null
      /\ k = r.todo[1].scope /\ Level(s, r.todo, runs) /\ s = r.scopes
  BY <1>1, <1>3, Executing
<1>5. /\ k \in DOMAIN s /\ Intact(s[k]) /\ Level(z, d, runs)
      /\ Len(z) = Len(s) /\ \A j \in DOMAIN s : j # k => z[j] = s[j]
      /\ z[k] = [s[k] EXCEPT !.owns = FALSE]
      /\ \A ops : EndsIn(d, ops) <=> EndsIn(r.todo, ops)
  BY <1>1, <1>2, <1>4, SlotLevel
<1>6. /\ s \in Scopings /\ z \in Scopings /\ d \in Code /\ s[k] \in ScopeRecords /\ ScopeOK(s[k])
  BY <1>4, <1>5, LevelType
<1>7. /\ z[k].kind = s[k].kind /\ z[k].of = s[k].of /\ z[k].after = s[k].after /\ z[k].exc = s[k].exc
      /\ z[k].owns = FALSE /\ z[k].slot = s[k].slot
  BY <1>5, <1>6 DEF ScopeRecords
<1>8. DOMAIN z = DOMAIN s
  BY <1>5, <1>6, ScopingType
<1>9. Stays(r, z, d, runs)
  <2>1. SameBlocks(s, z)
    BY <1>5, <1>7, <1>8 DEF SameBlocks
  <2> QED
    BY <1>4, <1>5, <2>1 DEF Stays
<1>10. PICK q : q = [r EXCEPT !.scopes = z, !.todo = d]
  OBVIOUS
<1>11. Framed(q, r, z, d, Null)
  <2>1. r \in FrameRecords /\ (r.operand \in Obj \/ r.operand = Null)
    BY <1>4, RunningType
  <2>2. Framed(q, r, z, d, r.operand)
    BY <1>6, <1>10, <2>1, FrameChange
  <2> QED
    BY <1>4, <2>2
<1>12. Drop(o, q)
  <2>1. r \in FrameRecords /\ r.scopes = s
    BY <1>4, RunningType
  <2>2. [r EXCEPT !.todo = Tail(@), !.scopes[k].owns = FALSE] = q
    BY <1>1, <1>2, <1>10, <2>1 DEF FrameRecords
  <2> QED
    BY <1>1, <2>2 DEF ReleaseSlot
<1>13. o \in Obj \cup {Null}
  BY <1>1, <1>6 DEF ScopeRecords
<1>14. RefersLess(r, q, x, o)
  <2>1. q.scopes = z /\ q.operand = r.operand /\ q.obj = r.obj
    BY <1>4, <1>11 DEF Framed
  <2>2. CASE o = Null
    <3>1. s[k].owns = FALSE
      BY <1>1, <1>6, <2>2 DEF ScopeOK, ScopeRecords
    <3>2. \A u \in Obj : \A i \in DOMAIN s : Held(z, i, u) <=> Held(s, i, u)
      BY <1>5, <1>7, <1>8, <3>1 DEF Held
    <3>3. \A u \in Obj : \A i \in DOMAIN s : Caught(z, i, u) <=> Caught(s, i, u)
      BY <1>5, <1>7, <1>8 DEF Caught
    <3>4. ASSUME NEW u \in Obj PROVE References(q, u) = References(r, u)
      <4>1. ScopesLess(q.scopes, r.scopes, u) /\ ScopesLess(r.scopes, q.scopes, u)
        BY <1>4, <1>8, <2>1, <3>2, <3>3 DEF ScopesLess
      <4>2. /\ q.operand = u => r.operand = u
            /\ r.operand = u => q.operand = u
            /\ q.obj = u => r.obj = u
            /\ r.obj = u => q.obj = u
        BY <2>1
      <4>3. References(q, u) \subseteq References(r, u)
        BY <4>1, <4>2, ReferencesLess
      <4>4. References(r, u) \subseteq References(q, u)
        BY <4>1, <4>2, ReferencesLess
      <4> QED
        BY <4>3, <4>4
    <3> QED
      BY <2>2, <3>4 DEF RefersLess
  <2>3. CASE o # Null
    <3>1. o \in Obj
      BY <1>13, <2>3
    <3>2. s[k].owns = TRUE
      BY <1>1, <1>5, <1>6, <2>3 DEF Intact, ScopeRecords
    <3>3. TakesVariable(z, s, k, o)
      BY <1>1, <1>5, <1>7, <1>8, <3>2 DEF TakesVariable
    <3>4. SameUse(q, r)
      BY <2>1 DEF SameUse
    <3>5. \A u \in Obj : RefersAlso(q, r, x, o, u)
      BY <1>1, <1>4, <2>1, <3>1, <3>3, <3>4, VariableAlso
    <3> QED
      BY <3>1, <3>5 DEF RefersLess
  <2> QED
    BY <2>2, <2>3
<1> QED
  BY <1>1, <1>3, <1>4, <1>9, <1>11, <1>12, <1>13, <1>14, Dropped

(* DEC_REF_CAUGHT. *)
LEMMA ReleaseCaughtStep ==
  ASSUME IInv, ReleaseCaughtException
  PROVE  IInv'
<1>1. PICK n, r, s, k, o, d, x : /\ n = Len(frames) /\ r = Top /\ s = Scopes /\ k = Len(s) /\ o = s[k].exc
                                 /\ d = Tail(r.todo) /\ x = <<"caught", k>>
  OBVIOUS
<1>2. PICK z : z = [s EXCEPT ![k].exc = Null]
  OBVIOUS
<1>3. Executes("DEC_REF_CAUGHT") /\ UNCHANGED <<program, active_exception, runs, ended>>
  BY DEF ReleaseCaughtException
<1>4. /\ Running(frames, runs, active_exception, ref_count, n, r)
      /\ r.todo # <<>> /\ r.todo[1].op = "DEC_REF_CAUGHT" /\ ended = "no" /\ r.operand = Null
      /\ Level(s, r.todo, runs) /\ s = r.scopes
  BY <1>1, <1>3, Executing
<1>5. /\ Level(z, d, runs)
      /\ Len(z) = Len(s) /\ \A j \in DOMAIN s : j # Len(s) => z[j] = s[j]
      /\ z[Len(s)] = [s[Len(s)] EXCEPT !.exc = Null]
      /\ ~EndsIn(d, {"unwind"})
  <2>1. ReleasesCaught(s, d, z, k, runs)
    BY <1>1, <1>2, <1>4, CaughtLevel
  <2> QED
    BY <1>1, <2>1 DEF ReleasesCaught
<1>6. /\ s \in Scopings /\ z \in Scopings /\ d \in Code /\ k \in DOMAIN s /\ s[k] \in ScopeRecords /\ ScopeOK(s[k])
  BY <1>1, <1>4, <1>5, LevelType
<1>7. /\ z[k].kind = s[k].kind /\ z[k].of = s[k].of /\ z[k].after = s[k].after /\ z[k].exc = Null
      /\ z[k].owns = s[k].owns /\ z[k].slot = s[k].slot
      /\ \A j \in DOMAIN s : j # k => z[j] = s[j]
  BY <1>1, <1>5, <1>6 DEF ScopeRecords
<1>8. DOMAIN z = DOMAIN s
  BY <1>5, <1>6, ScopingType
<1>9. Stays(r, z, d, runs)
  <2>1. SameBlocks(s, z)
    BY <1>7, <1>8 DEF SameBlocks
  <2> QED
    BY <1>4, <1>5, <2>1 DEF Stays
<1>10. PICK q : q = [r EXCEPT !.scopes = z, !.todo = d]
  OBVIOUS
<1>11. Framed(q, r, z, d, Null)
  <2>1. r \in FrameRecords /\ (r.operand \in Obj \/ r.operand = Null)
    BY <1>4, RunningType
  <2>2. Framed(q, r, z, d, r.operand)
    BY <1>6, <1>10, <2>1, FrameChange
  <2> QED
    BY <1>4, <2>2
<1>12. Drop(o, q)
  <2>1. r \in FrameRecords /\ r.scopes = s
    BY <1>4, RunningType
  <2>2. [r EXCEPT !.todo = Tail(@), !.scopes[k].exc = Null] = q
    BY <1>1, <1>2, <1>10, <2>1 DEF FrameRecords
  <2> QED
    BY <1>1, <2>2 DEF ReleaseCaughtException, Inner
<1>13. o \in Obj \cup {Null}
  BY <1>1, <1>6 DEF ScopeRecords
<1>14. RefersLess(r, q, x, o)
  <2>1. q.scopes = z /\ q.operand = r.operand /\ q.obj = r.obj
    BY <1>4, <1>11 DEF Framed
  <2>2. CASE o = Null
    <3>1. \A u \in Obj : \A i \in DOMAIN s : Held(z, i, u) <=> Held(s, i, u)
      BY <1>7, <1>8 DEF Held
    <3>2. \A u \in Obj : \A i \in DOMAIN s : Caught(z, i, u) <=> Caught(s, i, u)
      BY <1>1, <1>7, <1>8, <2>2 DEF Caught
    <3>3. ASSUME NEW u \in Obj PROVE References(q, u) = References(r, u)
      <4>1. ScopesLess(q.scopes, r.scopes, u) /\ ScopesLess(r.scopes, q.scopes, u)
        BY <1>4, <1>8, <2>1, <3>1, <3>2 DEF ScopesLess
      <4>2. /\ q.operand = u => r.operand = u
            /\ r.operand = u => q.operand = u
            /\ q.obj = u => r.obj = u
            /\ r.obj = u => q.obj = u
        BY <2>1
      <4>3. References(q, u) \subseteq References(r, u)
        BY <4>1, <4>2, ReferencesLess
      <4>4. References(r, u) \subseteq References(q, u)
        BY <4>1, <4>2, ReferencesLess
      <4> QED
        BY <4>3, <4>4
    <3> QED
      BY <2>2, <3>3 DEF RefersLess
  <2>3. CASE o # Null
    <3>1. o \in Obj
      BY <1>13, <2>3
    <3>2. TakesCaught(z, s, k, o)
      BY <1>1, <1>6, <1>7, <1>8 DEF TakesCaught, Held
    <3>3. SameUse(q, r)
      BY <2>1 DEF SameUse
    <3>4. \A u \in Obj : RefersAlso(q, r, x, o, u)
      BY <1>1, <1>4, <2>1, <3>1, <3>2, <3>3, CaughtAlso
    <3> QED
      BY <3>1, <3>4 DEF RefersLess
  <2> QED
    BY <2>2, <2>3
<1> QED
  BY <1>1, <1>3, <1>4, <1>9, <1>11, <1>12, <1>13, <1>14, Dropped


(* DEC_REF_OPERAND. *)
LEMMA ReleaseOperandStep ==
  ASSUME IInv, ReleaseOperand
  PROVE  IInv'
<1>1. PICK n, r, s, o, d, x : /\ n = Len(frames) /\ r = Top /\ s = Scopes /\ o = r.operand
                              /\ d = <<>> /\ x = <<"operand", 0>>
  OBVIOUS
<1>2. Executes("DEC_REF_OPERAND") /\ UNCHANGED <<program, active_exception, runs, ended>>
  BY DEF ReleaseOperand
<1>3. /\ Running(frames, runs, active_exception, ref_count, n, r)
      /\ r.todo # <<>> /\ r.todo[1].op = "DEC_REF_OPERAND" /\ ended = "no"
      /\ Level(s, r.todo, runs) /\ s = r.scopes
  BY <1>1, <1>2, Executing
<1>4. r.todo = <<DropOperand>>
  <2> SUFFICES ASSUME r.todo # <<DropOperand>> PROVE FALSE
    OBVIOUS
  <2>1. r.todo \in Code /\ LevelOK(s, Len(s) + 1, r.todo, runs)
    BY <1>3, LevelType
  <2>2. Written(s, Len(s) + 1, r.todo) /\ 1 \in DOMAIN r.todo
    BY <1>3, <2>1, CodeTail DEF LevelOK
  <2> QED
    BY <1>3, <2>2 DEF Written
<1>5. Tail(r.todo) = d /\ d \in Code
  BY <1>1, <1>4 DEF Code
<1>6. Level(s, d, runs)
  BY <1>1, <1>3, <1>4, OperandLevel
<1>7. Stays(r, s, d, runs)
  <2>1. SameBlocks(s, s)
    BY NothingMoved
  <2>2. ~EndsIn(d, {"unwind"})
    BY <1>1 DEF EndsIn
  <2> QED
    BY <1>3, <1>6, <2>1, <2>2 DEF Stays
<1>8. r \in FrameRecords /\ r.scopes = s /\ (o \in Obj \/ o = Null)
  BY <1>1, <1>3, RunningType
<1>9. PICK q : q = [r EXCEPT !.todo = d, !.operand = Null]
  OBVIOUS
<1>10. Framed(q, r, s, d, Null)
  <2>1. s \in Scopings
    BY <1>3, LevelType
  <2>2. PICK w : w = Null
    OBVIOUS
  <2>3. q = [r EXCEPT !.todo = d, !.operand = w] /\ (w \in Obj \/ w = Null)
    BY <1>9, <2>2
  <2>4. Framed(q, r, r.scopes, d, w)
    BY <1>5, <1>8, <2>1, <2>3, FrameChange
  <2> QED
    BY <1>8, <2>2, <2>4
<1>11. Drop(o, q)
  <2>1. [r EXCEPT !.todo = Tail(@), !.operand = Null] = q
    BY <1>5, <1>8, <1>9 DEF FrameRecords
  <2> QED
    BY <1>1, <2>1 DEF ReleaseOperand
<1>12. RefersLess(r, q, x, o)
  <2>1. q.scopes = s /\ q.operand = Null /\ q.obj = r.obj
    BY <1>10 DEF Framed
  <2>2. CASE o = Null
    <3>1. \A u \in Obj : References(q, u) = References(r, u)
      BY <1>1, <1>8, <2>1, <2>2 DEF References
    <3> QED
      BY <2>2, <3>1 DEF RefersLess
  <2>3. CASE o \in Obj
    <3>1. r.scopes = q.scopes /\ r.obj = q.obj /\ q.operand = Null /\ r.operand = o
      BY <1>1, <1>8, <2>1
    <3>2. \A u \in Obj : RefersAlso(q, r, x, o, u)
      BY <1>1, <2>3, <3>1, OperandAlso
    <3> QED
      BY <2>3, <3>2 DEF RefersLess
  <2> QED
    BY <1>8, <2>2, <2>3
<1>13. o \in Obj \cup {Null}
  BY <1>8
<1> QED
  BY <1>1, <1>2, <1>3, <1>7, <1>10, <1>11, <1>12, <1>13, Dropped

(* A call: the new object on the operand stack has one reference. *)
Called(count, cnt, o) ==
  /\ cnt \in [Obj -> Nat] /\ count \in [Obj -> Nat] /\ (o \in Obj => count[o] = 0 /\ cnt[o] = 1)
  /\ \A u \in Obj : u # o => cnt[u] = count[u]
LEMMA CallCount ==
  ASSUME NEW fs, NEW a, NEW count, Counted(fs, a, count), NEW n, NEW r, r = fs[n],
         NEW q, NEW gs, Replaced(fs, gs, n, q), q.scopes = r.scopes, q.obj = r.obj, r.operand = Null,
         NEW o, q.operand = o, o \in Obj \/ o = Null, NEW cnt, Called(count, cnt, o)
  PROVE  Counted(gs, a, cnt)
<1>1. cnt \in [Obj -> Nat] /\ count \in [Obj -> Nat] /\ (o \in Obj => count[o] = 0 /\ cnt[o] = 1)
      /\ \A u \in Obj : u # o => cnt[u] = count[u]
  BY DEF Called
<1>2. CASE o = Null
  <2>1. cnt = count
    BY <1>1, <1>2, NullAssumption
  <2>2. \A u \in Obj : References(q, u) = References(r, u)
    BY <1>2 DEF References
  <2>3. Counted(gs, a, count)
    BY <2>2, NothingDropped
  <2> QED
    BY <1>1, <2>1, <2>3
<1>3. CASE o \in Obj
  <2>1. PICK x, k, b, cn : x = <<"operand", 0>> /\ k = 0 /\ b = a /\ cn = cnt
    OBVIOUS
  <2>2. \A u \in Obj : RefersAlso(r, q, x, o, u)
    BY <1>3, <2>1, OperandAlso
  <2>3. OthersRefer(r, q, o) /\ x \notin References(fs[n], o) /\ References(q, o) = References(fs[n], o) \cup {x}
    BY <1>3, <2>2 DEF RefersAlso, OthersRefer
  <2>4. Covers(0, OwnersIn(fs, a, o))
    BY <1>1, <1>3, FreshCovers
  <2>5. Covers(k, OwnersIn(fs, a, o))
    BY <2>1, <2>4
  <2>6. Covers(k + 1, OwnersIn(gs, a, o))
    BY <2>3, <2>5, CountMore
  <2>7. OthersCount(count, cn, o) /\ cn[o] = k + 1
    BY <1>1, <1>3, <2>1 DEF OthersCount
  <2>8. Covers(cn[o], OwnersIn(gs, b, o)) /\ (b = a \/ (a \in {o, Null} /\ b \in {o, Null}))
    BY <2>1, <2>6, <2>7
  <2>9. Counted(gs, b, cn)
    BY <1>3, <2>3, <2>7, <2>8, CountedBut
  <2> QED
    BY <1>1, <2>1, <2>9
<1> QED
  BY <1>2, <1>3

LEMMA CallStep ==
  ASSUME IInv, Keeps, NEW how \in {"call", "operator", "initializer"}, NEW o \in Obj \cup {Null}, Call(how, o)
  PROVE  IInv'
<1>1. PICK n, r, s, d, a : /\ n = Len(frames) /\ r = Top /\ s = Scopes /\ d = r.todo /\ a = active_exception
  OBVIOUS
<1>2. PICK q, p, cnt : /\ q = [r EXCEPT !.operand = o] /\ p = Frame(how, Null)
                       /\ cnt = [u \in Obj |-> IF u = o THEN 1 ELSE ref_count[u]]
  OBVIOUS
<1>3. PICK gs : gs = [frames EXCEPT ![n] = q]
  OBVIOUS
<1>4. PICK hs : hs = Append(gs, p)
  OBVIOUS
<1>5. /\ Ready /\ ~Late /\ (o \in Obj => ref_count[o] = 0) /\ frames' = hs /\ ref_count' = cnt
      /\ UNCHANGED <<program, active_exception, runs, ended>>
  <2>1. MayLeave /\ "late" \notin Habits
    BY DEF Call, Keeps
  <2>2. ~Late
    BY <2>1 DEF MayLeave
  <2>3. o \in Obj => ref_count[o] = 0
    BY NullAssumption DEF Call, Fresh
  <2>4. gs = WithTop([Top EXCEPT !.operand = o])
    BY <1>1, <1>2, <1>3 DEF WithTop
  <2> QED
    BY <1>2, <1>4, <2>2, <2>3, <2>4 DEF Call
<1>6. /\ Running(frames, runs, active_exception, ref_count, n, r)
      /\ d = <<>> /\ r.operand = Null /\ ended = "no"
      /\ Level(s, <<>>, runs) /\ s = r.scopes
      /\ active_exception \in Obj \cup {Null} /\ ref_count \in [Obj -> Nat] /\ runs \in [Try -> Nat]
  BY <1>1, <1>5, AtReady
<1>7. Running(frames, runs, a, ref_count, n, r)
  BY <1>1, <1>6
<1>8. /\ frames[n] = r /\ Counted(frames, a, ref_count) /\ n # 0 /\ r \in FrameRecords
      /\ r.scopes \in Scopings /\ r.todo \in Code
  BY <1>7, RunningType
<1>9. Framed(q, r, s, d, o)
  <2>1. o \in Obj \/ o = Null
    OBVIOUS
  <2>2. Framed(q, r, r.scopes, r.todo, o)
    BY <1>2, <1>8, <2>1, FrameChange
  <2> QED
    BY <1>1, <1>6, <2>2
<1>10. Replaced(frames, gs, n, q)
  BY <1>3, <1>7, <1>9, RunningReplaced
<1>11. q.scopes = s /\ q.obj = r.obj /\ q.operand = o /\ q.todo = <<>>
  BY <1>6, <1>9 DEF Framed
<1>12. Sound(gs, runs, a)
  <2>1. SameBlocks(s, s)
    BY NothingMoved
  <2>2. Stays(r, s, d, runs)
    BY <1>1, <1>6, <2>1 DEF Stays
  <2> QED
    BY <1>7, <1>9, <1>10, <2>2, StaysSound
<1>13. Counted(gs, a, cnt) /\ cnt \in [Obj -> Nat]
  <2>1. q.scopes = r.scopes /\ (o \in Obj \/ o = Null)
    BY <1>6, <1>11
  <2>2. Called(ref_count, cnt, o) /\ cnt \in [Obj -> Nat]
    BY <1>2, <1>5, <1>6 DEF Called
  <2>3. Counted(gs, a, cnt)
    BY <1>6, <1>8, <1>10, <1>11, <2>1, <2>2, CallCount
  <2> QED
    BY <2>2, <2>3
<1>14. gs \in Seq(FrameRecords) /\ n = Len(gs) /\ gs[n] = q
  BY <1>10 DEF Replaced
<1>15. PICK obj : obj = Null
  OBVIOUS
<1>16. how \in {"call", "operator", "initializer", "destructor"} /\ (obj \in Obj \/ obj = Null) /\ p = Frame(how, obj)
       /\ (obj # Null => how = "destructor")
  BY <1>2, <1>15
<1>17. Counted(hs, a, cnt)
  <2>1. Enters(p, how, obj, runs)
    BY <1>16, NewFrame
  <2>2. Pushes(gs, hs, n, p)
    BY <1>4, <1>14, <2>1, PushFrame DEF Enters
  <2>3. \A u \in Obj : u # obj
    BY <1>15, NullAssumption
  <2>4. \A u \in Obj : References(p, u) = {}
    BY <1>16, <2>3, FrameReferences
  <2>5. \A u \in Obj : OwnersIn(hs, a, u) = OwnersIn(gs, a, u)
    BY <2>2, <2>4, CountPushed
  <2> QED
    BY <1>13, <2>5 DEF Counted
<1>18. WaitsFor(gs[n], how)
  <2>1. \A j \in DOMAIN s : s[j].declared \/ s[j].slot = Null
    BY <1>1, <1>5, NotLate
  <2>2. \A j \in Live(s, Len(s) + 1) : Intact(s[j])
    BY <1>6, <2>1, CarefulLevel
  <2>3. how # "destructor"
    OBVIOUS
  <2> QED
    BY <1>11, <1>14, <2>2, <2>3 DEF WaitsFor
<1>19. StateOK(hs, runs, a, cnt) /\ hs # <<>>
  BY <1>4, <1>8, <1>12, <1>14, <1>16, <1>17, <1>18, PushedState
<1>20. /\ frames' = hs /\ runs' = runs /\ active_exception' = a /\ ref_count' = cnt
       /\ program' = program /\ ended' = "no"
  BY <1>1, <1>5, <1>6
<1> QED
  BY <1>1, <1>6, <1>13, <1>19, <1>20, Resumed


(* The destructor of the base is called. *)
LEMMA SuperDestructorStep ==
  ASSUME IInv, SuperDestructor
  PROVE  IInv'
<1>1. PICK n, r, s, d, a, w, how, obj :
        /\ n = Len(frames) /\ r = Top /\ s = Scopes /\ d = Tail(r.todo) /\ a = active_exception
        /\ w = Null /\ how = "destructor" /\ obj = Null
  OBVIOUS
<1>2. PICK q, p, count : q = [r EXCEPT !.todo = d] /\ p = Frame(how, obj) /\ count = ref_count
  OBVIOUS
<1>3. PICK gs : gs = [frames EXCEPT ![n] = q]
  OBVIOUS
<1>4. PICK hs : hs = Append(gs, p)
  OBVIOUS
<1>5. /\ Executes("CALL_SUPER") /\ frames' = hs
      /\ UNCHANGED <<program, ref_count, active_exception, runs, ended>>
  <2>1. gs = WithTop([Top EXCEPT !.todo = Tail(@)])
    BY <1>1, <1>2, <1>3 DEF WithTop
  <2> QED
    BY <1>1, <1>2, <1>4, <2>1 DEF SuperDestructor
<1>6. /\ Running(frames, runs, a, count, n, r)
      /\ r.todo # <<>> /\ r.todo[1].op = "CALL_SUPER" /\ ended = "no" /\ r.operand = Null
      /\ Level(s, r.todo, runs) /\ s = r.scopes
      /\ a \in Obj \cup {Null} /\ count \in [Obj -> Nat] /\ runs \in [Try -> Nat]
  BY <1>1, <1>2, <1>5, Executing
<1>7. Level(s, d, runs) /\ \A ops : EndsIn(d, ops) <=> EndsIn(r.todo, ops)
  BY <1>1, <1>6, SuperLevel
<1>8. /\ frames[n] = r /\ Counted(frames, a, count) /\ n # 0 /\ r \in FrameRecords
      /\ r.scopes \in Scopings /\ d \in Code
  BY <1>6, <1>7, RunningType, LevelType
<1>9. Framed(q, r, s, d, w)
  <2>1. q = [r EXCEPT !.scopes = s, !.todo = d]
    BY <1>2, <1>6, <1>8 DEF FrameRecords
  <2>2. r.operand \in Obj \/ r.operand = Null
    BY <1>6
  <2>3. Framed(q, r, s, d, r.operand)
    BY <1>6, <1>8, <2>1, <2>2, FrameChange
  <2> QED
    BY <1>1, <1>6, <2>3
<1>10. Replaced(frames, gs, n, q)
  <2>1. Running(frames, runs, a, count, n, r)
    BY <1>6
  <2> QED
    BY <1>3, <1>9, <2>1, RunningReplaced
<1>11. q.scopes = s /\ q.obj = r.obj /\ q.operand = w /\ q.todo = d
  BY <1>9 DEF Framed
<1>12. Sound(gs, runs, a)
  <2>1. SameBlocks(s, s)
    BY NothingMoved
  <2>2. Stays(r, s, d, runs)
    BY <1>6, <1>7, <2>1 DEF Stays
  <2> QED
    BY <1>6, <1>9, <1>10, <2>2, StaysSound
<1>13. Counted(gs, a, count)
  <2>1. \A u \in Obj : References(q, u) = References(r, u)
    BY <1>1, <1>6, <1>11 DEF References
  <2> QED
    BY <1>8, <1>10, <2>1, NothingDropped
<1>14. gs \in Seq(FrameRecords) /\ n = Len(gs) /\ gs[n] = q
  BY <1>10 DEF Replaced
<1>15. how \in {"call", "operator", "initializer", "destructor"} /\ (obj \in Obj \/ obj = Null)
       /\ p = Frame(how, obj) /\ (obj # Null => how = "destructor")
  BY <1>1, <1>2
<1>16. Counted(hs, a, count)
  <2>1. Enters(p, how, obj, runs)
    BY <1>15, NewFrame
  <2>2. Pushes(gs, hs, n, p)
    BY <1>4, <1>14, <2>1, PushFrame DEF Enters
  <2>3. \A u \in Obj : u # obj
    BY <1>1, NullAssumption
  <2>4. \A u \in Obj : References(p, u) = {}
    BY <1>15, <2>3, FrameReferences
  <2>5. \A u \in Obj : OwnersIn(hs, a, u) = OwnersIn(gs, a, u)
    BY <2>2, <2>4, CountPushed
  <2> QED
    BY <1>13, <2>5 DEF Counted
<1>17. WaitsFor(gs[n], how)
  BY <1>1, <1>11, <1>14 DEF WaitsFor
<1>18. StateOK(hs, runs, a, count) /\ hs # <<>>
  BY <1>4, <1>8, <1>12, <1>14, <1>15, <1>16, <1>17, PushedState
<1>19. /\ frames' = hs /\ runs' = runs /\ active_exception' = a /\ ref_count' = count
       /\ program' = program /\ ended' = "no"
  BY <1>1, <1>2, <1>5, <1>6
<1> QED
  BY <1>6, <1>18, <1>19, Resumed


(* The last frame is popped. *)
Popped(fs, gs, rs, a, m, r) ==
  /\ Sound(gs, rs, a) /\ Pops(fs, gs, m) /\ r = fs[m + 1]
  /\ WaitsFor(gs[m], r.how) /\ gs[m] = fs[m]
  /\ gs[m] \in FrameRecords /\ gs[m].scopes \in Scopings /\ Level(gs[m].scopes, gs[m].todo, rs)
LEMMA FramePopped ==
  ASSUME NEW fs, NEW rs, NEW a, NEW count, NEW n, NEW r, Running(fs, rs, a, count, n, r),
         NEW m, m = n - 1, m # 0, NEW gs, gs = Front(fs),
         \A i \in DOMAIN r.scopes : HasFinally(r.scopes[i]) => rs[r.scopes[i].of] = 1 \/ "jump" \in Habits
  PROVE  Popped(fs, gs, rs, a, m, r)
<1>1. /\ fs \in Seq(FrameRecords) /\ n \in Nat \ {0} /\ n = Len(fs) /\ r = fs[n] /\ Below(fs)
      /\ FramesOK(fs, rs) /\ Flying(fs, a) /\ Shelter(fs) /\ Statements(fs, rs)
  BY RunningType
<1>2. m \in Nat /\ m + 1 = n
  BY <1>1
<1>3. Pops(fs, gs, m)
  BY <1>1, <1>2, PopFrame
<1>4. FramesOK(gs, rs)
  BY <1>1, <1>3, FramesPopped
<1>5. Below(gs) /\ WaitsFor(gs[m], fs[m + 1].how) /\ gs[m] = fs[m]
  BY <1>1, <1>3, BelowPopped
<1>6. Flying(gs, a) /\ Shelter(gs)
  BY <1>1, <1>3, PoppedShelter
<1>7. Statements(gs, rs)
  <2>1. \A i \in DOMAIN fs[m + 1].scopes : HasFinally(fs[m + 1].scopes[i]) =>
          rs[fs[m + 1].scopes[i].of] = 1 \/ "jump" \in Habits
    BY <1>1, <1>2
  <2> QED
    BY <1>1, <1>3, <2>1, StatementsPopped
<1>8. gs[m] \in FrameRecords /\ gs[m].scopes \in Scopings /\ Level(gs[m].scopes, gs[m].todo, rs)
  <2>1. m \in DOMAIN gs
    BY <1>3 DEF Pops
  <2> QED
    BY <1>4, <2>1, ScopesType
<1>9. r = fs[m + 1] /\ WaitsFor(gs[m], r.how) /\ gs[m] = fs[m]
  BY <1>1, <1>2, <1>5
<1>10. Sound(gs, rs, a)
  BY <1>4, <1>5, <1>6, <1>7 DEF Sound
<1> QED
  BY <1>3, <1>8, <1>9, <1>10 DEF Popped

(* The frame below goes on. *)
LEMMA GoesOn ==
  ASSUME NEW fs, NEW rs, NEW a, Sound(fs, rs, a), NEW m, NEW r, r = fs[m], r \in FrameRecords,
         NEW d, Stays(r, r.scopes, d, rs), NEW o, o = r.operand, o # Null => d = <<DropOperand>>,
         NEW q, Framed(q, r, r.scopes, d, o), NEW gs, Replaced(fs, gs, m, q),
         NEW cnt, Counted(fs, a, cnt)
  PROVE  StateOK(gs, rs, a, cnt) /\ gs # <<>>
<1>1. PICK s : s = r.scopes
  OBVIOUS
<1>2. r.scopes \in Scopings /\ Stays(r, s, d, rs) /\ Framed(q, r, s, d, o)
  BY <1>1, FrameFields
<1>3. Sound(gs, rs, a)
  BY <1>2, SoundStays
<1>4. gs \in Seq(FrameRecords) /\ gs # <<>> /\ gs[Len(gs)] = q
  BY DEF Replaced
<1>5. Waits(gs)
  <2>1. Below(gs) /\ Runs(gs[Len(gs)])
    BY <1>3, <1>4 DEF Sound, Framed, Runs
  <2> QED
    BY <1>4, <2>1, WaitsBelow
<1>6. Counted(gs, a, cnt)
  <2>1. \A u \in Obj : References(q, u) = References(r, u)
    BY <1>1 DEF Framed, References
  <2> QED
    BY <2>1, NothingDropped
<1> QED
  BY <1>3, <1>4, <1>5, <1>6 DEF Sound, StateOK

(* What a frame that returns refers to. *)
RefersOnly(r, u) ==
  /\ Habits = {} => References(r, u) \subseteq {<<"destructor", 0>>}
  /\ u = r.obj <=> <<"destructor", 0>> \in References(r, u)
LEMMA ReturnReferences ==
  ASSUME NEW r, NEW s, s = r.scopes, \A j \in DOMAIN s : s[j].owns = FALSE /\ (s[j].exc # Null => Habits # {}),
         r.operand = Null, NEW u \in Obj
  PROVE  RefersOnly(r, u)
<1>1. u # Null
  BY NullAssumption
<1>2. PICK x : x = <<"destructor", 0>>
  OBVIOUS
<1>3. x \in References(r, u) <=> u = r.obj
  <2>1. \A i : x # <<"variable", i>> /\ x # <<"caught", i>>
    BY <1>2
  <2> QED
    BY <1>1, <1>2, <2>1, ReferenceIn
<1>4. Habits = {} => \A y : y \in References(r, u) => y = x
  <2> SUFFICES ASSUME Habits = {}, NEW y, y \in References(r, u) PROVE y = x
    OBVIOUS
  <2>1. \A i \in DOMAIN r.scopes : ~Held(r.scopes, i, u) /\ ~Caught(r.scopes, i, u)
    BY <1>1 DEF Held, Caught
  <2> QED
    BY <1>1, <1>2, <2>1, ReferenceIn
<1> QED
  BY <1>2, <1>3, <1>4 DEF RefersOnly

(* The object of a destructor is released. *)
ReleasedOnce(count, cnt, o) ==
  /\ o = Null => cnt = count
  /\ o # Null /\ count[o] > 0 => Lowered(count, cnt, o)
LEMMA PoppedCount ==
  ASSUME NEW fs, NEW a, NEW count, Counted(fs, a, count), NEW m, NEW gs, Pops(fs, gs, m),
         NEW r, r = fs[m + 1], \A u \in Obj : RefersOnly(r, u),
         NEW o, o = r.obj, o \in Obj \/ o = Null, NEW cnt, ReleasedOnce(count, cnt, o)
  PROVE  Counted(gs, a, cnt) /\ (o \in Obj => count[o] > 0)
<1>1. PICK x : x = <<"destructor", 0>>
  OBVIOUS
<1>2. \A u \in Obj : /\ Habits = {} => References(fs[m + 1], u) \subseteq {x}
                     /\ u = o <=> x \in References(fs[m + 1], u)
  BY <1>1 DEF RefersOnly
<1>3. \A u \in Obj : u # o => Covers(count[u], OwnersIn(gs, a, u))
  <2> SUFFICES ASSUME NEW u \in Obj, u # o PROVE Covers(count[u], OwnersIn(gs, a, u))
    OBVIOUS
  <2>1. PICK k : k = count[u]
    OBVIOUS
  <2>2. Covers(k, OwnersIn(fs, a, u))
    BY <2>1 DEF Counted
  <2>3. Habits = {} => References(fs[m + 1], u) = {}
    BY <1>2
  <2>4. Covers(k, OwnersIn(gs, a, u))
    BY <2>2, <2>3, CountPopped
  <2> QED
    BY <2>1, <2>4
<1>4. CASE o = Null
  <2>1. cnt = count /\ o \notin Obj
    BY <1>4, NullAssumption DEF ReleasedOnce
  <2> QED
    BY <1>3, <2>1 DEF Counted
<1>5. CASE o \in Obj
  <2>1. PICK k : k = count[o]
    OBVIOUS
  <2>2. Covers(k, OwnersIn(fs, a, o))
    BY <1>5, <2>1 DEF Counted
  <2>3. x \in References(fs[m + 1], o) /\ (Habits = {} => References(fs[m + 1], o) = {x})
    BY <1>2, <1>5
  <2>4. k \in Nat /\ k > 0 /\ k - 1 \in Nat /\ Covers(k - 1, OwnersIn(gs, a, o))
    BY <2>2, <2>3, CountPopped
  <2>5. Lowered(count, cnt, o)
    BY <1>5, <2>1, <2>4, NullAssumption DEF ReleasedOnce
  <2>6. cnt[o] = k - 1 /\ \A u \in Obj : u # o => cnt[u] = count[u]
    BY <2>1, <2>5 DEF Lowered
  <2> QED
    BY <1>3, <2>1, <2>4, <2>6 DEF Counted
<1> QED
  BY <1>4, <1>5

(* No frame is left. *)
LEMMA NoStatements ==
  ASSUME NEW fs, NEW rs, NEW a, NEW count, NEW n, n = 1, NEW r, Running(fs, rs, a, count, n, r),
         \A i \in DOMAIN r.scopes : HasFinally(r.scopes[i]) => rs[r.scopes[i].of] = 1 \/ "jump" \in Habits
  PROVE  Statements(<<>>, rs)
<1>1. Statements(fs, rs) /\ r = fs[n] /\ DOMAIN fs = 1 .. n
  BY RunningType
<1>2. \A f, i : ~Place(<<>>, f, i) /\ ~OpenAt(<<>>, f, i)
  BY DEF Place, OpenAt
<1>3. \A t \in Try : rs[t] \in {0, 1}
  BY <1>1 DEF Statements
<1>4. ASSUME NEW t \in Try, rs[t] = 0, "jump" \notin Habits PROVE FALSE
  <2>1. PICK f, i \in Nat : OpenAt(fs, f, i) /\ fs[f].scopes[i].of = t
    BY <1>1, <1>4 DEF Statements
  <2>2. f = n /\ i \in DOMAIN r.scopes /\ HasFinally(r.scopes[i])
    BY <1>1, <2>1 DEF OpenAt, Place
  <2>3. rs[t] = 1
    BY <1>1, <1>4, <2>1, <2>2
  <2> QED
    BY <1>4, <2>3
<1> QED
  BY <1>2, <1>3, <1>4 DEF Statements

LEMMA Finished ==
  ASSUME IInv, program' = program, ended' \in {"returned", "unhandled"},
         frames' = <<>>, runs' = runs, Statements(<<>>, runs),
         NEW b \in Obj \cup {Null}, active_exception' = b,
         NEW cnt \in [Obj -> Nat], ref_count' = cnt,
         ended' = "unhandled" \/ Counted(<<>>, b, cnt)
  PROVE  IInv'
<1>1. PICK gs : gs = <<>>
  OBVIOUS
<1>2. /\ FramesOK(gs, runs) /\ Waits(gs) /\ Flying(gs, b) /\ Shelter(gs) /\ Statements(gs, runs)
  <2>1. gs \in Seq(FrameRecords) /\ DOMAIN gs = {}
    BY <1>1
  <2>2. FramesOK(gs, runs) /\ Waits(gs)
    BY <2>1 DEF FramesOK, Waits
  <2>3. Flying(gs, b) /\ Shelter(gs)
    BY <2>1 DEF Flying, Shelter, UnwindsAt
  <2> QED
    BY <1>1, <2>2, <2>3
<1>3. PICK rs : rs = runs
  OBVIOUS
<1>4. /\ FramesOK(gs, rs)' /\ Waits(gs)' /\ Flying(gs, b)' /\ Shelter(gs)' /\ Statements(gs, rs)'
      /\ Counted(gs, b, cnt)' <=> Counted(gs, b, cnt)
  BY <1>2, <1>3, SameHabits
<1>5. /\ FramesOK(frames, runs)' /\ Waits(frames)' /\ Flying(frames, active_exception)' /\ Shelter(frames)'
      /\ Statements(frames, runs)' /\ (ended' # "unhandled" => Counted(frames, active_exception, ref_count)')
  BY <1>1, <1>3, <1>4
<1>6. Types'
  BY DEF IInv, Types
<1> QED
  BY <1>5, <1>6 DEF IInv

(* RETURN of the main function: nothing refers to anything. *)
LEMMA MainCounted ==
  ASSUME NEW fs, NEW a, NEW count, Counted(fs, a, count), NEW r, r = fs[1], DOMAIN fs = {1},
         \A u \in Obj : RefersOnly(r, u), r.obj = Null
  PROVE  Counted(<<>>, a, count)
<1> SUFFICES ASSUME NEW u \in Obj PROVE Covers(count[u], OwnersIn(<<>>, a, u))
  BY DEF Counted
<1>1. PICK k, gs : k = count[u] /\ gs = <<>>
  OBVIOUS
<1>2. Covers(k, OwnersIn(fs, a, u))
  BY <1>1 DEF Counted
<1>3. Habits = {} => References(fs[1], u) = {}
  BY NullAssumption DEF RefersOnly
<1>4. DOMAIN gs = {}
  BY <1>1
<1>5. \A e : e \in OwnersIn(gs, a, u) => e \in OwnersIn(fs, a, u)
  BY <1>4, OwnerIn
<1>6. Habits = {} => \A e : e \in OwnersIn(fs, a, u) => e \in OwnersIn(gs, a, u)
  BY <1>3, OwnerIn
<1>7. Covers(k, OwnersIn(gs, a, u))
  BY <1>2, <1>5, <1>6, CoverLess
<1> QED
  BY <1>1, <1>7

LEMMA ReturnFrameStep ==
  ASSUME IInv, ReturnFrame
  PROVE  IInv'
<1>1. PICK n, r, s, o, a : n = Len(frames) /\ r = Top /\ s = Scopes /\ o = r.obj /\ a = active_exception
  OBVIOUS
<1>2. PICK cnt : cnt = Decreased(o)
  OBVIOUS
<1>3. Executes("RETURN") /\ ref_count' = cnt /\ UNCHANGED <<program, active_exception, runs>>
  BY <1>1, <1>2 DEF ReturnFrame
<1>4. /\ Running(frames, runs, active_exception, ref_count, n, r)
      /\ r.todo # <<>> /\ r.todo[1].op = "RETURN" /\ ended = "no" /\ r.operand = Null
      /\ Level(s, r.todo, runs) /\ s = r.scopes
      /\ active_exception \in Obj \cup {Null} /\ ref_count \in [Obj -> Nat] /\ runs \in [Try -> Nat]
  BY <1>1, <1>3, Executing
<1>5. Running(frames, runs, a, ref_count, n, r)
  BY <1>1, <1>4
<1>6. /\ frames \in Seq(FrameRecords) /\ n \in Nat \ {0} /\ DOMAIN frames = 1 .. n /\ r = frames[n]
      /\ r \in FrameRecords /\ (r.obj # Null => r.how = "destructor") /\ FramesOK(frames, runs)
      /\ Counted(frames, a, ref_count)
  BY <1>5, RunningType
<1>7. o \in Obj \/ o = Null
  BY <1>1, <1>6, FrameFields
<1>8. PICK c : c = r.todo
  OBVIOUS
<1>9. \A j \in DOMAIN s : /\ s[j].owns = FALSE /\ (s[j].exc # Null => "catch" \in Habits)
                          /\ (HasFinally(s[j]) => runs[s[j].of] = 1)
  <2> SUFFICES ASSUME NEW j \in DOMAIN s
               PROVE  /\ s[j].owns = FALSE /\ (s[j].exc # Null => "catch" \in Habits)
                      /\ (HasFinally(s[j]) => runs[s[j].of] = 1)
    OBVIOUS
  <2>1. Level(s, c, runs) /\ c # <<>> /\ c[1].op = "RETURN"
    BY <1>4, <1>8
  <2> QED
    BY <2>1, ReturnFacts
<1>10. \A u \in Obj : RefersOnly(r, u)
  <2>1. \A j \in DOMAIN s : s[j].owns = FALSE /\ (s[j].exc # Null => Habits # {})
    BY <1>9
  <2> QED
    BY <1>4, <2>1, ReturnReferences
<1>11. \A i \in DOMAIN r.scopes : HasFinally(r.scopes[i]) => runs[r.scopes[i].of] = 1 \/ "jump" \in Habits
  BY <1>4, <1>9
<1>12. ReleasedOnce(ref_count, cnt, o)
  <2>1. o = Null => cnt = ref_count
    BY <1>2 DEF Decreased
  <2>2. o # Null /\ ref_count[o] > 0 => Lowered(ref_count, cnt, o)
    BY <1>2, <1>4, <1>7, DecreasedOne
  <2> QED
    BY <2>1, <2>2 DEF ReleasedOnce
<1>13. CASE n = 1
  <2>1. frames' = <<>> /\ ended' = "returned"
    BY <1>1, <1>13 DEF ReturnFrame
  <2>2. o = Null
    BY <1>1, <1>6, <1>13 DEF FramesOK
  <2>3. cnt = ref_count
    BY <1>12, <2>2 DEF ReleasedOnce
  <2>4. Counted(<<>>, a, cnt)
    <3>1. r = frames[1] /\ DOMAIN frames = {1} /\ r.obj = Null
      BY <1>1, <1>6, <1>13, <2>2
    <3> QED
      BY <1>6, <1>10, <2>3, <3>1, MainCounted
  <2>5. Statements(<<>>, runs)
    BY <1>5, <1>11, <1>13, NoStatements
  <2>6. /\ program' = program /\ ended' \in {"returned", "unhandled"} /\ runs' = runs
        /\ a \in Obj \cup {Null} /\ active_exception' = a /\ cnt \in [Obj -> Nat]
        /\ (ended' = "unhandled" \/ Counted(<<>>, a, cnt))
    BY <1>1, <1>3, <1>4, <2>1, <2>3, <2>4
  <2> QED
    BY <1>3, <2>1, <2>5, <2>6, Finished
<1>14. CASE n # 1
  <2>1. PICK m, gs : m = n - 1 /\ gs = Front(frames)
    OBVIOUS
  <2>2. m # 0 /\ m \in Nat
    BY <1>6, <1>14, <2>1
  <2>3. Popped(frames, gs, runs, a, m, r)
    BY <1>5, <1>11, <2>1, <2>2, FramePopped
  <2>4. /\ Sound(gs, runs, a) /\ Pops(frames, gs, m) /\ r = frames[m + 1]
        /\ WaitsFor(gs[m], r.how) /\ gs[m] = frames[m]
        /\ gs[m] \in FrameRecords /\ gs[m].scopes \in Scopings /\ Level(gs[m].scopes, gs[m].todo, runs)
    BY <2>3 DEF Popped
  <2>5. Counted(gs, a, cnt) /\ (o \in Obj => ref_count[o] > 0)
    BY <1>1, <1>6, <1>7, <1>10, <1>12, <2>4, PoppedCount
  <2>6. cnt \in [Obj -> Nat]
    <3>1. CASE o = Null
      BY <1>4, <1>12, <3>1 DEF ReleasedOnce
    <3>2. CASE o \in Obj
      BY <1>12, <2>5, <3>2, NullAssumption DEF ReleasedOnce, Lowered
    <3> QED
      BY <1>7, <3>1, <3>2
  <2>7. PICK b, t, x : b = gs[m] /\ t = b.operand
                       /\ x = (IF r.how # "destructor" /\ t # Null THEN <<DropOperand>> ELSE <<>>)
    OBVIOUS
  <2>8. PICK d : d = x \o b.todo
    OBVIOUS
  <2>9. PICK q : q = [b EXCEPT !.todo = d, !.operand = t]
    OBVIOUS
  <2>10. PICK hs : hs = [gs EXCEPT ![m] = q]
    OBVIOUS
  <2>11. b \in FrameRecords /\ b.todo \in Code /\ (t \in Obj \/ t = Null) /\ b.scopes \in Scopings
    BY <2>4, <2>7, FrameFields
  <2>12. /\ t # Null => d = <<DropOperand>>
         /\ (d = <<DropOperand>> /\ b.todo = <<>>) \/ d = b.todo
    <3>1. (t # Null => r.how # "destructor") /\ (r.how # "destructor" => b.todo = <<>>)
      BY <2>4, <2>7 DEF WaitsFor
    <3>2. <<DropOperand>> \o <<>> = <<DropOperand>>
      OBVIOUS
    <3>3. <<>> \o b.todo = b.todo
      BY <2>11 DEF Code
    <3> QED
      BY <2>7, <2>8, <3>1, <3>2, <3>3
  <2>13. Stays(b, b.scopes, d, runs)
    <3>1. Level(b.scopes, d, runs)
      <4>1. Level(b.scopes, b.todo, runs)
        BY <2>4, <2>7
      <4>2. b.todo = <<>> => Level(b.scopes, <<DropOperand>>, runs)
        BY <4>1, OperandLevel
      <4> QED
        BY <2>12, <4>1, <4>2
    <3>2. SameBlocks(b.scopes, b.scopes)
      BY NothingMoved
    <3>3. EndsIn(d, {"unwind"}) => EndsIn(b.todo, {"unwind"})
      <4>1. ~EndsIn(<<DropOperand>>, {"unwind"})
        BY DEF EndsIn, DropOperand
      <4> QED
        BY <2>12, <4>1
    <3> QED
      BY <3>1, <3>2, <3>3 DEF Stays
  <2>14. Framed(q, b, b.scopes, d, t)
    <3>1. d \in Code
      BY <2>13, LevelType DEF Stays
    <3> QED
      BY <2>9, <2>11, <3>1, FrameChange
  <2>15. Replaced(gs, hs, m, q)
    <3>1. gs \in Seq(FrameRecords) /\ gs # <<>> /\ m = Len(gs) /\ q \in FrameRecords
          /\ q.how = gs[m].how /\ q.obj = gs[m].obj
      BY <2>4, <2>7, <2>14 DEF Pops, Framed
    <3> QED
      BY <2>10, <3>1, ReplaceFrame
  <2>16. StateOK(hs, runs, a, cnt) /\ hs # <<>>
    BY <2>4, <2>5, <2>7, <2>11, <2>12, <2>13, <2>14, <2>15, GoesOn
  <2>17. frames' = hs /\ ended' = ended
    <3>1. /\ frames' = [Callers EXCEPT ![Len(Callers)].todo =
                            (IF Top.how # "destructor" /\ frames[Len(frames) - 1].operand # Null
                               THEN <<DropOperand>> ELSE <<>>) \o @]
          /\ ended' = ended
      BY <1>1, <1>14 DEF ReturnFrame
    <3>2. Callers = gs /\ Len(gs) = m /\ frames[Len(frames) - 1] = gs[m] /\ m \in DOMAIN gs
      BY <1>1, <2>1, <2>4 DEF Callers, Pops
    <3>3. frames' = [gs EXCEPT ![m].todo = x \o @]
      BY <1>1, <2>7, <3>1, <3>2
    <3>4. q = [b EXCEPT !.todo = d]
      BY <2>7, <2>9, <2>11 DEF FrameRecords
    <3>5. frames' = [gs EXCEPT ![m] = [b EXCEPT !.todo = d]]
      BY <2>7, <2>8, <3>3
    <3> QED
      BY <2>10, <3>1, <3>4, <3>5
  <2>18. /\ frames' = hs /\ runs' = runs /\ active_exception' = a /\ ref_count' = cnt
         /\ program' = program /\ ended' = "no" /\ a \in Obj \cup {Null}
    BY <1>1, <1>3, <1>4, <2>17
  <2> QED
    BY <1>4, <2>6, <2>16, <2>18, Resumed
<1> QED
  BY <1>13, <1>14

(* The exception goes on in the caller. *)
CallerUnwinds(b, q, d, l, rs) ==
  /\ Framed(q, b, b.scopes, d, Null) /\ Level(b.scopes, d, rs)
  /\ l = Len(b.scopes) /\ l \in Nat \ {0} /\ DOMAIN b.scopes = 1 .. l
LEMMA CallerCleanup ==
  ASSUME NEW b \in FrameRecords, NEW rs, Level(b.scopes, b.todo, rs), NEW how, how # "destructor", WaitsFor(b, how),
         NEW l, l = Len(b.scopes), NEW d, d = CleanupOf(l), NEW o, o = Null,
         NEW q, q = [b EXCEPT !.todo = d, !.operand = o]
  PROVE  CallerUnwinds(b, q, d, l, rs)
<1>1. b.todo = <<>> /\ \A j \in Live(b.scopes, Len(b.scopes) + 1) : Intact(b.scopes[j])
  BY DEF WaitsFor
<1>2. PICK s, c : s = b.scopes /\ c = <<>>
  OBVIOUS
<1>3. Level(s, c, rs)
  BY <1>1, <1>2
<1>4. /\ s \in Scopings /\ ScopesOK(s, rs) /\ LevelOK(s, Len(s) + 1, c, rs)
      /\ Len(s) \in Nat \ {0} /\ DOMAIN s = 1 .. Len(s) /\ Len(s) + 1 \in Nat
  BY <1>3, LevelType
<1>5. l \in Nat \ {0} /\ l <= Len(s) /\ l = Len(s)
  BY <1>2, <1>4
<1>6. PICK i : i = l + 1
  OBVIOUS
<1>7. LevelOK(s, i, c, rs) /\ i \in Nat /\ (c = <<>> \/ c = <<DropOperand>>)
  BY <1>2, <1>4, <1>5, <1>6
<1>8. \A j \in Live(s, i) : Untouched(s[j]) /\ (HasFinally(s[j]) => rs[s[j].of] = 0)
  BY <1>4, <1>7, AtStatement
<1>9. \A j \in Live(s, l + 1) : Intact(s[j]) /\ (HasFinally(s[j]) => rs[s[j].of] = 0)
  BY <1>1, <1>2, <1>5, <1>6, <1>8
<1>10. LevelOK(s, l + 1, CleanupOf(l), rs) /\ CleanupOf(l) \in Code
  BY <1>4, <1>5, <1>9, CleanupCode
<1>11. Level(s, d, rs)
  BY <1>4, <1>5, <1>10 DEF Level
<1>12. Framed(q, b, b.scopes, d, o)
  <2>1. s \in Scopings /\ d \in Code /\ (o \in Obj \/ o = Null)
    BY <1>4, <1>10
  <2> QED
    BY <2>1, FrameChange
<1> QED
  BY <1>2, <1>4, <1>5, <1>11, <1>12 DEF CallerUnwinds

(* Nothing else unwinds, and no barrier is in the way. *)
LEMMA CallerShelter ==
  ASSUME NEW fs, NEW rs, NEW a, NEW count, NEW n, NEW r, Running(fs, rs, a, count, n, r),
         NEW k, k = 1, Flies(fs, a, n, k), r.scopes[k].kind = "body",
         NEW m, NEW gs, Popped(fs, gs, rs, a, m, r),
         NEW b, b = gs[m], NEW d, NEW l, NEW q, CallerUnwinds(b, q, d, l, rs),
         NEW hs, Replaced(gs, hs, m, q)
  PROVE  Flying(hs, a) /\ Shelter(hs)
<1>1. /\ n \in Nat \ {0} /\ n = Len(fs) /\ DOMAIN fs = 1 .. n /\ r = fs[n]
  BY RunningType
<1>2. /\ Pops(fs, gs, m) /\ gs[m] = fs[m]
  BY DEF Popped
<1>3. /\ m \in Nat \ {0} /\ n = m + 1 /\ DOMAIN gs = 1 .. m /\ \A f \in 1 .. m : gs[f] = fs[f] /\ f \in 1 .. n
  BY <1>1, <1>2 DEF Pops
<1>4. /\ a # Null /\ Sheltered(fs, n, k)
      /\ \A g, j \in Nat : UnwindsAt(fs, g, j) => g = n /\ j = k + 1
  BY DEF Flies
<1>5. /\ q.scopes = b.scopes /\ q.todo = d /\ l = Len(b.scopes) /\ l \in Nat \ {0} /\ DOMAIN b.scopes = 1 .. l
  BY DEF CallerUnwinds, Framed
<1>6. /\ DOMAIN hs = 1 .. m /\ hs[m] = q /\ \A f \in 1 .. m : f # m => hs[f] = gs[f]
  BY DEF Replaced
<1>7. PICK i0 : i0 = l + 1
  OBVIOUS
<1>8. OnlyAt(hs, m, i0)
  <2> SUFFICES ASSUME NEW f \in Nat, NEW i \in Nat, UnwindsAt(hs, f, i) PROVE f = m /\ i = i0
    BY DEF OnlyAt
  <2>1. f \in 1 .. m /\ UnwindsIn(hs[f], i)
    BY <1>6 DEF UnwindsAt
  <2>2. f # n /\ f \in DOMAIN fs
    BY <1>1, <1>3, <2>1
  <2>3. ~UnwindsIn(fs[f], i)
    BY <1>4, <2>2 DEF UnwindsAt
  <2>4. f = m
    BY <1>3, <1>6, <2>1, <2>3
  <2>5. \/ i = l + 1
        \/ i \in DOMAIN b.scopes /\ b.scopes[i].kind = "finally" /\ EndsIn(b.scopes[i].after, {"unwind"})
    BY <1>5, <1>6, <2>1, <2>4 DEF UnwindsIn
  <2>6. b = fs[f]
    BY <1>2, <2>4
  <2> QED
    BY <1>7, <2>3, <2>4, <2>5, <2>6 DEF UnwindsIn
<1>9. Sheltered(fs, m, l)
  <2>1. ASSUME NEW h \in Nat, NEW i \in Nat, UpTo(h, i, m, l) PROVE UpTo(h, i, n, k)
    BY <1>3, <2>1 DEF UpTo
  <2>2. ASSUME NEW h \in Nat, NEW i \in Nat, Place(fs, h, i), UpTo(h, i, n, k), fs[h].scopes[i].kind = "try"
        PROVE  UpTo(h, i, m, l)
    <3>1. h # n
      <4> SUFFICES ASSUME h = n PROVE FALSE
        OBVIOUS
      <4>1. i \in DOMAIN r.scopes /\ i <= 1
        BY <1>1, <2>2 DEF Place, UpTo
      <4>2. r.scopes \in Scopings
        BY RunningType
      <4>3. i = k
        BY <4>1, <4>2, ScopingType
      <4> QED
        BY <1>1, <2>2, <4>3
    <3>2. h <= m
      BY <1>3, <2>2, <3>1 DEF UpTo
    <3>3. h = m => i <= l
      BY <1>2, <1>5, <2>2 DEF Place
    <3> QED
      BY <1>3, <3>2, <3>3 DEF UpTo
  <2>3. \A h, i \in Nat : Place(fs, h, i) /\ UpTo(h, i, m, l) => UpTo(h, i, n, k)
    BY <2>1
  <2>4. \A h, i \in Nat : Place(fs, h, i) /\ UpTo(h, i, n, k) /\ fs[h].scopes[i].kind = "try" => UpTo(h, i, m, l)
    BY <2>2
  <2> QED
    BY <1>4, <2>3, <2>4, ShelterBelow
<1>10. Sheltered(gs, m, l)
  <2>1. /\ m \in Nat /\ m <= m /\ 0 \notin DOMAIN fs /\ 0 \notin DOMAIN gs
        /\ \A f \in 1 .. m : f \in DOMAIN fs /\ f \in DOMAIN gs /\ gs[f] = fs[f]
    BY <1>1, <1>3
  <2>2. AlikeUpTo(fs, gs, m, l)
    BY <2>1, SameAlike
  <2> QED
    BY <1>9, <2>2, ShelteredAlike
<1>11. Sheltered(hs, m, l)
  <2>1. m \in DOMAIN hs /\ m \in Nat /\ i0 \in Nat /\ i0 - 1 = l
    BY <1>3, <1>5, <1>6, <1>7
  <2>2. PICK s : s = b.scopes
    OBVIOUS
  <2>3. \A i \in Nat : PrefixAlike(s, s, i)
    BY NothingMoved
  <2>4. m = m => PrefixAlike(gs[m].scopes, q.scopes, i0)
    BY <1>5, <2>1, <2>2, <2>3
  <2>5. AlikeUpTo(gs, hs, m, i0 - 1)
    BY <2>1, <2>4, ReplacedAlike
  <2> QED
    BY <1>10, <2>1, <2>5, ShelteredAlike
<1>12. l = i0 - 1
  BY <1>5, <1>7
<1> QED
  BY <1>4, <1>8, <1>11, <1>12, OneShelter

(* The operand of the call is left on the stack and lost: not if no exception
   passes a call with an operand. *)
LEMMA CallerOperand ==
  ASSUME NEW fs, NEW n \in Nat, n > 1, NEW m, m = n - 1, ~BarrierAt(fs, n, 1),
         fs[n].scopes[1].kind = "body", fs[m].operand # Null
  PROVE  Habits # {}
<1> SUFFICES ASSUME Habits = {} PROVE FALSE
  OBVIOUS
<1>1. <<n, 1>>[1] = n /\ <<n, 1>>[2] = 1
  OBVIOUS
<1>2. "operand" \notin Habits
  OBVIOUS
<1>3. Barrier(fs, <<n, 1>>)
  BY <1>1, <1>2 DEF Barrier, KindAt
<1> QED
  BY <1>3 DEF BarrierAt

LEMMA CallerCounted ==
  ASSUME NEW gs, NEW a, NEW count, Counted(gs, a, count), NEW m, NEW b, b = gs[m],
         NEW d, NEW q, Framed(q, b, b.scopes, d, Null), b.operand # Null => Habits # {},
         NEW hs, Replaced(gs, hs, m, q)
  PROVE  Counted(hs, a, count)
<1> SUFFICES ASSUME NEW u \in Obj PROVE Covers(count[u], OwnersIn(hs, a, u))
  BY DEF Counted
<1>1. PICK k : k = count[u]
  OBVIOUS
<1>2. Covers(k, OwnersIn(gs, a, u))
  BY <1>1 DEF Counted
<1>3. q.scopes = b.scopes /\ q.operand = Null /\ q.obj = b.obj /\ u # Null
  BY NullAssumption DEF Framed
<1>4. References(q, u) \subseteq References(gs[m], u)
  BY <1>3 DEF References
<1>5. Habits = {} => References(gs[m], u) \subseteq References(q, u)
  BY <1>3 DEF References
<1>6. Covers(k, OwnersIn(hs, a, u))
  BY <1>2, <1>4, <1>5, CountLess
<1> QED
  BY <1>1, <1>6

(* The body of a function unwinds. *)
BodyUnwinds(r, s, n, a, rs) ==
  /\ Flies(frames, a, n, 1) /\ s[1].kind = "body" /\ DOMAIN s = {1}
  /\ \A u \in Obj : RefersOnly(r, u)
  /\ \A i \in DOMAIN r.scopes : HasFinally(r.scopes[i]) => rs[r.scopes[i].of] = 1 \/ "jump" \in Habits
LEMMA BodyFacts ==
  ASSUME IInv, Executes("unwind"), Last(Scopes).kind = "body", NEW n, n = Len(frames), NEW r, r = Top,
         NEW s, s = Scopes, NEW a, a = active_exception
  PROVE  /\ BodyUnwinds(r, s, n, a, runs) /\ Running(frames, runs, a, ref_count, n, r)
         /\ ended = "no" /\ s = r.scopes
         /\ a \in Obj \cup {Null} /\ ref_count \in [Obj -> Nat] /\ runs \in [Try -> Nat]
<1>1. /\ Running(frames, runs, active_exception, ref_count, n, r)
      /\ r.todo # <<>> /\ r.todo[1].op = "unwind" /\ ended = "no" /\ r.operand = Null
      /\ Level(s, r.todo, runs) /\ s = r.scopes
      /\ active_exception \in Obj \cup {Null} /\ ref_count \in [Obj -> Nat] /\ runs \in [Try -> Nat]
  BY Executing
<1>2. Running(frames, runs, a, ref_count, n, r)
  BY <1>1
<1>3. PICK c, l : c = r.todo /\ l = Len(s)
  OBVIOUS
<1>4. Level(s, c, runs) /\ c # <<>> /\ c[1].op = "unwind"
  BY <1>1, <1>3
<1>5. /\ s \in Scopings /\ l \in DOMAIN s /\ DOMAIN s = 1 .. l /\ s # <<>>
      /\ \A j \in DOMAIN s : ScopeOK(s[j]) /\ (s[j].kind = "body" <=> j = 1)
  BY <1>3, <1>4, LevelType
<1>6. l = 1 /\ s[l].kind = "body"
  <2>1. Last(s) = s[l]
    BY <1>3, <1>5, FrontCut
  <2> QED
    BY <1>5, <2>1
<1>7. Unwound(s, c, runs, l)
  BY <1>3, <1>4, UnwindFacts
<1>8. EndsIn(r.todo, {"unwind"}) /\ s[1].owns = FALSE
  BY <1>3, <1>6, <1>7 DEF Unwound
<1>9. Flies(frames, a, n, l)
  BY <1>1, <1>2, <1>3, <1>8, FliesNow
<1>10. DOMAIN s = {1}
  BY <1>5, <1>6
<1>11. \A u \in Obj : RefersOnly(r, u)
  <2>1. \A j \in DOMAIN s : s[j].owns = FALSE /\ (s[j].exc # Null => Habits # {})
    BY <1>5, <1>6, <1>8, <1>10 DEF ScopeOK
  <2> QED
    BY <1>1, <2>1, ReturnReferences
<1>12. \A i \in DOMAIN r.scopes : HasFinally(r.scopes[i]) => runs[r.scopes[i].of] = 1 \/ "jump" \in Habits
  BY <1>1, <1>6, <1>10 DEF HasFinally
<1>13. BodyUnwinds(r, s, n, a, runs)
  BY <1>6, <1>9, <1>10, <1>11, <1>12 DEF BodyUnwinds
<1> QED
  BY <1>1, <1>2, <1>13

LEMMA UnwindFrameStep ==
  ASSUME IInv, UnwindFrame
  PROVE  IInv'
<1>1. PICK n, r, s, a : n = Len(frames) /\ r = Top /\ s = Scopes /\ a = active_exception
  OBVIOUS
<1>2. /\ Executes("unwind") /\ Last(Scopes).kind = "body" /\ r.how = "call"
      /\ frames' = [Callers EXCEPT ![Len(Callers)] =
                      [Last(Callers) EXCEPT !.operand = Null, !.todo = CleanupOf(Len(Last(Callers).scopes))]]
      /\ UNCHANGED <<program, ref_count, active_exception, runs, ended>>
  BY <1>1 DEF UnwindFrame, Registered
<1>3. /\ BodyUnwinds(r, s, n, a, runs) /\ Running(frames, runs, a, ref_count, n, r)
      /\ ended = "no" /\ s = r.scopes
      /\ a \in Obj \cup {Null} /\ ref_count \in [Obj -> Nat] /\ runs \in [Try -> Nat]
  BY <1>1, <1>2, BodyFacts
<1>4. /\ Flies(frames, a, n, 1) /\ s[1].kind = "body" /\ \A u \in Obj : RefersOnly(r, u)
      /\ \A i \in DOMAIN r.scopes : HasFinally(r.scopes[i]) => runs[r.scopes[i].of] = 1 \/ "jump" \in Habits
  BY <1>3 DEF BodyUnwinds
<1>5. /\ n \in Nat \ {0} /\ n \in DOMAIN frames /\ r = frames[n] /\ r \in FrameRecords
      /\ (r.obj # Null => r.how = "destructor") /\ FramesOK(frames, runs) /\ Counted(frames, a, ref_count)
  BY <1>3, RunningType
<1>6. n # 1
  BY <1>2, <1>5 DEF FramesOK
<1>7. PICK m, gs : m = n - 1 /\ gs = Front(frames)
  OBVIOUS
<1>8. m # 0 /\ n > 1 /\ n \in Nat
  BY <1>5, <1>6, <1>7
<1>9. Popped(frames, gs, runs, a, m, r)
  BY <1>3, <1>4, <1>7, <1>8, FramePopped
<1>10. /\ Sound(gs, runs, a) /\ Pops(frames, gs, m) /\ r = frames[m + 1]
       /\ WaitsFor(gs[m], r.how) /\ gs[m] = frames[m]
       /\ gs[m] \in FrameRecords /\ Level(gs[m].scopes, gs[m].todo, runs)
  BY <1>9 DEF Popped
<1>11. PICK b, how, l, w : b = gs[m] /\ how = r.how /\ l = Len(b.scopes) /\ w = Null
  OBVIOUS
<1>12. PICK d : d = CleanupOf(l)
  OBVIOUS
<1>13. PICK q : q = [b EXCEPT !.todo = d, !.operand = w]
  OBVIOUS
<1>14. PICK hs : hs = [gs EXCEPT ![m] = q]
  OBVIOUS
<1>15. CallerUnwinds(b, q, d, l, runs)
  <2>1. b \in FrameRecords /\ Level(b.scopes, b.todo, runs) /\ how # "destructor" /\ WaitsFor(b, how)
    BY <1>2, <1>10, <1>11
  <2> QED
    BY <1>11, <1>12, <1>13, <2>1, CallerCleanup
<1>16. Framed(q, b, b.scopes, d, Null) /\ Level(b.scopes, d, runs)
  BY <1>15 DEF CallerUnwinds
<1>17. gs \in Seq(FrameRecords) /\ gs # <<>> /\ m = Len(gs) /\ m \in DOMAIN gs
  BY <1>10 DEF Pops
<1>18. Replaced(gs, hs, m, q)
  <2>1. q \in FrameRecords /\ q.how = gs[m].how /\ q.obj = gs[m].obj
    BY <1>11, <1>16 DEF Framed
  <2> QED
    BY <1>14, <1>17, <2>1, ReplaceFrame
<1>19. Flying(hs, a) /\ Shelter(hs)
  <2>1. PICK k : k = 1
    OBVIOUS
  <2>2. Flies(frames, a, n, k) /\ r.scopes[k].kind = "body"
    BY <1>3, <1>4, <2>1
  <2> QED
    BY <1>3, <1>9, <1>11, <1>15, <1>18, <2>1, <2>2, CallerShelter
<1>20. FramesOK(gs, runs) /\ Below(gs) /\ Statements(gs, runs)
  BY <1>10 DEF Sound
<1>21. q.scopes = b.scopes /\ q.todo = d /\ q.operand = Null
  BY <1>16 DEF Framed
<1>22. FramesOK(hs, runs)
  <2>1. OthersRun(gs, m, runs, runs)
    BY SameOthers
  <2>2. Level(q.scopes, q.todo, runs)
    BY <1>16, <1>21
  <2> QED
    BY <1>18, <1>20, <2>1, <2>2, FramesReplaced
<1>23. hs \in Seq(FrameRecords) /\ hs # <<>> /\ hs[Len(hs)] = q
  BY <1>18 DEF Replaced
<1>24. Waits(hs)
  <2>1. Below(hs)
    BY <1>18, <1>20, BelowReplaced
  <2>2. Runs(hs[Len(hs)])
    BY <1>21, <1>23 DEF Runs
  <2> QED
    BY <1>23, <2>1, <2>2, WaitsBelow
<1>25. Statements(hs, runs)
  <2>1. PICK z : z = b.scopes
    OBVIOUS
  <2>2. SameBlocks(z, z)
    BY NothingMoved
  <2>3. StatementScopes(z, z, runs, runs)
    BY <2>2, SameStatements
  <2>4. StatementScopes(gs[m].scopes, q.scopes, runs, runs)
    BY <1>11, <1>21, <2>1, <2>3
  <2> QED
    BY <1>18, <1>20, <2>4, StatementsReplaced
<1>26. Counted(gs, a, ref_count)
  <2>1. PICK o, cnt : o = r.obj /\ cnt = ref_count
    OBVIOUS
  <2>2. o = Null
    BY <1>2, <1>5, <2>1
  <2>3. ReleasedOnce(ref_count, cnt, o) /\ (o \in Obj \/ o = Null)
    BY <2>1, <2>2 DEF ReleasedOnce
  <2>4. Counted(gs, a, cnt)
    BY <1>4, <1>5, <1>10, <2>1, <2>3, PoppedCount
  <2> QED
    BY <2>1, <2>4
<1>27. Counted(hs, a, ref_count)
  <2>1. b.operand # Null => Habits # {}
    <3>1. ~BarrierAt(frames, n, 1) /\ frames[n].scopes[1].kind = "body"
      BY <1>3, <1>4, <1>5 DEF Flies
    <3>2. frames[m].operand # Null => Habits # {}
      BY <1>7, <1>8, <3>1, CallerOperand
    <3> QED
      BY <1>10, <1>11, <3>2
  <2> QED
    BY <1>11, <1>16, <1>18, <1>26, <2>1, CallerCounted
<1>28. StateOK(hs, runs, a, ref_count)
  BY <1>19, <1>22, <1>24, <1>25, <1>27 DEF StateOK
<1>29. frames' = hs
  <2>1. Callers = gs /\ Len(gs) = m /\ Last(gs) = gs[m]
    BY <1>7, <1>17 DEF Callers, Last
  <2>2. frames' = [gs EXCEPT ![m] = [b EXCEPT !.operand = Null, !.todo = CleanupOf(Len(b.scopes))]]
    BY <1>2, <1>11, <2>1
  <2>3. [b EXCEPT !.operand = Null, !.todo = d] = q
    BY <1>10, <1>11, <1>13 DEF FrameRecords
  <2> QED
    BY <1>11, <1>12, <1>14, <2>2, <2>3
<1>30. /\ frames' = hs /\ runs' = runs /\ active_exception' = a /\ ref_count' = ref_count
       /\ program' = program /\ ended' = "no"
  BY <1>1, <1>2, <1>3, <1>29
<1> QED
  BY <1>3, <1>23, <1>28, <1>30, Resumed

LEMMA UnhandledStep ==
  ASSUME IInv, Unhandled
  PROVE  IInv'
<1>1. PICK n, r, s, a, cnt, b : /\ n = Len(frames) /\ r = Top /\ s = Scopes /\ a = active_exception
                                /\ cnt = Decreased(a) /\ b = Null
  OBVIOUS
<1>2. /\ Executes("unwind") /\ Last(Scopes).kind = "body" /\ r.how = "main"
      /\ frames' = <<>> /\ ref_count' = cnt /\ active_exception' = b /\ ended' = "unhandled"
      /\ UNCHANGED <<program, runs>>
  BY <1>1 DEF Unhandled
<1>3. /\ BodyUnwinds(r, s, n, a, runs) /\ Running(frames, runs, a, ref_count, n, r)
      /\ a \in Obj \cup {Null} /\ ref_count \in [Obj -> Nat]
  BY <1>1, <1>2, BodyFacts
<1>4. n \in DOMAIN frames /\ r = frames[n] /\ FramesOK(frames, runs)
  BY <1>3, RunningType
<1>5. n = 1
  BY <1>2, <1>4 DEF FramesOK
<1>6. \A i \in DOMAIN r.scopes : HasFinally(r.scopes[i]) => runs[r.scopes[i].of] = 1 \/ "jump" \in Habits
  BY <1>3 DEF BodyUnwinds
<1>7. Statements(<<>>, runs)
  BY <1>3, <1>5, <1>6, NoStatements
<1>8. cnt \in [Obj -> Nat]
  BY <1>1, <1>3 DEF Decreased
<1>9. b \in Obj \cup {Null} /\ ended' \in {"returned", "unhandled"} /\ runs' = runs /\ program' = program
      /\ (ended' = "unhandled" \/ Counted(<<>>, b, cnt))
  BY <1>1, <1>2
<1> QED
  BY <1>2, <1>7, <1>8, <1>9, Finished

(* A step that changes nothing but how the program ended. *)
LEMMA SameState ==
  ASSUME IInv, UNCHANGED <<program, frames, ref_count, active_exception, runs>>,
         ended' = ended \/ (ended = "no" /\ ended' \in {"unhandled", "misframed"})
  PROVE  IInv'
<1>1. PICK fs, rs, a, count : fs = frames /\ rs = runs /\ a = active_exception /\ count = ref_count
  OBVIOUS
<1>2. program' = program
  OBVIOUS
<1>3. /\ FramesOK(fs, rs)' <=> FramesOK(fs, rs)
      /\ Waits(fs)' <=> Waits(fs)
      /\ Flying(fs, a)' <=> Flying(fs, a)
      /\ Shelter(fs)' <=> Shelter(fs)
      /\ Statements(fs, rs)' <=> Statements(fs, rs)
      /\ Counted(fs, a, count)' <=> Counted(fs, a, count)
  BY <1>2, SameHabits
<1>4. /\ FramesOK(frames, runs)' /\ Waits(frames)' /\ Flying(frames, active_exception)' /\ Shelter(frames)'
      /\ Statements(frames, runs)' /\ (ended # "unhandled" => Counted(frames, active_exception, ref_count)')
  BY <1>1, <1>3 DEF IInv
<1>5. Types'
  BY DEF IInv, Types
<1> QED
  BY <1>4, <1>5 DEF IInv

LEMMA EscapeStep ==
  ASSUME IInv, Escape
  PROVE  IInv'
<1>1. /\ ended = "no" /\ ended' \in {"unhandled", "misframed"}
      /\ UNCHANGED <<program, frames, ref_count, active_exception, runs>>
  BY DEF Escape, Executes
<1> QED
  BY <1>1, SameState

-----------------------------------------------------------------------------
(* Nothing changes the program. *)
LEMMA SameProgram ==
  ASSUME [Next]_vars
  PROVE  program' = program
<1>1. ASSUME NEW kind, NEW t, OpenBlock(kind, t) PROVE program' = program
  BY <1>1 DEF OpenBlock
<1>2. ASSUME NEW o, Declare(o) \/ Throw(o) PROVE program' = program
  BY <1>2 DEF Declare, Throw, Raise
<1>3. ASSUME NEW how, NEW o, Call(how, o) PROVE program' = program
  BY <1>3 DEF Call
<1>4. CASE EndBlock \/ EndDestructor \/ Return
  BY <1>4 DEF EndBlock, EndDestructor, Return
<1>5. ASSUME NEW op, BreakOrContinue(op) PROVE program' = program
  BY <1>5 DEF BreakOrContinue
<1>6. ASSUME NEW i, Rethrow(i) PROVE program' = program
  BY <1>6 DEF Rethrow, Raise
<1>7. CASE ReleaseSlot \/ ReleaseCaughtException \/ ReleaseOperand \/ SuperDestructor
  BY <1>7 DEF ReleaseSlot, ReleaseCaughtException, ReleaseOperand, SuperDestructor
<1>8. CASE RunFinally \/ LeaveBlock \/ LeaveTry
  BY <1>8 DEF RunFinally, LeaveBlock, LeaveTry, FinallyBlock
<1>9. CASE Iterate \/ Break \/ Continue \/ ReturnFrame
  BY <1>9 DEF Iterate, Break, Continue, ReturnFrame
<1>10. CASE CatchException \/ UnwindTry \/ UnwindBlock
  BY <1>10 DEF CatchException, UnwindTry, UnwindBlock, FinallyBlock
<1>11. CASE UnwindFrame \/ Unhandled \/ Escape
  BY <1>11 DEF UnwindFrame, Unhandled, Escape
<1>12. CASE UNCHANGED vars
  BY <1>12 DEF vars
<1> QED
  BY <1>1, <1>2, <1>3, <1>4, <1>5, <1>6, <1>7, <1>8, <1>9, <1>10, <1>11, <1>12 DEF Next

(* The main function starts. *)
LEMMA InitIInv ==
  ASSUME Init
  PROVE  IInv
<1>1. PICK how, o, q, fs, rs, a, count : /\ how = "main" /\ o = Null /\ q = Frame(how, o) /\ fs = <<q>>
                                         /\ rs = runs /\ a = Null /\ count = ref_count
  OBVIOUS
<1>2. /\ program \in Programs /\ frames = fs /\ count = [u \in Obj |-> 0] /\ active_exception = a
      /\ rs = [t \in Try |-> 1] /\ ended = "no"
  BY <1>1 DEF Init
<1>3. Enters(q, how, o, rs)
  BY <1>1, BodyFrame
<1>4. /\ q \in FrameRecords /\ q.how = "main" /\ q.obj = Null /\ q.operand = Null /\ q.todo = <<>>
      /\ Level(q.scopes, q.todo, rs)
      /\ DOMAIN q.scopes = {1} /\ q.scopes[1].kind = "body" /\ q.scopes[1].exc = Null /\ q.scopes[1].owns = FALSE
  BY <1>1, <1>3 DEF Enters
<1>5. fs \in Seq(FrameRecords) /\ DOMAIN fs = {1} /\ Len(fs) = 1 /\ fs[1] = q /\ fs # <<>>
  <2> DEFINE T == FrameRecords
  <2>1. q \in T
    BY <1>4
  <2> HIDE DEF T
  <2>2. fs \in Seq(T) /\ DOMAIN fs = {1} /\ Len(fs) = 1 /\ fs[1] = q /\ fs # <<>>
    BY <1>1, <2>1
  <2> QED
    BY <2>2 DEF T
<1>6. FramesOK(fs, rs)
  BY <1>4, <1>5 DEF FramesOK, FrameOK
<1>7. Waits(fs)
  BY <1>4, <1>5 DEF Waits, Runs
<1>8. Flying(fs, a) /\ Shelter(fs)
  <2>1. \A f, i \in Nat : ~UnwindsAt(fs, f, i)
    BY <1>4, <1>5 DEF UnwindsAt, UnwindsIn, EndsIn
  <2> QED
    BY <2>1, NoneShelter
<1>9. Statements(fs, rs)
  <2>1. \A f, i : Place(fs, f, i) => fs[f].scopes[i].kind = "body"
    BY <1>4, <1>5 DEF Place
  <2>2. \A f, i : ~OpenAt(fs, f, i)
    BY <2>1 DEF OpenAt, HasFinally
  <2> QED
    BY <1>2, <2>1, <2>2 DEF Statements
<1>10. Counted(fs, a, count)
  <2> SUFFICES ASSUME NEW u \in Obj PROVE Covers(count[u], OwnersIn(fs, a, u))
    BY DEF Counted
  <2>1. u # Null
    BY NullAssumption
  <2>2. References(q, u) = {}
    BY <1>4, <2>1 DEF References
  <2>3. OwnersIn(fs, a, u) = {}
    BY <1>1, <1>5, <2>1, <2>2 DEF OwnersIn
  <2> QED
    BY <1>2, <2>3, FS_EmptySet DEF Covers
<1>11. Types
  <2>1. ref_count \in [Obj -> Nat] /\ runs \in [Try -> Nat]
    BY <1>1, <1>2
  <2> QED
    BY <1>1, <1>2, <1>5, <2>1 DEF Types
<1> QED
  BY <1>1, <1>2, <1>6, <1>7, <1>8, <1>9, <1>10, <1>11 DEF IInv

(* Every step keeps the invariant. *)
LEMMA NextIInv ==
  ASSUME IInv, Keeps, [Next]_vars
  PROVE  IInv'
<1>1. ASSUME NEW kind \in {"block", "loop", "try"}, NEW t \in Try \cup {Null}, OpenBlock(kind, t) PROVE IInv'
  BY <1>1, OpenBlockStep
<1>2. ASSUME NEW o \in Obj, Declare(o) PROVE IInv'
  BY <1>2, DeclareStep
<1>3. ASSUME NEW o \in Obj, Throw(o) PROVE IInv'
  BY <1>3, ThrowStep
<1>4. ASSUME NEW how \in {"call", "operator", "initializer"}, NEW o \in Obj \cup {Null}, Call(how, o) PROVE IInv'
  BY <1>4, CallStep
<1>5. CASE EndBlock
  BY <1>5, EndBlockStep
<1>6. CASE Return
  BY <1>6, ReturnStep
<1>7. ASSUME NEW op \in {"break", "continue"}, BreakOrContinue(op) PROVE IInv'
  BY <1>7, BreakOrContinueStep
<1>8. ASSUME NEW i \in 1 .. program.blocks, Rethrow(i) PROVE IInv'
  BY <1>8, RethrowStep
<1>9. CASE ReleaseSlot
  BY <1>9, ReleaseSlotStep
<1>10. CASE ReleaseCaughtException
  BY <1>10, ReleaseCaughtStep
<1>11. CASE ReleaseOperand
  BY <1>11, ReleaseOperandStep
<1>12. CASE RunFinally
  BY <1>12, RunFinallyStep
<1>13. CASE LeaveBlock
  BY <1>13, LeaveBlockStep
<1>14. CASE LeaveTry
  BY <1>14, LeaveTryStep
<1>15. CASE Iterate
  BY <1>15, IterateStep
<1>16. CASE Break
  BY <1>16, BreakStep
<1>17. CASE Continue
  BY <1>17, ContinueStep
<1>18. CASE ReturnFrame
  BY <1>18, ReturnFrameStep
<1>19. CASE CatchException
  BY <1>19, CatchExceptionStep
<1>20. CASE UnwindTry
  BY <1>20, UnwindTryStep
<1>21. CASE UnwindBlock
  BY <1>21, UnwindBlockStep
<1>22. CASE UnwindFrame
  BY <1>22, UnwindFrameStep
<1>23. CASE Unhandled
  BY <1>23, UnhandledStep
<1>24. CASE Escape
  BY <1>24, EscapeStep
<1>25. CASE EndDestructor
  BY <1>25, EndDestructorStep
<1>26. CASE SuperDestructor
  BY <1>26, SuperDestructorStep
<1>27. CASE UNCHANGED vars
  BY <1>27, SameState DEF vars
<1> QED
  BY <1>1, <1>2, <1>3, <1>4, <1>5, <1>6, <1>7, <1>8, <1>9, <1>10, <1>11, <1>12, <1>13, <1>14,
     <1>15, <1>16, <1>17, <1>18, <1>19, <1>20, <1>21, <1>22, <1>23, <1>24, <1>25, <1>26, <1>27 DEF Next

(* The inductive invariant, of programs whose habits keep it. *)
LEMMA Inductive ==
  Spec => [](Keeps => IInv)
<1>1. Init => (Keeps => IInv)
  BY InitIInv
<1>2. (Keeps => IInv) /\ [Next]_vars => (Keeps => IInv)'
  <2> SUFFICES ASSUME Keeps => IInv, [Next]_vars, Keeps' PROVE IInv'
    OBVIOUS
  <2>1. program' = program
    BY SameProgram
  <2>2. Keeps
    BY <2>1 DEF Keeps, Habits
  <2> QED
    BY <2>2, NextIInv
<1> QED
  BY <1>1, <1>2, PTL DEF Spec

-----------------------------------------------------------------------------
(* What the invariant says. *)
LEMMA CodeScopes ==
  ASSUME NEW s, NEW c, NEW rs, Level(s, c, rs), NEW k \in DOMAIN c
  PROVE  c[k].scope \in 0 .. Len(s)
<1>1. c \in Code /\ LevelOK(s, Len(s) + 1, c, rs) /\ Len(s) \in Nat /\ (Len(s) + 1) - 1 = Len(s)
  BY LevelType
<1>2. CASE c = <<DropOperand>>
  BY <1>1, <1>2 DEF DropOperand
<1>3. CASE Written(s, Len(s) + 1, c)
  <2>1. /\ c[k].op \in Final <=> k = Len(c)
        /\ c[k].op # "DEC_REF_OPERAND"
        /\ c[k].op = "DEC_REF_CAUGHT" => c[k].scope = 0
        /\ c[k].op = "finally" => EndsIn(c, {"RETURN"})
        /\ c[k].op = "DEC_REF_SLOT" => c[k].scope \in 1 .. Len(s)
        /\ c[k].op \in {"leave", "unwind", "RETURN", "CALL_SUPER"} => c[k].scope = 0
    BY <1>1, <1>3 DEF Written
  <2>2. c # <<>> /\ c[k] \in [op : Ops, scope : Nat]
    <3>1. c # <<>>
      OBVIOUS
    <3> QED
      BY <1>1, <3>1, CodeTail
  <2>3. CASE c[k].op \in {"break", "continue"}
    <3>1. k = Len(c)
      BY <2>1, <2>3 DEF Final
    <3>2. EndsIn(c, {"break", "continue"})
      BY <2>2, <2>3, <3>1 DEF EndsIn
    <3> QED
      BY <1>1, <3>1, <3>2 DEF LevelOK, LoopCode
  <2>4. CASE c[k].op = "finally"
    BY <1>1, <2>1, <2>4 DEF LevelOK, ReturnCode
  <2>5. c[k].op \in {"DEC_REF_SLOT", "DEC_REF_CAUGHT", "DEC_REF_OPERAND", "finally", "leave",
                     "unwind", "break", "continue", "RETURN", "CALL_SUPER"}
    BY <2>2 DEF Ops
  <2> QED
    BY <1>1, <2>1, <2>3, <2>4, <2>5
<1> QED
  BY <1>1, <1>2, <1>3 DEF LevelOK

LEMMA IInvTypeOK ==
  ASSUME IInv
  PROVE  TypeOK
<1>1. Types /\ FramesOK(frames, runs)
  BY DEF IInv
<1>2. ASSUME NEW f \in DOMAIN frames
      PROVE  /\ frames[f].how \in {"main", "call", "operator", "initializer", "destructor"}
             /\ frames[f].obj \in Obj \cup {Null} /\ frames[f].operand \in Obj \cup {Null}
             /\ frames[f].todo \in Code /\ frames[f].scopes # <<>>
             /\ \A i \in DOMAIN frames[f].todo : frames[f].todo[i].scope \in 0 .. Len(frames[f].scopes)
             /\ \A i \in DOMAIN frames[f].scopes :
                  /\ frames[f].scopes[i].kind \in Kinds
                  /\ frames[f].scopes[i].kind = "body" <=> i = 1
                  /\ frames[f].scopes[i].slot \in Obj \cup {Null}
                  /\ frames[f].scopes[i].exc \in Obj \cup {Null}
                  /\ frames[f].scopes[i].of \in Try \cup {Null}
                  /\ frames[f].scopes[i].after \in Code
  <2>1. PICK r, s, c : r = frames[f] /\ s = r.scopes /\ c = r.todo
    OBVIOUS
  <2>2. r \in FrameRecords /\ Level(s, c, runs)
    BY <1>1, <2>1, ScopesType
  <2>3. \A k \in DOMAIN c : c[k].scope \in 0 .. Len(s)
    BY <2>2, CodeScopes
  <2>4. /\ s \in Scopings /\ s # <<>> /\ c \in Code
        /\ \A j \in DOMAIN s : s[j] \in ScopeRecords /\ (s[j].kind = "body" <=> j = 1)
    BY <2>2, LevelType
  <2>5. /\ r.how \in {"main", "call", "operator", "initializer", "destructor"}
        /\ r.obj \in Obj \cup {Null} /\ r.operand \in Obj \cup {Null}
    BY <2>2, FrameFields
  <2>6. \A j \in DOMAIN s : /\ s[j].kind \in Kinds
                            /\ s[j].slot \in Obj \cup {Null}
                            /\ s[j].exc \in Obj \cup {Null}
                            /\ s[j].of \in Try \cup {Null}
                            /\ s[j].after \in Code
    BY <2>4 DEF ScopeRecords
  <2> QED
    BY <2>1, <2>3, <2>4, <2>5, <2>6
<1> QED
  BY <1>1, <1>2 DEF TypeOK, Types

LEMMA IInvCountExact ==
  ASSUME IInv
  PROVE  CountExact
<1>1. ASSUME Executes("DEC_REF_SLOT") PROVE Scopes[Next1].owns \/ Scopes[Next1].slot = Null
  <2>1. PICK n, r, s, c, k, z : /\ n = Len(frames) /\ r = Top /\ s = Scopes /\ c = r.todo /\ k = c[1].scope
                                /\ z = [s EXCEPT ![k].owns = FALSE]
    OBVIOUS
  <2>2. /\ c # <<>> /\ c[1].op = "DEC_REF_SLOT" /\ Next1 = k /\ Level(s, c, runs)
    BY <1>1, <2>1, Executing
  <2>3. Intact(s[k])
    BY <2>1, <2>2, SlotLevel
  <2>4. k \in DOMAIN s
    BY <2>1, <2>2, SlotLevel
  <2>5. s[k] \in ScopeRecords
    BY <2>2, <2>4, LevelType
  <2> QED
    BY <2>1, <2>2, <2>3, <2>5 DEF Intact
<1>2. ASSUME ended # "unhandled", NEW o \in Obj
      PROVE  /\ ref_count[o] >= Cardinality(Owners(o))
             /\ Habits = {} => ref_count[o] = Cardinality(Owners(o))
  <2>1. Owners(o) = OwnersIn(frames, active_exception, o)
    BY DEF Owners, OwnersIn
  <2>2. Covers(ref_count[o], OwnersIn(frames, active_exception, o))
    BY <1>2 DEF IInv, Counted
  <2> QED
    BY <2>1, <2>2 DEF Covers
<1> QED
  BY <1>1, <1>2 DEF CountExact

LEMMA IInvFinallyRuns ==
  ASSUME IInv, "jump" \notin Habits
  PROVE  FinallyRuns
<1> SUFFICES ASSUME NEW t \in Try
             PROVE  /\ runs[t] <= 1
                    /\ (\A p \in Positions(frames) : frames[p[1]].scopes[p[2]].of # t) => runs[t] = 1
  BY DEF FinallyRuns
<1>1. Statements(frames, runs)
  BY DEF IInv
<1>2. runs[t] \in {0, 1}
  BY <1>1 DEF Statements
<1>3. ASSUME \A p \in Positions(frames) : frames[p[1]].scopes[p[2]].of # t, runs[t] = 0 PROVE FALSE
  <2>1. PICK f, i \in Nat : OpenAt(frames, f, i) /\ frames[f].scopes[i].of = t
    BY <1>1, <1>3 DEF Statements
  <2>2. <<f, i>> \in Positions(frames)
    BY <2>1 DEF OpenAt, Place, Positions
  <2>3. <<f, i>>[1] = f /\ <<f, i>>[2] = i
    OBVIOUS
  <2> QED
    BY <1>3, <2>1, <2>2, <2>3
<1> QED
  BY <1>2, <1>3

LEMMA UnwindsLast ==
  ASSUME NEW s, NEW i, NEW c \in Code, NEW rs, LevelOK(s, i, c, rs), Unwinds(c)
  PROVE  EndsIn(c, {"unwind"})
<1>1. PICK k \in DOMAIN c : c[k].op = "unwind"
  BY DEF Unwinds
<1>2. c # <<DropOperand>>
  BY <1>1 DEF DropOperand
<1>3. Written(s, i, c)
  BY <1>2 DEF LevelOK
<1>4. k = Len(c)
  BY <1>1, <1>3 DEF Written, Final
<1>5. c # <<>>
  BY <1>1
<1> QED
  BY <1>1, <1>4, <1>5 DEF EndsIn

LEMMA IInvInFlight ==
  ASSUME IInv
  PROVE  InFlight
<1> SUFFICES ASSUME active_exception = Null
             PROVE  /\ \A f \in DOMAIN frames : ~Unwinds(frames[f].todo)
                    /\ \A p \in Positions(frames) : ~Unwinds(frames[p[1]].scopes[p[2]].after)
  BY DEF InFlight
<1>1. FramesOK(frames, runs) /\ Flying(frames, active_exception)
  BY DEF IInv
<1>2. \A f, i \in Nat : ~UnwindsAt(frames, f, i)
  BY <1>1 DEF Flying
<1>3. ASSUME NEW f \in DOMAIN frames, Unwinds(frames[f].todo) PROVE FALSE
  <2>1. PICK r, s, c : r = frames[f] /\ s = r.scopes /\ c = r.todo
    OBVIOUS
  <2>2. f \in Nat /\ Level(s, c, runs)
    BY <1>1, <2>1, ScopesType
  <2>3. PICK i : i = Len(s) + 1
    OBVIOUS
  <2>4. c \in Code /\ LevelOK(s, i, c, runs) /\ i \in Nat
    BY <2>2, <2>3, LevelType
  <2>5. EndsIn(c, {"unwind"})
    BY <1>3, <2>1, <2>4, UnwindsLast
  <2>6. UnwindsAt(frames, f, i)
    BY <2>1, <2>3, <2>5 DEF UnwindsAt, UnwindsIn
  <2> QED
    BY <1>2, <2>2, <2>4, <2>6
<1>4. ASSUME NEW p \in Positions(frames), Unwinds(frames[p[1]].scopes[p[2]].after) PROVE FALSE
  <2>1. PICK f \in DOMAIN frames : \E i \in DOMAIN frames[f].scopes : p = <<f, i>>
    BY DEF Positions
  <2>2. PICK i \in DOMAIN frames[f].scopes : p = <<f, i>>
    BY <2>1
  <2>3. PICK s, c : s = frames[f].scopes /\ c = s[i].after
    OBVIOUS
  <2>4. f \in Nat /\ Level(s, frames[f].todo, runs)
    BY <1>1, <2>3, ScopesType
  <2>5. /\ s \in Scopings /\ i \in Nat /\ s[i] \in ScopeRecords /\ ScopeOK(s[i]) /\ ScopesOK(s, runs)
    BY <2>2, <2>3, <2>4, LevelType
  <2>6. Unwinds(c)
    BY <1>4, <2>2, <2>3
  <2>7. c \in Code /\ c # <<>>
    BY <2>3, <2>5, <2>6 DEF ScopeRecords, Unwinds
  <2>8. s[i].kind = "finally"
    BY <2>3, <2>5, <2>7 DEF ScopeOK
  <2>9. LevelOK(s, i, c, runs)
    BY <2>2, <2>3, <2>5, <2>8 DEF ScopesOK
  <2>10. EndsIn(c, {"unwind"})
    BY <2>6, <2>7, <2>9, UnwindsLast
  <2>11. UnwindsAt(frames, f, i)
    BY <2>2, <2>3, <2>8, <2>10 DEF UnwindsAt, UnwindsIn
  <2> QED
    BY <1>2, <2>4, <2>5, <2>11
<1> QED
  BY <1>3, <1>4

-----------------------------------------------------------------------------
(* Programs of any size, with any number of frames, open blocks, objects and
   statements with a finally clause, that keep to the habits of Keeps: the
   code left to execute refers to blocks that are open. *)
THEOREM TypeCorrect ==
  Spec => [](Keeps => TypeOK)
<1>1. (Keeps => IInv) => (Keeps => TypeOK)
  BY IInvTypeOK
<1> QED
  BY <1>1, Inductive, PTL

(* However blocks are left, no variable is released that has lost its
   reference, and the count of an object is at least the number of its
   owners, and is that number in a program without bad habits: nothing that is
   referred to is freed, and nothing is left over when the main function has
   returned. *)
THEOREM CountsExact ==
  Spec => [](Keeps => CountExact)
<1>1. (Keeps => IInv) => (Keeps => CountExact)
  BY IInvCountExact
<1> QED
  BY <1>1, Inductive, PTL

(* The finally block of a statement is entered once, whichever way control
   leaves the statement, unless by break or continue. *)
THEOREM FinallyAlwaysRuns ==
  Spec => [](Keeps /\ "jump" \notin Habits => FinallyRuns)
<1>1. (Keeps => IInv) => (Keeps /\ "jump" \notin Habits => FinallyRuns)
  BY IInvFinallyRuns
<1> QED
  BY <1>1, Inductive, PTL

(* The exception that started a cleanup is there until the cleanup ends: in
   any program without bad habits. *)
THEOREM ExceptionInFlight ==
  Spec => []InFlight
<1>1. (Keeps => IInv) => InFlight
  <2>1. CASE Keeps
    BY <2>1, IInvInFlight
  <2>2. CASE ~Keeps
    BY <2>2 DEF InFlight, Keeps
  <2> QED
    BY <2>1, <2>2
<1> QED
  BY <1>1, Inductive, PTL

=============================================================================
