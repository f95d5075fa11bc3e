---------------------------- MODULE RefCounting ----------------------------
(***************************************************************************)
(* Reference counting, weak references and destructors: the code the       *)
(* assembler emits for loads and assignments of references                 *)
(* (core/src/processes/assembler.cpp) and the virtual machine that runs it *)
(* (core/src/runtime.cpp).                                                 *)
(*                                                                         *)
(* A destructor is Solix code that runs in the middle of an instruction,   *)
(* so what is left to do is a stack: its last element is the innermost     *)
(* call, activation or operand, its first one the activation of main.      *)
(*                                                                         *)
(* A block has one strong slot (a reference field, or the element of an    *)
(* array) and, if it is an object, one weak field; an activation has one   *)
(* local variable and the program one static field.  They stand for all    *)
(* there are.  A class without a destructor is one whose destructor        *)
(* returns at once.                                                        *)
(*                                                                         *)
(* Weak fields are registered by the addresses of their slots, which stay  *)
(* registered when the object dies.  Blocks have many sizes and layouts,   *)
(* so that later something else may lie at such an address: the strong     *)
(* slot or the header of another block.                                    *)
(***************************************************************************)
EXTENDS Naturals, Sequences, FiniteSets

CONSTANTS
  Addr,     \* where a block can be allocated
  Null,
  Programs, \* the programs that may run
  MaxCount  \* bound: no value with more references is retained

(* What a program assigns besides local variables (targets):
     field     b.f = v, for a local variable b or this
     path      b.f.f = v
     element   b[0] = v
     weak      b.w = v
     static    Class.s = v
     by_name   s = v, inside the class
   What its destructors do that careful ones do not (habits):
     pending   one assigns the slot whose assignment runs it
     dying     one loads a reference to an object whose destructor has
               returned
   and what a program does that frees and allocates without care:
     stray     a block dies to which a weak field referred of an object that
               died before, when something else lies where that field was
   What may come to lie where a weak field was (layouts): the strong slot or
   the header of a new block.
   Bounds: only `blocks' are allocated, a new block lies over one former weak
   field at most, and no expression is evaluated on a stack of `work' elements
   or more. *)
Program == [targets : SUBSET {"field", "path", "element", "weak", "static", "by_name"},
            habits : SUBSET {"pending", "dying", "stray"},
            layouts : SUBSET {"strong", "header"},
            blocks : SUBSET Addr, work : Nat]
ASSUME ProgramsAssumption == Programs \subseteq Program
ASSUME NullAssumption == Null \notin Addr

VARIABLES
  program,             \* the program that runs
  live,                \* the blocks that are allocated
  tag,                 \* the block tag in the header
  ref_count,           \* the count in the header
  strong, weak,        \* the slots of a block
  weak_references,     \* target -> the slots that are registered; a slot is
                       \* that of the weak field of an object at an address
  at_slot,             \* slot -> what is there, of the block built there last
  static,              \* the static field
  active_destructors,
  work,                \* the stack
  freed_twice          \* deallocate() was called on free memory

weaks == <<weak, weak_references, at_slot>>
vars == <<program, live, tag, ref_count, strong, weaks, static,
          active_destructors, work, freed_twice>>

(* What the stack holds: an activation with its `this' and its local
   variable, the value of an expression, what remains of a C++ call, and an
   instruction that follows a DEC_REF. *)
Activation(this, local) == [op |-> "run", this |-> this, local |-> local]
Value(v) == [op |-> "value", val |-> v]
Decrease(a) == [op |-> "decrease_reference", obj |-> a]
Finish(a) == [op |-> "after invoke_destructor", obj |-> a]
Check(a) == [op |-> "after object_destructor", obj |-> a]
SetProperty(o, v) == [op |-> "SET_PROPERTY", obj |-> o, val |-> v]
SetGlobal(v) == [op |-> "SET_GLOBAL", val |-> v]

(* A part of a block. *)
Slot(part, a) == [part |-> part, block |-> a]

Top == work[Len(work)]
Rest == SubSeq(work, 1, Len(work) - 1)

(* decrease_reference(0) does nothing.  As if it did something, and as if
   nothing were released. *)
ReleaseAny(a) == <<Decrease(a)>>
Forget(a) == <<>>
Release(a) == IF a = Null THEN <<>> ELSE <<Decrease(a)>>

Pending(h) == \E i \in DOMAIN work : work[i].op = "SET_PROPERTY" /\ work[i].obj = h
PendingStatic == \E i \in DOMAIN work : work[i].op = "SET_GLOBAL"

Init ==
  /\ program \in Programs
  /\ live = {}
  /\ tag = [a \in Addr |-> "RAW"]
  /\ ref_count = [a \in Addr |-> 0]
  /\ strong = [a \in Addr |-> Null]
  /\ weak = [a \in Addr |-> Null]
  /\ weak_references = [a \in Addr |-> {}]
  /\ at_slot = [h \in Addr |-> Slot("weak", h)]
  /\ static = Null
  /\ active_destructors = {}
  /\ work = <<Activation(Null, Null)>>
  /\ freed_twice = FALSE

-----------------------------------------------------------------------------
(* Expressions.  The value of one that loads a reference is retained, and so
   is a new block. *)

(* After deallocate() has put a block in the free lists twice the allocator
   hands out overlapping memory: what follows is not modelled. *)
At(op) == Top.op = op /\ ~freed_twice

(* The activation that evaluates, and the objects it can select a field of. *)
Act == work[IF Top.op = "run" THEN Len(work) ELSE Len(work) - 1]
Bases == {Act.this, Act.local} \ {Null}
Objects == {o \in Bases : tag[o] = "OBJECT"}
Arrays == {o \in Bases : tag[o] = "ARRAY_REF"}

Readable == {Null, Act.this, Act.local, static}
            \cup {strong[o] : o \in Bases} \cup {weak[o] : o \in Objects}

(* As if a value were not retained for the expression itself. *)
Unretained(v) == ref_count
Retained(v) == IF v = Null THEN ref_count ELSE [ref_count EXCEPT ![v] = @ + 1]

Load(v) ==
  /\ At("run") /\ Len(work) < program.work
  /\ v \in Readable
  /\ v # Null => ref_count[v] < MaxCount
  /\ v # Null /\ ref_count[v] = 0 =>
       (IF \E i \in DOMAIN work : work[i] = Check(v) THEN "dying" ELSE "stray") \in program.habits
  /\ ref_count' = Retained(v)
  /\ work' = Append(work, Value(v))
  /\ UNCHANGED <<program, live, tag, strong, weaks, static,
                 active_destructors, freed_twice>>

(* Where a new block lies: an object takes its usual place, where its weak
   field is a slot of its own, unless another block is there; otherwise it has
   none.  Or a block is put over a slot whose object is dead. *)
Unused(h) == at_slot[h].block \notin live
Usual(a, t) == t = "OBJECT" /\ Unused(a)
Lies(a, t, h, part) ==
  CASE part = "weak" -> h = a /\ Usual(a, t)
    [] part = "none" -> h = a /\ ~Usual(a, t)
    [] OTHER         -> /\ part \in program.layouts /\ Unused(h)
                        /\ part = "header" => h # a

(* ALLOC_DYNAMIC fills new memory with zeros. *)
New(a, t, h, part) ==
  /\ At("run") /\ Len(work) < program.work
  /\ a \in program.blocks \ live
  /\ t = "ARRAY_REF" => "element" \in program.targets
  /\ Lies(a, t, h, part)
  /\ live' = live \cup {a}
  /\ tag' = [tag EXCEPT ![a] = t]
  /\ ref_count' = [ref_count EXCEPT ![a] = 1]
  /\ strong' = [strong EXCEPT ![a] = Null]
  /\ weak' = [weak EXCEPT ![a] = Null]
  /\ at_slot' = IF part = "none" THEN at_slot ELSE [at_slot EXCEPT ![h] = Slot(part, a)]
  /\ work' = Append(work, Value(a))
  /\ UNCHANGED <<program, weak_references, static,
                 active_destructors, freed_twice>>

-----------------------------------------------------------------------------
(* Assignments.  The value is retained again for a strong target and, when
   the statement ends, released as the value of the expression. *)

MayAssign(pending) == pending => "pending" \in program.habits

AssignLocal ==
  /\ At("value")
  /\ ref_count' = Retained(Top.val)
  /\ work' = SubSeq(work, 1, Len(work) - 2)
             \o <<Activation(Act.this, Top.val)>>
             \o Release(Top.val) \o Release(Act.local)
  /\ UNCHANGED <<program, live, tag, strong, weaks, static,
                 active_destructors, freed_twice>>

(* DEC_REF of the old value comes before SET_PROPERTY. *)
StoreAfterRelease(o, v) == Release(v) \o <<SetProperty(o, v)>> \o Release(strong[o])

AssignField(o) ==
  /\ At("value") /\ "field" \in program.targets
  /\ o \in Objects
  /\ MayAssign(Pending(o))
  /\ ref_count' = Retained(Top.val)
  /\ work' = Rest \o StoreAfterRelease(o, Top.val)
  /\ UNCHANGED <<program, live, tag, strong, weaks, static,
                 active_destructors, freed_twice>>

(* a.b.c = v: loading a.b retains it, and nothing releases it. *)
AssignThroughPath(o) ==
  /\ At("value") /\ "path" \in program.targets
  /\ o \in {strong[b] : b \in Objects} \ {Null}
  /\ tag[o] = "OBJECT" /\ ref_count[o] < MaxCount
  /\ MayAssign(Pending(o))
  /\ ref_count' = [a \in Addr |-> ref_count[a] + (IF a = Top.val THEN 1 ELSE 0)
                                               + (IF a = o THEN 1 ELSE 0)]
  /\ work' = Rest \o StoreAfterRelease(o, Top.val)
  /\ UNCHANGED <<program, live, tag, strong, weaks, static,
                 active_destructors, freed_twice>>

(* SET_ARRAY writes before it releases. *)
AssignElement(o) ==
  /\ At("value") /\ "element" \in program.targets
  /\ o \in Arrays
  /\ ref_count' = Retained(Top.val)
  /\ strong' = [strong EXCEPT ![o] = Top.val]
  /\ work' = Rest \o Release(Top.val) \o Release(strong[o])
  /\ UNCHANGED <<program, live, tag, weaks, static,
                 active_destructors, freed_twice>>

(* Class.field = v *)
AssignStatic ==
  /\ At("value") /\ "static" \in program.targets
  /\ MayAssign(PendingStatic)
  /\ ref_count' = Retained(Top.val)
  /\ work' = Rest \o Release(Top.val) \o <<SetGlobal(Top.val)>> \o Release(static)
  /\ UNCHANGED <<program, live, tag, strong, weaks, static,
                 active_destructors, freed_twice>>

(* field = v inside the class: the old value is not released. *)
AssignStaticByName ==
  /\ At("value") /\ "by_name" \in program.targets
  /\ MayAssign(PendingStatic)
  /\ ref_count' = Retained(Top.val)
  /\ static' = Top.val
  /\ work' = Rest \o Release(Top.val)
  /\ UNCHANGED <<program, live, tag, strong, weaks, active_destructors, freed_twice>>

(* WEAK_SET_PROPERTY moves the registration of the slot. *)
Registered(o, v) ==
  [t \in Addr |-> (weak_references[t] \ (IF t = weak[o] THEN {o} ELSE {}))
                  \cup (IF t = v THEN {o} ELSE {})]

AssignWeak(o) ==
  /\ At("value") /\ "weak" \in program.targets
  /\ o \in Objects /\ at_slot[o] = Slot("weak", o)
  /\ weak_references' = Registered(o, Top.val)
  /\ weak' = [weak EXCEPT ![o] = Top.val]
  /\ work' = Rest \o Release(Top.val)
  /\ UNCHANGED <<program, live, tag, ref_count, strong, at_slot, static,
                 active_destructors, freed_twice>>

-----------------------------------------------------------------------------
(* The instructions that wait for a DEC_REF, and the end of a destructor. *)

StoreProperty ==
  /\ At("SET_PROPERTY")
  /\ strong' = [strong EXCEPT ![Top.obj] = Top.val]
  /\ work' = Rest
  /\ UNCHANGED <<program, live, tag, ref_count, weaks, static,
                 active_destructors, freed_twice>>

StoreGlobal ==
  /\ At("SET_GLOBAL")
  /\ static' = Top.val
  /\ work' = Rest
  /\ UNCHANGED <<program, live, tag, ref_count, strong, weaks, active_destructors, freed_twice>>

Return ==
  /\ At("run") /\ Len(work) > 1
  /\ work' = Rest \o Release(Top.local)
  /\ UNCHANGED <<program, live, tag, ref_count, strong, weaks, static,
                 active_destructors, freed_twice>>

-----------------------------------------------------------------------------
(* decrease_reference and object_destructor. *)

(* The children of a dying block: the slot is cleared, then released. *)
KeepSlot(a) == strong
ClearSlot(a) == [strong EXCEPT ![a] = Null]

Decrement ==
  LET a == Top.obj
  IN  /\ At("decrease_reference")
      /\ ref_count[a] # 1
      /\ ref_count' = [ref_count EXCEPT ![a] = IF @ > 0 THEN @ - 1 ELSE 0]
      /\ work' = Rest
      /\ UNCHANGED <<program, live, tag, strong, weaks, static,
                 active_destructors, freed_twice>>

(* The last reference to an object: its destructor runs, holding one. *)
InvokeDestructor ==
  LET a == Top.obj
  IN  /\ At("decrease_reference")
      /\ ref_count[a] = 1 /\ tag[a] = "OBJECT" /\ a \notin active_destructors
      /\ active_destructors' = active_destructors \cup {a}
      /\ work' = Rest \o <<Check(a), Finish(a), Activation(a, Null)>>
      /\ UNCHANGED <<program, live, tag, ref_count, strong, weaks, static, freed_twice>>

ReleaseChildren ==
  LET a == Top.obj
  IN  /\ At("decrease_reference")
      /\ ref_count[a] = 1 /\ ~(tag[a] = "OBJECT" /\ a \notin active_destructors)
      /\ ref_count' = [ref_count EXCEPT ![a] = 0]
      /\ strong' = IF tag[a] = "RAW" THEN strong ELSE ClearSlot(a)
      /\ work' = Rest \o <<Check(a)>>
                 \o (IF tag[a] = "RAW" THEN <<>> ELSE Release(strong[a]))
      /\ UNCHANGED <<program, live, tag, weaks, static,
                 active_destructors, freed_twice>>

(* The destructor kept a reference to its object, which stays.  As if that
   were not looked at. *)
NeverResurrected(a) == FALSE
Resurrected(a) == ref_count[a] > 1

FinishDestructor ==
  LET a == Top.obj
  IN  /\ At("after invoke_destructor")
      /\ active_destructors' = active_destructors \ {a}
      /\ IF Resurrected(a)
           THEN /\ ref_count' = [ref_count EXCEPT ![a] = @ - 1]
                /\ work' = Rest
                /\ UNCHANGED strong
           ELSE /\ ref_count' = [ref_count EXCEPT ![a] = 0]
                /\ strong' = ClearSlot(a)
                /\ work' = Rest \o Release(strong[a])
      /\ UNCHANGED <<program, live, tag, weaks, static, freed_twice>>

(* deallocate() writes zero to the slots registered for the block, whatever is
   there now in other blocks; a header that is zero has no tag and counts
   nothing.  As if it wrote nothing. *)
NotNulled(a, part) == {}
Nulled(a, part) == {b \in live \ {a} : \E h \in weak_references[a] : at_slot[h] = Slot(part, b)}
Stray(a) == Nulled(a, "strong") \cup Nulled(a, "header")

Deallocate ==
  LET a == Top.obj
  IN  /\ At("after object_destructor")
      /\ ref_count[a] = 0
      /\ Stray(a) # {} => "stray" \in program.habits
      /\ freed_twice' = (a \notin live)
      /\ live' = live \ {a}
      /\ tag' = [b \in Addr |-> IF b = a \/ b \in Nulled(a, "header") THEN "RAW" ELSE tag[b]]
      /\ ref_count' = [b \in Addr |-> IF b \in Nulled(a, "header") THEN 0 ELSE ref_count[b]]
      /\ strong' = [b \in Addr |-> IF b \in Nulled(a, "strong") THEN Null ELSE strong[b]]
      /\ weak' = [b \in Addr |-> IF b \in Nulled(a, "weak") THEN Null ELSE weak[b]]
      /\ weak_references' = [weak_references EXCEPT ![a] = {}]
      /\ work' = Rest
      /\ UNCHANGED <<program, at_slot, static, active_destructors>>

Survive ==
  /\ At("after object_destructor")
  /\ ref_count[Top.obj] > 0
  /\ work' = Rest
  /\ UNCHANGED <<program, live, tag, ref_count, strong, weaks, static,
                 active_destructors, freed_twice>>

-----------------------------------------------------------------------------
Next ==
  \/ \E v \in Addr \cup {Null} : Load(v)
  \/ \E a, h \in Addr, t \in {"OBJECT", "ARRAY_REF"},
        part \in {"weak", "none", "strong", "header"} : New(a, t, h, part)
  \/ AssignLocal
  \/ \E o \in Addr : AssignField(o) \/ AssignThroughPath(o) \/ AssignElement(o)
                     \/ AssignWeak(o)
  \/ AssignStatic \/ AssignStaticByName
  \/ StoreProperty \/ StoreGlobal \/ Return
  \/ Decrement \/ InvokeDestructor \/ ReleaseChildren
  \/ FinishDestructor \/ Deallocate \/ Survive

Spec == Init /\ [][Next]_vars

-----------------------------------------------------------------------------
(* Properties. *)

Refs == Addr \cup {Null}
Frames ==
  [op : {"run"}, this : Refs, local : Refs]
  \cup [op : {"value", "SET_GLOBAL"}, val : Refs]
  \cup [op : {"decrease_reference", "after invoke_destructor", "after object_destructor"},
        obj : Addr]
  \cup [op : {"SET_PROPERTY"}, obj : Addr, val : Refs]

(* Every variable has its type; main is at the bottom of the stack. *)
TypeOK ==
  /\ program \in Programs
  /\ live \subseteq Addr
  /\ tag \in [Addr -> {"RAW", "OBJECT", "ARRAY_REF"}]
  /\ ref_count \in [Addr -> Nat]
  /\ strong \in [Addr -> Refs] /\ weak \in [Addr -> Refs]
  /\ weak_references \in [Addr -> SUBSET Addr]
  /\ at_slot \in [Addr -> [part : {"weak", "strong", "header"}, block : Addr]]
  /\ static \in Refs
  /\ active_destructors \subseteq Addr
  /\ work \in Seq(Frames) /\ Len(work) > 0 /\ work[1].op = "run"
  /\ freed_twice \in BOOLEAN

(* The places that own a reference to a: a strong slot owns its value until
   an assignment has started to release it, and a running destructor owns
   one to its object. *)
Holds(f, a) ==
  CASE f.op = "run" -> f.local = a
    [] f.op \in {"value", "SET_GLOBAL", "SET_PROPERTY"} -> f.val = a
    [] f.op \in {"decrease_reference", "after invoke_destructor"} -> f.obj = a
    [] OTHER -> FALSE

Owners(a) ==
  {<<"work", i>> : i \in {j \in DOMAIN work : Holds(work[j], a)}}
  \cup {<<"strong", h>> : h \in {g \in live : strong[g] = a /\ ~Pending(g)}}
  \cup {<<"static", 0>> : s \in {0} \cap (IF static = a /\ ~PendingStatic THEN {0} ELSE {})}

(* The two assignments that lose a reference. *)
Leaky == program.targets \cap {"path", "by_name"} # {}

(* What owns a reference owns one to a live block, and the count in its header
   is the number of its owners, at every instruction, destructors in the middle
   of others included.  Where the code loses a reference the count still covers
   every owner: a block is kept too long, never freed too early. *)
CountExact ==
  \A a \in Addr :
    /\ Cardinality(Owners(a)) <= (IF a \in live THEN ref_count[a] ELSE 0)
    /\ a \in live /\ ~Leaky => ref_count[a] = Cardinality(Owners(a))

(* No block is given to deallocate() twice.  docs/spec/statements/declarations/
   destructors.md: the count of one and active_destructors "protect against
   resurrection and re-entrant calls". *)
FreedOnce == ~freed_twice

(* Between two statements of main no block is left without an owner: what
   lost its last reference is freed.  docs/architecture/arc_internals.md:
   "Objects are deallocated immediately at the exact instant their reference
   count reaches zero". *)
NoOrphan == ~Leaky /\ Len(work) = 1 => \A a \in live : Owners(a) # {}

(* A weak field of a live object is null or leads to a live block, and is
   registered with it at the address where it is, so that the death of the
   block will clear it. *)
WeakSafe ==
  \A h \in live : tag[h] = "OBJECT" /\ weak[h] # Null =>
    weak[h] \in live /\ h \in weak_references[weak[h]] /\ at_slot[h] = Slot("weak", h)

(* A weak field becomes null only by an assignment or because the block it
   refers to is freed. *)
WeakUntilFreed ==
  [][\A h \in live \cap live' :
       weak[h] # Null /\ weak'[h] = Null =>
         weak[h] \notin live' \/ (Top.op = "value" /\ h \in Objects)]_vars
=============================================================================
