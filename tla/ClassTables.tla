---------------------------- MODULE ClassTables ----------------------------
(***************************************************************************)
(* What the binder computes for the classes of a program before it looks   *)
(* at method bodies: destructors (ClassDeclaration, second pass), tables   *)
(* of virtual methods, interface tables and layouts                        *)
(* (bind_types_and_memory and what it calls, core/src/processes/           *)
(* binder.cpp), and how calls and casts use them at run time.              *)
(*                                                                         *)
(* Every pass goes through a hash map of symbols, in any order; the        *)
(* functions call themselves for the classes they need first.  Positions   *)
(* in tables begin at 1, and 0 is the -1 of the code.  A method is the     *)
(* class that declares it and its signature.                               *)
(***************************************************************************)
EXTENDS Naturals, Sequences, FiniteSets, SequencesExt

CONSTANTS
  None,      \* no class
  Programs   \* the programs to bind

(* program[c] is a declaration: its kind, the class or interface it extends,
   the interfaces it implements (all it extends, if it is one), methods and
   fields in order, whether it has a destructor, its package, and whether it
   names its base with the package. *)
Modifiers == {"plain", "virtual", "abstract", "override"}
ASSUME ProgramAssumption ==
  \A p \in Programs : IsFiniteSet(DOMAIN p) /\ None \notin DOMAIN p /\ \A c \in DOMAIN p :
    /\ p[c].kind \in {"class", "abstract class", "interface"}
    /\ p[c].base \in DOMAIN p \cup {None}
    /\ p[c].base # None => (p[c].kind = "interface" <=> p[p[c].base].kind = "interface")
    /\ p[c].implements \in Seq({i \in DOMAIN p : p[i].kind = "interface"})
    /\ p[c].kind = "interface" =>
         p[c].base = IF p[c].implements = <<>> THEN None ELSE Head(p[c].implements)
    /\ p[c].methods \in Seq([signature : STRING, modifier : Modifiers])
    /\ \A i, j \in DOMAIN p[c].methods :
         p[c].methods[i].signature = p[c].methods[j].signature => i = j
    /\ p[c].fields \in Seq([bytes : {1, 2, 4, 8}, reference : BOOLEAN, weak : BOOLEAN])

VARIABLES
  program,
  phase,             \* the pass
  pending,           \* the symbols it has not come to
  calls,             \* activations of calculate_*_vtable
  calculated,        \* vtable_calculated
  vtables, itables,
  vtable_index, is_virtual, is_abstract,     \* of methods
  destructor, super_destructor,              \* the class that declares it
  layout,
  errors

tables == <<calls, calculated, vtables, itables, vtable_index, is_virtual, is_abstract>>
destructors == <<destructor, super_destructor>>
vars == <<program, phase, pending, tables, destructors, layout, errors>>

Classes == DOMAIN program
Interfaces == {c \in Classes : program[c].kind = "interface"}
Method(c, i) == [class |-> c, signature |-> program[c].methods[i].signature]
Methods == UNION {{Method(c, i) : i \in DOMAIN program[c].methods} : c \in Classes}
Modifier(m) ==
  LET declared == program[m.class].methods
  IN  declared[CHOOSE i \in DOMAIN declared : declared[i].signature = m.signature].modifier
Declares(c, signature) == [class |-> c, signature |-> signature] \in Methods

(* The class n steps above. *)
Above[n \in Nat] ==
  [c \in Classes \cup {None} |->
     IF n = 0 \/ c = None THEN c ELSE Above[n - 1][program[c].base]]
Heights == 0..Cardinality(Classes)
Lineage(c) == {Above[n][c] : n \in Heights} \ {None}
Circular(c) == Above[Cardinality(Classes)][c] # None

(* The first class at or above one for which something holds. *)
First(c, Holds(_)) ==
  LET found == {n \in Heights : Above[n][c] # None /\ Holds(Above[n][c])}
  IN  IF found = {} THEN None
      ELSE Above[CHOOSE n \in found : \A k \in found : n <= k][c]

(* collect_all_interfaces: those above an interface before it, and those of a
   class before those of its base. *)
Collected[n \in Nat] ==
  [c \in Classes |->
     IF n = 0 THEN <<>>
     ELSE LET own == FoldLeft(LAMBDA seen, i : seen \o Collected[n - 1][i] \o <<i>>,
                              <<>>, program[c].implements)
          IN  IF c \in Interfaces \/ program[c].base = None THEN own
              ELSE own \o Collected[n - 1][program[c].base]]
AllInterfaces(c) == Collected[Cardinality(Classes)][c]

Passes == <<"members", "interfaces", "classes", "layouts", "bound">>
Comes(p, to) == \E i \in 1..4 : Passes[i] = p /\ Passes[i + 1] = to
Symbols(p) == CASE p = "interfaces" -> Interfaces
                [] p = "classes" -> Classes \ Interfaces
                [] OTHER -> Classes

Init ==
  /\ program \in Programs
  /\ phase = "members" /\ pending = Classes
  /\ calls = <<>> /\ calculated = {}
  /\ vtables = [c \in Classes |-> <<>>] /\ itables = [c \in Classes |-> <<>>]
  /\ vtable_index = [m \in Methods |-> 0]
  /\ is_virtual = {m \in Methods : Modifier(m) = "virtual"}
  /\ is_abstract = {m \in Methods : Modifier(m) = "abstract"}
  /\ destructor = [c \in Classes |-> IF program[c].destructor THEN c ELSE None]
  /\ super_destructor = [c \in Classes |-> None]
  /\ layout = <<>>
  /\ errors = {}

-----------------------------------------------------------------------------
(* Destructors.  The base is looked up by the name it was written with, in
   the symbol table and in the package of the class registered, which need
   not be that of the class that wrote it. *)

Named(c, x) == program[x].qualified \/ program[program[x].base].package = program[c].package

(* As if only the class above were asked, that may not be registered yet. *)
NearestOfBase(c) == destructor[program[c].base]
Nearest(c) ==
  LET has(x) == x # c /\ destructor[x] # None
      n == {k \in Heights \ {0} :
              /\ Above[k][c] \notin {None, c} /\ has(Above[k][c])
              /\ \A j \in 0..(k - 1) : Named(c, Above[j][c]) /\ (j > 0 => ~has(Above[j][c]))}
  IN  IF n = {} THEN None ELSE destructor[Above[CHOOSE k \in n : \A l \in n : k <= l][c]]

RegisterMembers(c) ==
  /\ phase = "members" /\ c \in pending
  /\ pending' = pending \ {c}
  /\ IF program[c].base = None \/ Nearest(c) = None THEN UNCHANGED destructors
     ELSE IF destructor[c] = None
       THEN /\ destructor' = [destructor EXCEPT ![c] = Nearest(c)]
            /\ UNCHANGED super_destructor
       ELSE /\ super_destructor' = [super_destructor EXCEPT ![c] = Nearest(c)]
            /\ UNCHANGED destructor
  /\ UNCHANGED <<program, phase, tables, layout, errors>>

-----------------------------------------------------------------------------
(* calculate_interface_vtable and calculate_class_vtable.  An activation has
   the table built so far and what is left to do. *)

Inherits(d) == [op |-> "inherit", from |-> d]
Declare(m) == [op |-> "declare", method |-> m]
Opens(i) == [op |-> "interface", interface |-> i]
Fills(i, n) == [op |-> "implement", interface |-> i, index |-> n]

OwnMethods(c) == [i \in DOMAIN program[c].methods |-> Declare(Method(c, i))]
Implementations(i) == <<Opens(i)>> \o [n \in DOMAIN vtables[i] |-> Fills(i, n)]

(* An interface extends any number, a class one. *)
Todo(c) ==
  IF c \in Interfaces
    THEN [i \in DOMAIN program[c].implements |-> Inherits(program[c].implements[i])]
         \o OwnMethods(c)
    ELSE (IF program[c].base = None THEN <<>> ELSE <<Inherits(program[c].base)>>)
         \o OwnMethods(c)
         \o FlattenSeq([k \in DOMAIN AllInterfaces(c) |-> Implementations(AllInterfaces(c)[k])])
Activation(c) == [class |-> c, todo |-> Todo(c), table |-> <<>>]

Top == Last(calls)
Doing(op) == calls # <<>> /\ Top.todo # <<>> /\ Head(Top.todo).op = op
Item == Head(Top.todo)
InProgress == {calls[i].class : i \in DOMAIN calls}
Advance(table) == [calls EXCEPT ![Len(calls)] =
                     [class |-> Top.class, todo |-> Tail(Top.todo), table |-> table]]

Begin(c) ==
  /\ phase \in {"interfaces", "classes"} /\ calls = <<>> /\ c \in pending
  /\ pending' = pending \ {c}
  /\ calls' = IF c \in calculated THEN <<>> ELSE <<Activation(c)>>
  /\ UNCHANGED <<program, phase, calculated, vtables, itables, vtable_index, is_virtual,
                 is_abstract, destructors, layout, errors>>

(* The positions with a signature. *)
Slots(table, signature) == {i \in DOMAIN table : table[i].signature = signature}
FirstSlot(table, signature) ==
  CHOOSE i \in Slots(table, signature) : \A j \in Slots(table, signature) : i <= j

(* A class copies the table of its base; an interface adds what it has not. *)
Missing(table, m) == Slots(table, m.signature) = {}
Merged(table, other) ==
  FoldLeft(LAMBDA t, m : IF Missing(t, m) THEN Append(t, m) ELSE t, table, other)
Inherited(d) == IF Top.class \in Interfaces THEN Merged(Top.table, vtables[d]) ELSE vtables[d]

Recur ==
  /\ Doing("inherit") /\ Item.from \notin calculated /\ Item.from \notin InProgress
  /\ calls' = Append(calls, Activation(Item.from))
  /\ UNCHANGED <<program, phase, pending, calculated, vtables, itables, vtable_index,
                 is_virtual, is_abstract, destructors, layout, errors>>

Inherit ==
  /\ Doing("inherit") /\ (Item.from \in calculated \/ Item.from \in InProgress)
  /\ calls' = Advance(Inherited(Item.from))
  /\ itables' = IF Top.class \in Interfaces THEN itables
                ELSE [itables EXCEPT ![Top.class] = itables[Item.from]]
  /\ errors' = IF Item.from \in calculated THEN errors
               ELSE errors \cup {<<"circular", Item.from>>}
  /\ UNCHANGED <<program, phase, pending, calculated, vtables, vtable_index, is_virtual,
                 is_abstract, destructors, layout>>

(* A method is put at a position, the first free one included. *)
Placed(table, slot, m) == IF slot = Len(table) + 1 THEN Append(table, m)
                                                   ELSE [table EXCEPT ![slot] = m]
Free == Len(Top.table) + 1
Place(slot, m) ==
  /\ calls' = Advance(Placed(Top.table, slot, m))
  /\ vtable_index' = [vtable_index EXCEPT ![m] = slot]
  /\ is_virtual' = is_virtual \cup {m}

(* Where a declared method goes; 0 is nowhere.  As if an override got a
   position of its own. *)
AppendedSlot(m) == IF Top.class \notin Interfaces /\ Modifier(m) = "plain" THEN 0 ELSE Free
DeclaredSlot(m) ==
  LET replaces == Top.class \in Interfaces \/ Modifier(m) = "override"
  IN  IF replaces /\ ~Missing(Top.table, m) THEN FirstSlot(Top.table, m.signature)
      ELSE IF Top.class \notin Interfaces /\ Modifier(m) = "plain" THEN 0 ELSE Free

DeclareMethod ==
  LET m == Item.method
      slot == DeclaredSlot(m)
  IN  /\ Doing("declare")
      /\ ~(Top.class \notin Interfaces /\ Modifier(m) = "override" /\ Missing(Top.table, m))
      /\ IF slot = 0
           THEN calls' = Advance(Top.table) /\ UNCHANGED <<vtable_index, is_virtual>>
           ELSE Place(slot, m)
      /\ is_abstract' = IF Top.class \in Interfaces THEN is_abstract \cup {m} ELSE is_abstract
      /\ UNCHANGED <<program, phase, pending, calculated, vtables, itables, destructors,
                     layout, errors>>

(* An override of nothing is an exception, which ends the compilation. *)
OverridesNothing ==
  /\ Doing("declare") /\ Top.class \notin Interfaces
  /\ Modifier(Item.method) = "override" /\ Missing(Top.table, Item.method)
  /\ phase' = "thrown"
  /\ UNCHANGED <<program, pending, tables, destructors, layout, errors>>

OpenInterface ==
  /\ Doing("interface")
  /\ calls' = Advance(Top.table)
  /\ itables' = [itables EXCEPT ![Top.class] =
                   [i \in DOMAIN @ \cup {Item.interface} |->
                      IF i = Item.interface THEN [n \in DOMAIN vtables[i] |-> 0] ELSE @[i]]]
  /\ UNCHANGED <<program, phase, pending, calculated, vtables, vtable_index, is_virtual,
                 is_abstract, destructors, layout, errors>>

(* The nearest method that is not abstract; as if it had to be one of the
   class itself, or as if it were that of the class. *)
Wanted == vtables[Item.interface][Item.index].signature
ImplementingItself(c) == IF Declares(c, Wanted) THEN c ELSE None
Implementing(c) ==
  LET implements(x) == /\ Declares(x, Wanted)
                       /\ [class |-> x, signature |-> Wanted] \notin is_abstract
  IN  First(c, implements)
OwnImplementation == [class |-> Top.class, signature |-> Wanted]
Implementation == [class |-> Implementing(Top.class), signature |-> Wanted]

(* As if a method that implements an interface always got a new position, or
   that of the interface. *)
NewSlot(m) == Free
SlotOfInterface(m) == Item.index
ImplementationSlot(m) ==
  LET same == {i \in DOMAIN Top.table : Top.table[i] = m}
  IN  IF same # {} THEN CHOOSE i \in same : \A j \in same : i <= j
      ELSE IF Missing(Top.table, m) THEN Free ELSE FirstSlot(Top.table, m.signature)

Implement ==
  LET m == Implementation
      slot == ImplementationSlot(m)
  IN  /\ Doing("implement") /\ Implementing(Top.class) # None
      /\ itables' = [itables EXCEPT ![Top.class][Item.interface][Item.index] = slot]
      /\ IF slot \in DOMAIN Top.table /\ Top.table[slot] = m
           THEN calls' = Advance(Top.table) /\ UNCHANGED <<vtable_index, is_virtual>>
           ELSE Place(slot, m)
      /\ UNCHANGED <<program, phase, pending, calculated, vtables, is_abstract, destructors,
                     layout, errors>>

(* The search has no end if classes extend each other and none has it; as if
   it never went above the class. *)
NeverEnds(c) == TRUE
SearchLoops(c) == Circular(c)

DoesNotImplement ==
  /\ Doing("implement") /\ Implementing(Top.class) = None /\ ~SearchLoops(Top.class)
  /\ calls' = Advance(Top.table)
  /\ errors' = IF program[Top.class].kind = "abstract class" THEN errors
               ELSE errors \cup {<<"does not implement", Top.class, Wanted>>}
  /\ UNCHANGED <<program, phase, pending, calculated, vtables, itables, vtable_index,
                 is_virtual, is_abstract, destructors, layout>>

Finish ==
  LET left == {m \in is_abstract : \E i \in DOMAIN Top.table : Top.table[i] = m}
  IN  /\ calls # <<>> /\ Top.todo = <<>>
      /\ calls' = Front(calls)
      /\ calculated' = calculated \cup {Top.class}
      /\ vtables' = [vtables EXCEPT ![Top.class] = Top.table]
      /\ errors' = IF program[Top.class].kind # "class" THEN errors
                   ELSE errors \cup {<<"must implement", Top.class, m.signature>> : m \in left}
      /\ UNCHANGED <<program, phase, pending, itables, vtable_index, is_virtual, is_abstract,
                     destructors, layout>>

-----------------------------------------------------------------------------
(* calculate_layout.  The first four bytes hold the number of the class. *)

(* As if a field began where the one before ends. *)
Unaligned(n, bytes) == n
Aligned(n, bytes) == ((n + bytes - 1) \div bytes) * bytes

(* Where the i-th field is, and where it ends. *)
Offset(start, fields) ==
  LET at[i \in 1..Len(fields)] ==
        Aligned(IF i = 1 THEN start ELSE at[i - 1] + fields[i - 1].bytes, fields[i].bytes)
  IN  at
End(start, fields) ==
  IF fields = <<>> THEN start
  ELSE Offset(start, fields)[Len(fields)] + Last(fields).bytes

LayOut(c) ==
  LET base == program[c].base
      fields == program[c].fields
      start == IF base = None THEN 4 ELSE layout[base].size
      at == Offset(start, fields)
      counted == {i \in DOMAIN fields : fields[i].reference /\ ~fields[i].weak}
  IN  /\ phase = "layouts" /\ c \in pending /\ base \notin pending
      /\ layout' =
           [x \in DOMAIN layout \cup {c} |->
              IF x # c THEN layout[x]
              ELSE [memory_index |-> at, size |-> Aligned(End(start, fields), 8),
                    references |-> {at[i] : i \in counted}
                                   \cup (IF base = None THEN {} ELSE layout[base].references)]]
      /\ pending' = pending \ {c}
      /\ UNCHANGED <<program, phase, tables, destructors, errors>>

-----------------------------------------------------------------------------
(* The next pass.  What the code does after an error only finds more of them,
   and is left out. *)

NextPass ==
  /\ pending = {} /\ calls = <<>> /\ \E to \in {Passes[i] : i \in 2..5} :
       /\ Comes(phase, to)
       /\ phase' = IF to = "layouts" /\ errors # {} THEN "refused" ELSE to
       /\ pending' = IF phase' \in {"refused", "bound"} THEN {} ELSE Symbols(to)
  /\ UNCHANGED <<program, tables, destructors, layout, errors>>

Table == \/ \E c \in Classes : Begin(c)
         \/ Recur \/ Inherit \/ DeclareMethod \/ OverridesNothing
         \/ OpenInterface \/ Implement \/ DoesNotImplement \/ Finish

Next == \/ \E c \in Classes : RegisterMembers(c) \/ LayOut(c)
        \/ phase # "thrown" /\ Table
        \/ NextPass

Spec == Init /\ [][Next]_vars
FairSpec == Spec /\ WF_vars(Next)

-----------------------------------------------------------------------------
(* Calls and casts, as the binder resolves them (MethodCallExpression,
   is_assignable), the assembler emits them and the interpreter executes
   them with the tables of DEFINE_VTABLE, DEFINE_ITABLE and
   DEFINE_DESTRUCTOR. *)

(* What a call of a method finds on a receiver of a type. *)
Lookup(type, signature) ==
  LET declares(x) == Declares(x, signature)
      above == AllInterfaces(type)
      in == {i \in DOMAIN above : declares(above[i])}
      from == IF declares(type) \/ type \notin Interfaces \/ in = {} THEN First(type, declares)
              ELSE above[CHOOSE i \in in : \A j \in in : i <= j]
  IN  [class |-> from, signature |-> signature]

NoMethod == [class |-> None, signature |-> "failed"]
AbstractSentinel == [class |-> None, signature |-> "abstract"]
Code(m) == IF m \in is_abstract THEN AbstractSentinel ELSE m
CallVirtual(object, slot) ==
  IF slot \in DOMAIN vtables[object] THEN Code(vtables[object][slot]) ELSE NoMethod
CallInterface(object, interface, n) ==
  IF interface \in DOMAIN itables[object] /\ n \in DOMAIN itables[object][interface]
    THEN CallVirtual(object, itables[object][interface][n]) ELSE NoMethod

(* What runs when m was found and the object is of some class. *)
CallAlways(object, m) == CallVirtual(object, vtable_index[m])
Call(object, m) ==
  IF m \notin is_virtual THEN Code(m)
  ELSE IF m.class \in Interfaces THEN CallInterface(object, m.class, vtable_index[m])
  ELSE CallVirtual(object, vtable_index[m])

(* class_implements_interface, and is_assignable between classes. *)
Implements(c, i) == \E n \in DOMAIN AllInterfaces(c) : AllInterfaces(c)[n] = i
IsAssignable(target, source) == target \in Lineage(source) \/ Implements(source, target)

(* INSTANCEOF and CAST_CHECK. *)
InstanceOf(object, target) ==
  \E x \in Lineage(object) : x = target \/ target \in DOMAIN itables[x]

(* The destructors run for an object of a class, the first at the end of
   which the next is called. *)
Chain[n \in Nat] ==
  [c \in Classes \cup {None} |->
     IF n = 0 \/ c = None THEN <<>> ELSE <<c>> \o Chain[n - 1][super_destructor[c]]]
Destroy(c) == Chain[Cardinality(Classes)][destructor[c]]

-----------------------------------------------------------------------------
(* What the language promises, without tables. *)

Concrete == {c \in Classes : program[c].kind = "class"}
Signatures == {m.signature : m \in Methods}
InterfaceSignatures(c) ==
  {s \in Signatures : \E n \in DOMAIN AllInterfaces(c) : Declares(AllInterfaces(c)[n], s)}

(* A method is chosen by the class of the object if it is declared so, or
   implements an interface of a class that declares or inherits it. *)
ByObject(m, c) == \/ m.class \in Interfaces \/ Modifier(m) # "plain"
                  \/ \E x \in Lineage(c) : /\ m.class \in Lineage(x)
                                            /\ m.signature \in InterfaceSignatures(x)
Declaring(c, signature) ==
  LET declares(x) == Declares(x, signature) IN [class |-> First(c, declares), signature |-> signature]
Promised(object, m) ==
  IF ByObject(m, m.class) THEN Declaring(object, m.signature) ELSE m

(* What can be inherited and replaced. *)
Replaceable(c, signature) ==
  \E x \in Lineage(c) : /\ Declares(x, signature)
                       /\ ByObject([class |-> x, signature |-> signature], c)

(* A method hides one it does not override, or an abstract one hides any; and
   an inherited method that is called directly implements an interface of a
   class below. *)
Hides ==
  \E m \in Methods : /\ m.class \notin Interfaces /\ Modifier(m) # "override"
                     /\ \/ /\ Replaceable(program[m.class].base, m.signature)
                           /\ Modifier(m) = "plain" => m.signature \notin InterfaceSignatures(m.class)
                        \/ /\ Modifier(m) = "abstract"
                           /\ \E x \in Lineage(m.class) \ {m.class} : Declares(x, m.signature)
InheritsImplementation ==
  \E c \in Classes \ Interfaces : \E s \in InterfaceSignatures(c) :
    LET m == Declaring(c, s) IN m.class # None /\ ~ByObject(m, m.class)

Cyclic(c) == Circular(c) \/ Implements(c, c)
Complete(c) ==
  \A s \in Signatures :
    LET m == Declaring(c, s)
        abstract == \E x \in Lineage(c) :
          Declares(x, s) /\ Modifier([class |-> x, signature |-> s]) = "abstract"
    IN  s \in InterfaceSignatures(c) \/ abstract
          => m.class # None /\ Modifier(m) # "abstract"
WellFormed ==
  /\ \A c \in Classes : ~Cyclic(c)
  /\ \A m \in Methods : Modifier(m) = "override" /\ m.class \notin Interfaces
       => Replaceable(program[m.class].base, m.signature)
  /\ \A c \in Concrete : Complete(c)

-----------------------------------------------------------------------------
(* Properties. *)

TypeOK ==
  /\ phase \in {Passes[i] : i \in DOMAIN Passes} \cup {"refused", "thrown"}
  /\ pending \subseteq Classes /\ calculated \subseteq Classes
  /\ \A i \in DOMAIN calls : calls[i].class \in Classes /\ calls[i].table \in Seq(Methods)
  /\ vtables \in [Classes -> Seq(Methods)]
  /\ vtable_index \in [Methods -> Nat]
  /\ is_virtual \subseteq Methods /\ is_abstract \subseteq Methods
  /\ destructor \in [Classes -> Classes \cup {None}]
  /\ super_destructor \in [Classes -> Classes \cup {None}]

(* A position has the same signature in the table of a class as in that of
   its base, whatever was overridden, added or implemented since: code that
   knows the base only finds its way in the tables of all classes below. *)
ExtendsTable(base, table) ==
  /\ Len(base) <= Len(table)
  /\ \A i \in 1..Len(base) : table[i].signature = base[i].signature
CircularityFound == \E e \in errors : e[1] = "circular"
SlotsKeepSignatures ==
  ~CircularityFound =>
    \A c \in calculated :
      program[c].base # None => /\ program[c].base \in calculated
                                /\ ExtendsTable(vtables[program[c].base], vtables[c])

(* Whatever the order of the classes: a call through any type that an object
   may be assigned to runs the method the class of the object promises, and
   it is an instance of exactly these types. *)
DispatchReachesNearest ==
  phase = "bound" /\ ~Hides /\ ~InheritsImplementation =>
    \A object \in Concrete, type \in Classes :
      /\ InstanceOf(object, type) <=> IsAssignable(type, object)
      /\ IsAssignable(type, object) =>
           \A s \in Signatures :
             LET m == Lookup(type, s)
             IN  m.class # None => Call(object, m) = Promised(object, m)

(* A program is refused exactly if classes are cyclic, a method overrides
   nothing or a class that can be instantiated misses a method. *)
Over == phase \in {"bound", "refused", "thrown"}
RefusesExactly == Over /\ ~Hides => (phase = "bound" <=> WellFormed)

(* The fields of a class and of those above it are aligned, apart, behind the
   number of the class and inside the object; the offsets at which the
   interpreter releases references are those of the fields that count. *)
FieldsOf(c) == UNION {{<<x, i>> : i \in DOMAIN program[x].fields} : x \in Lineage(c)}
At(f) == layout[f[1]].memory_index[f[2]]
Field(f) == program[f[1]].fields[f[2]]
LayoutSound ==
  \A c \in DOMAIN layout :
    /\ layout[c].references = {At(f) : f \in {g \in FieldsOf(c) : Field(g).reference /\ ~Field(g).weak}}
    /\ \A f \in FieldsOf(c) :
         /\ At(f) % Field(f).bytes = 0 /\ At(f) >= 4
         /\ At(f) + Field(f).bytes <= layout[c].size
         /\ \A g \in FieldsOf(c) \ {f} :
              At(f) + Field(f).bytes <= At(g) \/ At(g) + Field(g).bytes <= At(f)

(* The destructors of an object run from its class upwards, none is left out,
   whatever the order in which classes are registered. *)
Upwards(s) == \A i, j \in DOMAIN s : i < j => s[j] \in Lineage(s[i]) \ {s[i]}
DestructorsRun ==
  phase = "bound" => \A c \in Concrete :
    /\ {Destroy(c)[i] : i \in DOMAIN Destroy(c)} = {x \in Lineage(c) : program[x].destructor}
    /\ Upwards(Destroy(c))
OutOfSight == \E c \in Classes : program[c].base # None /\ \E x \in Lineage(c) :
                program[x].base # None /\ ~Named(c, x)
DestructorsInSightRun == ~OutOfSight => DestructorsRun

(* super.method() runs the method of the base. *)
SuperCallsBase ==
  phase = "bound" /\ ~Hides =>
    \A object \in Concrete : \A c \in Lineage(object) : \A s \in Signatures :
      program[c].base # None =>
        LET m == Lookup(program[c].base, s)
        IN  m.class # None => Call(object, m) = Code(m)

(* The binder comes to an end; but not if it looks for a method among classes
   that extend each other and none has it. *)
Endless == \E c \in Classes \ Interfaces :
             Circular(c) /\ \E s \in InterfaceSignatures(c) : Declaring(c, s).class = None
Finishes == ~Endless => <>Over
=============================================================================
