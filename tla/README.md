# Solix: TLA+ specifications

Solix is a statically typed, garbage-collector-free language: a compiler to
bytecode, a virtual machine with deterministic reference counting, a package
manager and a language server. This directory holds TLA+ modules for the parts
of it whose behaviour depends on order, history or failure; TLC configurations
that check them on small instances; and TLAPS proofs.

```
tlc -workers 2 -config HeapAllocator.cfg MCHeapAllocator     # one run
tlapm HeapAllocatorProofs.tla                                # the proofs
tlapm RefCountingProofs.tla
tlapm UnwindingLevels.tla                                    # two halves of one proof
tlapm UnwindingProofs.tla
tlapm DependencyGraphProofs.tla
tlapm LanguageServerProofs.tla
tlapm PackageRegistryProofs.tla
tlapm ClassTablesProofs.tla
```

`PROJECT.json` lists every run, the mutants each property was shown to detect,
and, for every definition that models code, the source lines it stands for.

## 1. The system

Paths are relative to `src/`.

| component | state it keeps | operations | talks to |
|---|---|---|---|
| **Heap allocator** `core/include/solix/runtime.hpp` (`Memory`), `core/src/runtime.cpp:1-113` | one byte vector; `free_by_addr`, `free_by_size`; `next_free_static`, `next_free_dynamic`; statistics | `dynamic_allocation`, `deallocate`, `static_allocation` | called by the interpreter and by reference counting |
| **Reference counting** `core/src/runtime.cpp:114-345`, and the code `assembler.cpp` emits for references | a 28-bit count in each header; `weak_references`; `active_destructors` | `increase_reference`, `decrease_reference`, `object_destructor`, `array_destructor`; `INC_REF`, `DEC_REF`, `SET_PROPERTY`, `SET_ARRAY`, `SET_GLOBAL`, `WEAK_SET_PROPERTY` | calls back into the interpreter (a destructor is Solix code) and into the allocator |
| **Leaving blocks and exceptions** `core/src/processes/assembler.cpp`, `core/src/runtime.cpp:1590-1720` | per block: its cleanup and the jumps to patch; per run: `active_exception`, `return_to_cleanup`, the call stack | normal end, `return`, `break`, `continue`, `throw`, `try/catch/finally`; `THROW_EXCEPTION`, `CLEAR_EXCEPTION`, `REGISTER_RETURN_CLEANUP`, `JMP_TO_OUTER_CLEANUP` | reference counting |
| **Bytecode interpreter** `core/src/runtime.cpp` (`run_bytecode`) | stack, call stack, instruction pointer, limits | about 190 instructions | all of the above, native functions |
| **Code generation** `core/src/processes/assembler.cpp` | scopes, pending patches, constant pools | one visitor per syntax node | emits what the interpreter runs |
| **Binder** `core/src/processes/binder.cpp` | class layouts, vtables, scopes, overload sets | declaration passes, body pass | syntax tree, templates |
| **Templates** `template_deduction.cpp`, `template_substitution.cpp`, `ast_clone.cpp` | instantiations made so far | deduce, substitute, clone | binder |
| **Lexer and parser** `lexer.cpp`, `parser.cpp` | position | tokenise, recursive descent | - |
| **Driver and diagnostics** `compilation.cpp`, `process.cpp`, `diagnostic.cpp` | the reports so far | phases in a fixed order | all phases |
| **Native registry, shared libraries** `core/src/runtime/` | a map of functions under a mutex, open libraries | register, find, load | interpreter |
| **Package archives** `core/src/utilities/zip_utils.cpp` | - | write, list, extract | package manager |
| **Dependency resolution** `tools/cli/src/dependency_resolver.hpp`, `semver.hpp` | visited manifests, discovered projects | discover, resolve conflicts, order | build commands, registry |
| **Package manager** `tools/cli/src/package_manager.cpp` | `installed.json`, one directory per package and version | install, uninstall, list, resolve | file system, other processes |
| **Command line** `tools/cli/src/` | - | argument parsing | the components above |
| **Language server** `tools/lsp/src/` | open documents; the sources and trees of the last analysis; a spatial index | initialize, open, change, save, close, queries, shutdown, exit | compiler core; the editor, through a pipe |
| **Collections** `libraries/solixlib/src/solix/collections/*.slx` | arrays, links, trees | the usual ones | written in Solix, on reference counting |
| **Native library**, **raylib**, editor extension, examples | - | - | operating system |

How they interact where it matters for correctness: the assembler decides, per
syntax node, which reference-count instructions surround a load, a store and a
way out of a block; the interpreter executes them one at a time; a release may
reach zero and call *back* into Solix code (a destructor) from the middle of
an instruction; that code may assign, allocate, throw, and resurrect the object
being destroyed; at the end of it `Memory` frees a block, clears the weak slots
registered for it and merges its words into the free lists. Everything runs in
one thread: interleaving comes from callbacks and exceptions. The package
manager and the language server are the exceptions: several processes share a
registry file, and editor and server write to each other without waiting.

### What is hard, and what would make it right

| component | hard behaviour | correct when |
|---|---|---|
| Heap allocator | two lists updated through splits, forward and backward coalescing and retraction; 64-bit sizes narrowed to 32 bits | blocks never overlap or leave the heap; the lists agree; free runs are whole; no word is lost; a request is refused only when no run is long enough |
| Reference counting | destructors in the middle of assignments and releases; resurrection; weak slots kept as raw addresses | the count is the number of owners at *every* instruction; nothing is freed twice, early, or never; a weak field is null or leads to a live object |
| Leaving blocks | one copy of a cleanup per way to leave a block; destructors and finally blocks during unwinding; frames without a registered cleanup | every reference is released once on every path; each finally block is entered once; an exception reaches the nearest clause of its own caller |
| Dependency resolution | overrides that arrive late, version conflicts, cycles | the order is topological; the version chosen satisfies the rules for all that asked |
| Package manager | crash between two writes; a copy of the registry that grows old; concurrent commands | the registry lists what is installed; no command undoes another; every command returns |
| Language server | diagnostics of files that were repaired; a context that is the input of the next analysis; requests behind edits in the pipe | what the editor shows is what the current texts imply; every request is answered once, from the texts its writer saw |
| Lexer and parser | unlimited look-ahead decides whether `<`, `(` and a name begin a type or an expression | what is written as the documentation says is read as the tree it was written from |
| Code generation, interpreter | jumps patched after the fact; operands left or taken on the way out of loops and switches; values narrowed when stored | a program does what its structure says, and no jump changes the number of operands |
| Binder | passes over hash maps in any order; tables shared by classes that inherit | every call reaches the method of the object's class, whatever the order |
| Collections | wrap-around, iteration under modification, rebalancing | each refines the abstract collection it is named after |

`PROJECT.json` "hazards" lists these at the line where each bites, with the
properties that would notice.

## 2. The modules

Every module models one component; `MC*` modules only define the constants'
values for TLC. `Syntax`, `Notation`, `CodeGeneration` and `Meaning` go through
trees with `RECURSIVE` operators and are only model-checked; no other module
has one, so that any of them can be proved about.

### HeapAllocator, HeapContract

`HeapAllocator` is `Memory`: one action for each of its operations, with the
three ways `dynamic_allocation` finds memory (`AllocateExact`, `AllocateSplit`,
`AllocateFresh`) as the disjuncts of `Allocate`, in the order the code tries
them. All addresses are multiples of 8, so an address is the index of a word.
`header` is what the header word of a live block keeps (its tag and count);
`free_by_addr` and `free_by_size` are the two `std::map`s; `fault` is the
`std::runtime_error` that ends the program. Sizes are computed without bound
and narrowed (`Narrow`) exactly where the code casts to `uint32_t`, modulo the
constant `AddressWords`, so that wrapping can be checked with small numbers.
`deallocate` computes the size of a block again, from the header, with the
cases the code has (`FreedWords`), which are not those of allocation
(`PayloadWords`).

`HeapContract` is what callers may rely on: live blocks do not overlap; freeing
one gives exactly its words back; a request is refused only if no run of free
words is long enough. `ImplementsContract` says `HeapAllocator` refines it.

### RefCounting

A C++ call that calls back into Solix code is a stack of things left to do
(`work`): activations (`run`), expression values, and the remainders of
`decrease_reference` (`after invoke_destructor`, `after object_destructor`) and
of an assignment (`SET_PROPERTY`, `SET_GLOBAL` after the `DEC_REF` of the old
value). One step is one thing done. So a destructor interleaves with the
instruction that triggered it exactly where the code lets it.

* The program is *any* program: at each statement it evaluates some readable
  reference or allocates, and assigns to a local variable, a field, an array
  element, a static field, a weak field. `Programs` says which of these it
  uses (`targets`), what its destructors do (`habits`) and how far it goes
  (`blocks`, `work`); `program` is the one that runs.
* A block has one strong slot and one weak field; each activation has one
  local. A second strong slot changes how many children one release visits,
  not the order of the instructions around each.
* `deallocate` is here what it does to counts, weak slots and liveness; where
  the words go is HeapAllocator's. New memory may take any free address, at once.
* A weak field is registered by the raw address of its slot, and stays
  registered when its object dies. `at_slot` is what lies at that address of the
  block built there last: the weak field of an object, or, because blocks have many
  layouts and are split, the strong slot (a field or an element) or the header of
  another block (`layouts`). `deallocate` writes zero there whatever it is
  (`Nulled`): a strong slot forgets what it owned, a header loses its tag and count.
* `habits` are what programs do that breaks the counting (see Known
  deviations): two things destructors do, and `stray`, that a block dies while a
  stale registration of it leads to a strong slot or a header. With `habits = {}`
  destructors may still do everything else: allocate, resurrect `this`, drop or
  relink fields of any object they reach, trigger further destructors; and
  slots may go stale and their memory be reused with any layout, up to the
  death that would write there.

Both weak references and the two counts an `INC_REF`ed value holds (its slot's
and the expression's) are separate owners in `Owners`, the reference definition
that `CountExact` compares the header with.

### Unwinding

The blocks open in a frame are the assembler's `exception_cleanup_patches` at
that program point. A statement that leaves blocks puts the code the assembler
emits for it in the frame's `todo`: `ExitCode` for return (release the
variable, inline the finally block), releases only for break and continue,
`CleanupOf` for an exception, which releases the variable of the innermost
block and then decides (`CatchException`, `UnwindTry`, `UnwindBlock`,
`UnwindFrame`, `Unhandled`) where control goes next. A finally block is Solix
code, so the code that follows it is kept in the block's `after` while it runs.
Destructors run in frames of their own in the middle of a cleanup.

`Programs` again has the programs; `habits` are the things one does that lose
something, and `Careful` and `MayThrow` describe programs without them. A frame says how it was
pushed (`how`), because not every call registers a cleanup of its caller: the
assembler emits `REGISTER_RETURN_CLEANUP` only where it has a block open. The
initializers of fields, which a constructor evaluates before its body
(`Initializes`), are outside any block; the call of an overloaded operator has
none anywhere; nor has the call of the base's destructor at the end of a
destructor (`EndDestructor`, `SuperDestructor`; a `return` in a destructor
leaves that call out, in the code too). An exception out of such a frame is
`Escape`; what follows in the wrong frame is not modelled. Initializers of
static fields, which run before `main`, are not modelled either.

### DependencyGraph

`resolve_graph`, with the recursion of `discover_single_project_dependency` as
a stack of activations. The manifests are chosen in `Init` and do not change.
A dependency names the manifest that the code finds for its path or name; what
`find_project_manifest` and the package manager do to find it is left out.
Profiles are numbers in the order of their names, because the code falls back
to the first. `std::sort` is not stable, so that candidates of the same version
come in any order. Versions are pairs; the third component is compared like the
second and changes nothing else.

A project may adopt a profile after its manifest was visited; what that profile
asks for in addition is then never looked at. So which dependencies of a
candidate were followed cannot be read off the candidate. `Settled` says when it
can: no two requests differ about its profile. `Followed` are the dependencies
that were followed whatever the order, `Followable` those that may have been; the
properties use the first where they promise and the second where they excuse.

### PackageRegistry

A process runs one command at a time; `calls` is its stack of activations of
`install_project` and `uninstall_project`, each with its own copy `registry_`
of the registry, as old as the code lets it become: a dependency with a path is
installed by the same `PackageManager`, which reads the file again afterwards;
a bundled library is installed by another, and nothing is read again. Writing
the file is two steps, as is replacing a directory, and a process may be killed
before each (`Crash`), or its command throw an exception there (`Raise`). An
exception ends a command, but for two places that catch all: the installation of
a dependency with a path, which is then left out (`skipped` of the call), while
the one that needs it goes on; and the first of the resolver's two attempts.

Two history variables say what a change that was cut short has spoilt.
`interrupted`: the packages between whose directory and registration that
happened, until a command completes for them. `forgotten`: all that
`installed.json` listed when it was cut short between being emptied and being
written, until a file lists them again.

### Pipeline: Syntax, Notation, CodeGeneration, Interpreter, Meaning

`Pipeline` is `run` of `compilation.cpp` and `RuntimeContext::execute` over one
file. `Syntax` is the parser: one operator per parsing function, each of which
answers a tree and a position, with the code's order of alternatives and its
look-aheads (`OpensTemplateArguments`, `IsDeclarationAhead`, `IsLambdaAhead`,
`CastType`). The functions call each other through `Parse` and `Declare`.
Tokens stand for the lexer's output. `CodeGeneration` is the assembler for
methods of integers and booleans, with the pending patches, the narrowing of
what is stored and the boot sequence; `Interpreter` has one action for each
family of instructions the former emits.

`Notation` and `Meaning` are the references these are compared with: how the
documentation says a tree is written (its precedences, stated as printing), and
a structured evaluation without operands, addresses or jumps. Neither is
translated from the code of the parser or the assembler.

### ClassTables

The binder's passes over the classes of a program: destructors and their
chaining (second pass), `calculate_class_vtable` and
`calculate_interface_vtable` with their recursion as a stack of activations,
`calculate_layout`; and then what the assembler and the interpreter make of the
tables in `CALL_VIRTUAL`, `CALL_INTERFACE` and `INSTANCE_OF`. Each pass takes
the classes in any order (`pending`), because the code goes through a hash map.
`Promised`, `DestructorsRun` and `WellFormed` say, from the declarations alone, which
method a call should reach, which destructors should run and which programs
should be refused.

### LanguageServer

The editor and the server at the two ends of a pipe (`inbox`, `outbox`).
The server's actions are the handlers of `process_message`, each the whole
handler: opening, changing and saving a document ends in `Analyze`
(`analyze_document`), which gathers the sources from open documents and disk,
runs the stages that have no error before them, publishes and keeps what
`Preserved` says. The editor's actions (external: they are those of the
editor's language client) write without waiting for an answer, save to the
disk the server reads, and may hang up at any time. A text is what the front
end makes of it. `history` is read by the properties alone: the classes of each
file's last good text and the names it ever declared.

A declaration that was kept points at sources that have been freed
(`Location`): the model gives it any place. That reading the freed memory does
not crash the server is an assumption of `RequestsAnswered`.

## 3. The runs

Fairness is assumed where something must happen. `registry`: a process that is
not killed goes on (`WF_vars(Work(self))`); nobody has to start a command.
`pipeline` and `classes`: one thread that takes its next step as long as it has
one (`WF_vars(Next)`). `lsp`: `LspServer::run` reads whenever a message waits,
and the editor reads what it is sent; its user need not do anything. The heap,
reference counting and unwinding are driven by a program that may stop, and
resolution is one call: their properties are safety properties.
`CHECK_DEADLOCK` is off where the program may end: the heap is exhausted
(`fault`), the stack bound is reached, `main` has returned, the graph is
resolved, no more commands are given, the classes are bound, nothing is left to
type.

| run | question | instance |
|---|---|---|
| `heap` | does any sequence of calls keep blocks disjoint, lists in agreement, free runs whole, statistics exact; and is the contract kept? | 12 dynamic words, requests of 1, 2 and 3 words and of nothing |
| `arc` | are counts exact at every instruction, whatever assignments and destructors do; when releases cascade; and with the two assignments that leak, is anything freed early? | 2 blocks with all kinds of targets, 3 blocks linked by fields, 2 blocks with the leaking targets, 2 and 3 blocks laid over former weak fields |
| `unwinding` | is every reference released once, each finally block entered once and no exception lost on every way out? When exceptions leave operators, destructors, field initializers, operands and clauses, is anything freed early, or a finally skipped? | 5 open blocks in any frames, 2 statements with finally; 4 blocks for the programs that lose |
| `deps` | does resolution end with what is reachable, in order, of the right versions and profiles, and fail only for a reason? | graphs of 3 or 4 manifests |
| `pipeline` | is what is written read back, and does a compiled program do what its structure says, and end? | ten thousand trees of depth two and three in two notations, forty programs with several inputs each |
| `classes` | whatever the order of the classes, is each program refused or bound as it should, do calls reach the right method, are fields apart, are destructors chained, does the binder end? | two thousand programs of 3 to 5 classes and interfaces, in every order |
| `lsp` | do diagnostics settle on what the texts imply, is every request answered once, and from which texts? | 2 files, 5 texts, 3 names, 4 messages of which 2 are requests, 2 of them waiting at a time |
| `registry` | do registry and directories agree after any commands, however one fails, throws or is killed, but for the package it was changing and what a file lost that it was writing; are the dependencies of what was installed there, but for those that threw; does every command return? | 5 packages, 3 commands, 1 of them killed or thrown out of, 1 process |

*Why the bounds are enough.* `heap`: a release merges with at most two
neighbours and a split leaves one remainder; with twelve words and blocks of
two to four (header included) every combination of neighbours on both sides,
with and without the top, occurs, and so do exact fits, splits with the
smallest possible remainder, and exhaustion. `arc`: with two blocks a cycle,
a self reference, resurrection and reuse of an address all occur; the bound
`work` never binds there, because a destructor nests only inside the
release of another block (deeper stacks would need a third). The second kind of
program adds the third, with fewer kinds of target; the last two lay a strong slot
or a header over the weak field of a dead object, for which a holder, its target
and the new block are enough. Within the bounds of these two the case does occur: with
the habit `stray` added they violate the properties listed for it under Known
deviations. `unwinding`: `blocks` counts the
open blocks of all frames, so that five hold a try in a try in a body, a loop
in a try in a function called from a try, or five calls. Two objects suffice
because a property is violated by one object's count, while the second is the
exception that interferes. `deps`: every graph of a root, a project in two
versions (equal, compatible or not) and a fourth project, each depending on at
most two others (the first version on one), so that every kind of cycle and
diamond occurs (`Versions`); a root that overrides the profiles of two projects that may
depend on each other (`Profiles`); dependencies that an inherited profile adds, and
those that are refused (`Inheriting`); and profiles, with dependencies of their own, that
are requested before and after a project was discovered (`Adopting`). `registry`: one command to prepare,
one that is killed or throws, one that follows; the packages have both kinds of
dependency, one inside the other, and one that is never compiled. `pipeline`:
precedence and look-ahead compare an operator with its neighbour, so that every
operator under every other, on both sides, decides; `<` and `>` stay out of one
text (see below). The programs put every way out of a loop or switch under every
kind of loop. `classes`: what a class does to its tables depends on its base
and on one or two interfaces; three classes in a line or a fork with two or
three interfaces have every order of computation and every place an
implementation may come from. `lsp`: an analysis depends on the one before it
and on the other file; four messages leave room for a good text, a broken one,
a change of the other file and a request behind them.

The other runs show disagreements between the code and what its documentation
says of it, each as the shortest counterexample TLC finds.

| run | what the code does |
|---|---|
| `heap_tuple` | a tuple is allocated with 12 bytes per element and freed with 1: the rest is lost |
| `arc_pending` | the old value of a field is released before the new one is stored; its destructor can release it again |
| `unwind_operator` | an exception out of an overloaded operator passes its caller, whose code then runs twice |
| `class_super` | `super.m()` of a virtual method runs the override again, until the stack ends |

After the first double free (`freed_twice`) or the first handler in a wrong
frame (`misframed`) nothing further is modelled: the state of the real program
is then whatever the overlapping memory says.

### Known deviations

What else the code does that a reader would not expect. The passing runs
exclude each by a constant or by a condition in the property; lifting it as
given makes TLC show a violation of the property. Those of the virtual machine
were reproduced with compiled programs.

| module, constant | property violated | what the code does |
|---|---|---|
| RefCounting, `habits` with `"dying"` | `FreedOnce` | an object leaves `active_destructors` before its fields are released; a child's destructor can destroy it again |
| RefCounting, `targets` with `"weak"`, `habits` with `"stray"`, `layouts` with `"strong"` | `CountExact`, `NoOrphan` | the object of a weak field dies, then a block with a reference field or an element at that address is built; when the target of the former field dies, `deallocate` (`runtime.cpp:33-37`) writes zero into the reference: its object is never freed |
| the same with `"static"` and `"header"`, three blocks | `CountExact`, `FreedOnce`, `NoOrphan` | the word is the header of a live block: its tag and count become zero, the next load and release free it while it is owned, and the next pair frees it again |
| RefCounting, `targets` with `"weak"` | `WeakUntilFreed` | weak registrations outlive the object that holds the slot |
| RefCounting, `targets` with `"path"` | `CountExact` without `Leaky` | `a.b.c = v` leaks `a.b` |
| RefCounting, `targets` with `"by_name"` | `CountExact` without `Leaky` | a static field assigned by its simple name leaks its old value |
| Unwinding, `habits = {"late"}` | `CountExact` | `continue` before a declaration releases the object of the previous iteration again |
| Unwinding, `{"local"}` | `CountExact` | `throw x` of a local variable frees the exception before it is caught |
| Unwinding, `{"jump"}` | `FinallyRuns` | `break` and `continue` skip `finally` |
| Unwinding, `{"overlap"}` | `InFlight` without `Habits = {}` | an exception thrown and caught inside a `finally` during unwinding erases the one in flight |
| Unwinding, `{"overlap"}`, two statements, seven blocks | `FinallyRuns` | the erased exception lets unwinding pass a `finally` that `return` was running: it is entered again, and variables are released again |
| Unwinding, `{"destructor"}` | `SearchContinues` | an exception out of a destructor passes the function that released the object, or the destructor of the derived class that called it |
| Unwinding, `{"initializer"}` | `SearchContinues` | an exception out of the initializer of a field passes the constructor: the handler of its caller runs in the constructor's frame |
| Unwinding, `{"operand"}` | exactness in `CountExact` | operands of a call that throws are never released |
| Unwinding, `{"finally"}` | `FinallyRuns` | an exception out of a `finally` that `return` runs enters it again |
| Unwinding, `{"catch"}` | exactness in `CountExact` | leaving a `catch` clause early leaks the exception |
| DependencyGraph | `ProfileExists` | a profile requested of a project that was visited before is adopted unchecked, and the dependencies stay those of the profile before |
| DependencyGraph | `Topological` | of two versions of a project the higher takes the place of the one discovered first, which may precede its own dependencies |
| DependencyGraph, without the exception for cycles in `RequestsHonoured` | | a profile requested of a project that is being discovered is ignored |
| DependencyGraph, `DiscoversReachable` with `Asked(c.manifest, c.selected_profile)` for `Followed(c)` | | the `additional_dependencies` of a profile that was adopted late are not discovered: the project is built with the profile and without them (`docs/spec/tools/cli/build.md:95`: "recursively discovers dependencies defined within each dependency candidate's selected profile") |
| PackageRegistry | `TornIsRegistered` | `save_registry` empties `installed.json` before it writes it (`package_manager.cpp:149-151`): a command killed in between, or a text that is not UTF-8, which `dump` refuses, loses every registration; the next command takes the file for an empty one |
| PackageRegistry | `NoneSkipped` | `catch (...) {}` around the installation of a dependency with a path (`package_manager.cpp:287`): one that throws is left out, and what needs it is installed and registered without it |
| PackageRegistry | `DependenciesInstalled`, `RegisteredIsInstalled` without `interrupted` | a registered package whose directory a killed command was replacing or removing stays registered, and later installations take it for an installed dependency |
| PackageRegistry | `BundledIsRegistered` | the registration of a bundled library that an installation needed is overwritten by the installation |
| PackageRegistry, `Process = {p1, p2}` | `InstalledIsRegistered` | of two commands at once one undoes the other; one that reads the file while the other writes it finds it empty and forgets everything |

Mutual dependencies with paths (PackageRegistry): `install_project` installs a
dependency with a path unless it is registered, which it is at the end of its
own installation, so two projects that depend on each other install each other
until the stack overflows; `docs/spec/tools/cli/manifest.md` says they are
"recognized and de-duplicated gracefully". `CommandsReturn` is checked with
packages that do not.

Parser and code generation. The trees and programs of `pipeline` avoid these;
they were reproduced with compiled programs.

* `continue` inside a `switch` inside a loop leaves the switch's operand on the
  stack (`docs/spec/statements/control_flow/expression_statement.md:7`:
  the stack "is always balanced").
* A `default` before a `case` is taken at once, and of two the last counts
  (`docs/wiki/keywords/control_flow/default.md:12`, `switch.md:37`).
* The value of `x++` and of an assignment to an `int8` is not narrowed, what is
  stored is; a static `int8` field assigned by its simple name is not even
  converted.
* `(a < b) == (c > (d))`, and the same without parentheses, is read as a call
  with template arguments; `(a) - b` as a cast; `assert (x) == y;` and
  `exit (a) + 1;` end at the parenthesis.
* `assert c : m` (`intrinsics.md`) is refused, the parser wants a comma; a local
  `Foo(*)(int) f = ...` (`types.md:402`) is not recognised as a declaration.
* A variable without an initializer in a loop keeps the value of the iteration
  before.

Binder. `classes` leaves these out by its programs or by `Hides`,
`InheritsImplementation`, `OutOfSight` and `Endless`; the first three and
the fifth were reproduced with compiled programs.

* A base imported by its simple name, or generic, is not found when destructors
  are chained: its destructor never runs
  (`docs/guide/04_classes_and_oop.md`, "Automatic Reverse-Inheritance Chaining").
* An inherited method that is not virtual and implements an interface of the
  derived class is made virtual, with the derived class's index, for the base's
  objects too; a call of it there fails ("Virtual method resolution failed!") or
  reaches another method.
* `virtual` in a class whose base has the method opens a second slot: calls
  through the base do not reach it.
* An abstract method that hides one with a body is not required of the classes
  below if they implement an interface that has it: the search for an
  implementation passes over it and puts the hidden method into its slot, and a
  concrete class without an `override` is accepted
  (`docs/wiki/keywords/modifiers/abstract.md:34`, "Mandatory Override").
* Classes that extend each other, with an interface method none has, keep the
  compiler in a loop.
* The return type of an implementation is not compared with the interface's; a
  static method counts as one; `class D extends Interface`, `interface extends
  class` and `implements Class` are accepted; an abstract class cannot call the
  interface methods it leaves to others; `return` in a destructor skips that of
  the base; methods a template instantiated in the last pass made virtual are
  virtual too late.

Language server. `DiagnosticsShown` and `AnswersComplete` are stated so that
they hold with these.

* A file repaired by a change elsewhere keeps its marks until it is edited
  (`server.cpp:377` "for target_uri and any open files").
* Classes of the last analysis are kept whether or not there was a syntax error
  (the comment at `server.cpp:327` says "if"): one that was deleted or renamed
  is offered for ever, while enums and aliases behind an error vanish.
* What is kept points at source strings that have been freed
  (`docs/spec/tools/lsp/protocol.md` 5.1: "Persistent compilation options
  (`last_opts_`) guarantee source string pointers remain valid"); a class moved
  to another file may be found at its old one, because `symbols`, which
  `find_type_declaration` prefers, is never filled.
* One file the lexer cannot read keeps every file from being parsed; errors of
  the binder that it throws are not shown; after `didClose` the server goes on
  with the unsaved text until the next analysis.
* A `rootUri` of null, or a message that is not valid JSON, ends the server; so
  does the end of the input, with code 0 although no `exit` was sent.

Requests of 4 GiB and more wrap around in `dynamic_allocation`; the model
narrows where the code does, and the instances stay below (`NoWrap`).

## 4. The proofs

`HeapAllocatorProofs` proves, for every heap size, every set of requests and
every sequence of calls, as invariants of `HeapAllocator!Spec`: `TypeOK`
(`TypeCorrect`) and `WellFormed` (`HeapWellFormed`), the conjunction of
`InHeap`, `Disjoint`, `FreeListsAgree` and `Coalesced`.

*Assumption.* `NoWrap`: no request, even with its header, the words a split
needs and the whole heap added, reaches 2^32 bytes. Some such bound is
necessary: a larger request is narrowed to a small one and granted. Tuples are *not* excluded: freeing one
gives back too little, which loses memory but breaks none of the five.

*Argument.* None of the five is inductive alone. That a block handed out by a
split does not overlap needs that the entry found in `free_by_size` describes a
real block (`FreeListsAgree`); that the run `deallocate` builds from its
neighbours is disjoint from the rest needs that payloads read from the header
are no larger than what was reserved (`FreedWords <= PayloadWords`), that a free
block which starts right after the freed one cannot overlap another, and that
only the nearest free block below can end where the freed one starts; that
coalescing stays complete needs that the neighbour of a neighbour is not free
already. `IInv` is the conjunction of the five: each needs others. The module proves
first what `Aligned`, `Low`, `High`, `Erase` return, then one lemma per action
and conjunct, then `Invariance`, from which the two theorems follow.

Its second half goes on from there, under `NoWrap` and `NoTuples`:

- `NothingLost`: `Accounting`.
- `Implementation`: `ImplementsContract`, the refinement of `HeapContract`.

*Assumption.* `NoTuples`: what `deallocate` computes for a tuple is less than
what was reserved, and the run `heap_tuple` shows that the difference is lost;
both theorems are false with tuples.

*Argument.* `AInv` is `IInv` and `Accounting`. The blocks that merge when one is freed
cover the run `Low .. High` exactly, because without tuples the size read from
the header is the size reserved (`DeallocateTiles`); a split leaves no word
between the new block and the remainder (`SplitTiles`). The statistics follow
by counting words: a block's own are apart from those of the other live blocks
(`LiveApart`), so handing it out adds exactly them. For the refinement, a
successful request maps to `Grant` because the *next* state is `Disjoint`
(`Granted`), a release to `Release`, static memory to a stutter. The
hard case is `Refuse`: suppose a run of p + 3 free words. It starts
below the top, hence, `Tiled`, in a free block; that block has at most p + 1
words (`NoFit`: neither an exact nor a split fit was found); the word after it is
in the run, not the top, and begins no free block (`Coalesced`), so it begins a
live block, and the run was not free.

`RefCountingProofs` proves, for any number of blocks, any bound on the counts
and any programs, as invariants of `RefCounting!Spec`: `TypeOK` (`TypeCorrect`),
`CountExact` (`CountIsExact`), `FreedOnce` (`FreedAtMostOnce`), `NoOrphan`
(`NoneLeftBehind`) and `WeakSafe` (`WeakIsSafe`).

*Assumption.* `Careful`: the programs have no `habits`. The three habits are the
known ways to break the counts: a destructor that assigns the slot whose old value
is being released (`arc_pending` shows what follows), a load of an object
whose destructor has returned, and a death that writes its zero through a stale
weak registration into a strong slot or a header. The first two are mistakes of the
program. The third is not one a programmer can see: it depends on where the allocator
puts the next block. Of a program with weak fields the theorems therefore say that counts
are exact *until* that first happens, and nothing about what follows; a
program whose weak fields never outlive their object's memory, or without weak fields, is
covered entirely. Programs that *lose* references, by
`a.b.c = v` or a static field's simple name, are included: there the counts are
too high, never too low.

*Argument.* Counts change one instruction at a time while destructors run inside
releases inside assignments, so the invariant must hold in the middle of each.
`Counted` says that a count covers the owners, and is their number in programs
that lose none; the owners are the slots of live blocks, the static field, and
the stack frames that hold a reference. An assignment that releases the old
value before storing the new one leaves a slot that owns nothing: while its
frame waits, the slot is not counted (`Pending`), and `Once` says there is one
such frame per slot. Where a path was loaded for the assignment, the reference
retained for it is never given back and the object of the path cannot die
while the assignment waits: `PathClaim`. `Stack` is the shape: which frame
may lie on which (`On`), and that a block in `object_destructor` is live and,
unless its destructor is running above, `Settled`: its count is zero or above its
owners, so releasing its children takes no count below them (`Checks`).
`Dead` says that a count of zero
means a release under way and an empty slot, `Tagged` that there are finitely
many live blocks and the tag tells them from free ones, `Active` that
`active_destructors` are the destructors on the stack, `Stores` that an assignment
to a field waits on an object. The proof has lemmas for what pushing and
popping a frame does to each count (`Pushed`, `Popped`, `ReleasePushed`), one
per instruction, and `OwnersCounted`, which equates the sum kept by the invariant
with the cardinality of the set in the property.

`UnwindingLevels` and `UnwindingProofs` prove, for any number of objects,
statements, frames and open blocks and any programs, as invariants of
`Unwinding!Spec`:

- `TypeCorrect`, `CountsExact`: `TypeOK` and `CountExact`, under `Keeps`.
- `FinallyAlwaysRuns`: `FinallyRuns`, under `Keeps` and without `"jump"`.
- `ExceptionInFlight`: `InFlight`.

*Assumption.* `Keeps`: a program has none of the habits `"late"`, `"local"`,
`"overlap"` and `"finally"`; section 3 shows what each of them breaks.
Programs that throw out of destructors, operators, field initializers, pending operands and
catch clauses are included: they lose references, and `CountsExact` says that even so
nothing is freed that has an owner. `InFlight` is about programs without habits
and needs nothing more. The programs of both `unwinding` instances keep to
`Keeps`.

*Argument.* The properties look at blocks and counts, but what is released next is
decided by code emitted long before, one copy per way to leave a block, of which
any prefix may have been executed. So the invariant is about that code.
`Level(s, c, rs)` says of blocks `s` and the code `c` still to be executed in
them: code that leaves one block (`LeaveCode`), that unwinds (`UnwindCode`), that jumps
out of a loop (`LoopCode`) or returns (`ReturnCode`) will release every reference the
blocks it leaves still own and no block it does not leave, and a statement whose
`finally` was not run will be met by it. A `finally` block in the middle of a cleanup keeps its continuation
in `after`, so the same holds at every such block for the blocks below
it (`ScopesOK`). `UnwindingLevels` proves what each instruction does to one level;
which blocks it can disturb is the difficulty: a return statement passes through
blocks that were left already (`Live`), whose variables may be dead.

`UnwindingProofs` adds what relates frames. `Waits`: a frame below the top has
nothing left to do until its call returns, unless a destructor runs
above it. `Flying`: at most one unwinding is under way, and only with an active
exception. `Shelter`: between it and every `catch` or `finally` below that could
mistake the exception for its own there is a `try`; this is what the register that
holds one exception needs, and what `"overlap"` breaks. `Statements`: no statement
is open twice, and one whose `finally` has not run is open. `Counted`: counts
cover the owners, `OwnersIn`, and are exact without habits. `IInv` is their
conjunction. Nothing is proved of `SearchContinues`: of programs that let no exception out
of a frame without a registered cleanup it says nothing, and for the others it is
false. There is a lemma for each instruction and conjunct, and three kinds of lemma on
which they rest: what replacing, pushing and popping a frame does to each
conjunct (`Replaced`, `Pushes`, `Pops`), what opening and cutting blocks does
(`PushesBlock`, `Cuts`), and how owners change (`Framed`).

`DependencyGraphProofs` proves, for any number of manifests with any cycles,
profiles and versions, all that the run checks:

- `NeverRecursive`: `NoRecursion`; `FailureHasReason`: `FailsForAReason`;
  `TypeCorrect`: `TypeOK`.
- `DiscoveryIsExact`: `DiscoversReachable`.
- `SelectsHighest`: `HighestSelected`; `SelectsInOrder`: `TopologicalPerVersion`.
- `HonoursRequests`: `RequestsHonoured`.

*Assumptions.* `ProfileAssumption` and `ProjectAssumption` of DependencyGraph:
profiles have numbers, versions are pairs of integers, and a dependency leads to
a manifest or to nothing.

*Argument, of the walk.* `NoRecursion` relates the stack to the candidates but not to
`visited_manifests`, which is what the code tests. `IInv` adds `Guarded`: what
is on the stack or has become a candidate was visited, so `Enter` cannot repeat
it, `VisitAgain` changes profiles only, and `Leave` moves one manifest
from the stack to the candidates. For the failures, `Pending` says that what is
left to do in an activation is part of what its manifest asks for, under one of
its profiles or under none; a failure is then blamed on a visited manifest. That
an inherited profile is a profile needs that a set of numbers has a least one
(`LeastProfile`, from the well-foundedness of `<`).

*Of what it finds.* The properties look at candidates when resolution has ended.
`Walked` says the same of the middle of a discovery, of the candidates
on the stack and off it (`Current`), and grows into the properties (`WhenFound`).
`Complete`: what a candidate is sure to follow was visited or is left to do. `Grounded`:
a path from the root leads to whatever was visited; paths are sets closed under
what may be followed, so no induction over them is needed (`JoinedTransitive`). `Chain`:
each activation is reached from those below it. `PostOrder`: what a
candidate follows was discovered before it, is on the stack, or leads back to it.
Everything hangs on paths not being lost when a later request makes a candidate
*unsettled*: that only adds to what it may have followed (`Grows`, `JoinedStays`).

*Of what is selected.* `Listed` (a name is listed once, when first discovered),
`Chosen` (the names are selected in that order, each at a version none exceeds) and
`InOrder` (one name stands before another only if a project of it was discovered
before) say what `resolve_graph` does with the candidates; `PostOrder` then gives
the order. For the profiles, `AllRequested` says that an explicit profile was asked
for. The root's requests override, and only the root has any: `Ahead` says that
they are the end of what its activation has left to do, and `Overridden` that a
project has the profile of the last of them that was followed.

`LanguageServerProofs` proves, for every workspace, every set of texts and any
number of messages, edits and requests:

- `TypeCorrect`: `TypeOK`, with its second half: what the server keeps of a file
  is apart from what the last analysis read there, is made of classes when the
  file still has declarations, and was declared by the file once.
- `CompleteAnswers`: `AnswersComplete`.
- `DiagnosticsAreShown`: `DiagnosticsShown`.

*Assumptions.* `TextsAssumption` (what a text is; `Nothing` is no file or text, `Keyword`
no name) and `BoundsAssumption` (the bounds are numbers) of
LanguageServer.

*Argument.* None of the three is inductive. What an answer is made from is the
last analysis, so `IInv` says of each file that the trees are those of the
sources last analysed, that these are the text of its open document
(`Analysed`), and that what is kept lies between the classes of the last good
text and all it ever declared (`Remembered`). That is the server's text; the
property is about the user's, and messages lie between the two. `Follows` closes
the gap: `TextAt(s, d, i, f, t)` says that documents `d` have text `t` for `f`
once the messages before the `i`-th of `s` are handled, and the invariant is that
the server reaches the editor's texts at the end of the pipe and, at each
question in it, the text its writer saw. Taking a message shifts the places by
one (`TextTaken`), sending one leaves the earlier places alone (`TextBefore`,
`TextSent`). `DInv` adds the way back: whatever publications still wait, the
marks the editor ends with (`ShownAt`) contain, for every open file, the problems
of *one* report on the current sources, and in the file in focus no others once
no notification waits (`MarksSent`); for that the last notification waiting must
be about the file in focus (`FocusLast`). An analysis publishes for every file
that has a problem, and a file it stays silent about has none, so its older marks
contain them (`MarksOfAnalysis`); the bound on the queue plays no part.

`PackageRegistryProofs` proves, for all packages and dependencies, however deep
installations nest and wherever they throw or a command is killed:

- `TypeCorrect`: `TypeOK`, for any number of processes at once.
- `RegisteredAreInstalled`, `DependenciesAreInstalled`: `RegisteredIsInstalled`
  and `DependenciesInstalled`, for one process. The invariant says what each call
  of the stack knows to be there (`FrameOK`): its copy of the registry, and of
  its dependencies all but those left and those skipped.
- `InstalledAreRegistered`: `InstalledIsRegistered`, for one process and under
  `BundledClosed`. What must not get lost (`Must`) is in the copy of each call
  that is going to save one, also after an exception, when the file may be lost
  already and only the copies have it.

*Assumptions.* `DependenciesAssumption`, `BoundsAssumption` and
`TornAssumption` (a file cut off is none that lists packages) of PackageRegistry.
One process, because commands that overlap undo each other (section 3).
`BundledClosed`: a bundled library has paths to bundled ones only. The proof found
that this is needed: a bundled library is installed by another
`PackageManager` while its caller keeps the copy it read before, so a package
installed on a bundled library's account would lose its registration when
that copy is saved.

*Argument.* The properties speak of the file; commands work on copies of it, one
per activation and of different ages. `IInv` says what each copy knows
(`FrameOK`): it lists only what is there, whole, cut off by a kill or in the
hands of the running command (`Have`), and of the dependencies an activation is
to install or find, those that are not left are there. A callee's copy contains
its caller's (`Linked`), so the caller loses nothing when it reads the file again
on return. Installing takes nothing out of `Have`, because what is being changed
is in hand; uninstalling does, but an uninstallation never has another activation
below it whose copy could list the package (`UninstallAlone`). `Progress` says how
far the change in hand is, between the directory and the file. `KInv` is the other direction: the file, and every copy that
will be saved without being read again, lists all that needs registering
(`Needed`, `Keeps`). Such copies are those of the activation on top and of those
that build; `Nested` says that above one that builds there are only bundled
libraries, which need no registration, and that is where `BundledClosed` is used.

`ClassTablesProofs` proves, for any number of classes, interfaces, methods and
fields, whatever the order in which the passes take them:

- `TypeCorrect`: `TypeOK`, classes that extend each other included.
- `SlotsAlwaysKeepSignatures`: `SlotsKeepSignatures`.
- `LayoutsAreSound`: `LayoutSound`.
- `DestructorsAlwaysRun`: `DestructorsInSightRun`.
- `DispatchAlwaysReachesNearest`: `DispatchReachesNearest`, what the tables are
  for. In a program that was accepted, each call through each type that an object
  may be assigned to runs the method promised by the object's class, through the
  table of virtual methods or that of the interface, and a cast or `instanceof`
  finds exactly these types.

*Assumption.* `ProgramAssumption` of ClassTables: a program has finitely many
classes, a base is declared and of the same kind, the base of an interface is
the first it extends, and no class declares a signature twice (an error found
before).

*Argument.* `TInv` says what the stack of activations is: they are of different
classes, none of which has its table yet, so what is calculated stays as it is;
and the work an activation has left begins with its base or contains only what
comes after it (`TodoOK`). `Based` ties the table under construction to that of the
base: once the base is taken over, every later step appends or puts a method of
the same signature in its place (`Replaces`), an implementation of an interface
included, which is the step a reader would doubt. A base may be taken over before
its table is finished only if classes extend each other, and that is an error
(`Circular` is what `CircularityFound` excludes).
`LInv` is for the layouts: a class laid out has a finite line above it, no longer
than the number of classes laid out, and all of it is laid out (`Laid`). So no
class above itself ever gets a layout, and the proof need not know that programs
with one were refused. Offsets follow by induction along the fields (`InARow`):
each begins where the one before ends, or behind; and the size of the base bounds
those inherited (`BaseLaid`, `SoundNew`).
`DInv` is for the destructors: after its turn a class has its own and knows the
nearest above (`IsNearest`), or has the nearest above. A class may have its turn
before those above it: `NearestFound` shows that skipping the classes without a
destructor of their own finds the same one whether or not these have inherited
theirs. The chain is then followed by induction on the number of steps
(`ChainRuns`, `OwnersAbove`). That the line above each class ends, when all are
bound, is `LInv`.

For the calls three more invariants are needed, `DispatchInvariant`, each
checked by TLC on the small programs before it was proved. `PInv` says what the
passes have come to: a class is pending, in the stack or calculated, interfaces
before classes, and no error was found once layouts are made. `SInv` is about the
interfaces above a class, which the model collects in rounds (`Collected`): those
of an interface that is ready come from interfaces that were ready before
(`AllSettle`), so that the rounds the model makes are enough and one more would add
nothing (`Saturated`). The
code goes on until every interface was visited, so that no bound shows in it. `GInv` is the heart
of it. `Good` holds of every class, finished or in the middle of its activation:
each entry of its table is the nearest declaration of its signature, or the class
declares it itself and that is still to be done (`Entries`, `Due`); each method
chosen by the object has a position or is due (`Covered`); and each row of the
interface tables leads to positions with the signatures asked for, with no gap in
a class that can be instantiated (`Leads`, `Full`). What is due is read off the list of work
left, so `Good` also says that this list is in order and that an opened interface is
filled later (`InOrder`, `Followed`, `Fits`). `vtable_index` is shared by the classes
that inherit a method, and each writes it again: `Entry` says that it is the
position in the table of the class that declares the method, and the signatures
kept position by position carry it to the classes below.
The rest is reading the finished tables: `ClassCallReaches`,
`InterfaceCallReaches`, `InstancesAreAssignable`.
`GInv` speaks of programs in which no method hides one it does not override and
no inherited method called directly implements an interface of a class below
(`Hides`, `InheritsImplementation`): these are the conditions of
`DispatchReachesNearest` itself, and without either the property is false. The proof
attempt showed that the first was too narrow: an abstract method hides also a
method above it that is called directly, a case the small programs of the run
do not contain.

What TLC alone checks of ClassTables: `RefusesExactly`, which compares the errors
found with `WellFormed` in programs that are refused. `GInv` describes the tables
only as long as there is no error; afterwards the tables that were filled with
methods missing would have to be described too, and those of programs in which
an inherited method called directly implements an interface. And `Finishes`,
which is liveness.

Everything else is model-checked only: `Pipeline`.
`CommandsReturn`, `Finishes` and the second half of `RequestsAnswered` are
liveness properties, which the prover cannot reach; `ParsesBack` and
`SameBehaviour` need an induction over trees, which is out of its reach too.

## 5. Not modelled

*Within the modelled components.* Tuples and closures as owners of references;
leaving a `finally` block by return, break or continue; a `switch` or a lambda
that holds references; errors the virtual machine raises itself (division by
zero stops a program in `Interpreter`; it is not an exception anywhere); counts
that wrap 28 bits; the depth of the C++ stack in a long cascade; `ingest_sources`;
the contents of package directories, failures of the file system (which the
package manager ignores), dependencies on a version other than the bundled one;
staging into a directory of the user's. Of the parser: string and character
literals, variadic parameters, template specializations. Of the assembler and
the interpreter: floats, strings, tuples, lambdas, `sizeof`, casts of
references, the instruction budget and the growth of the stack. Of the binder:
names and scopes, overload resolution, types of expressions, closures. Of the
language server: hover, signatureHelp, completion after a dot or in an import,
the spatial index, invalid messages.

*Components.*

* Lexer: character by character, without state or order.
* Templates, diagnostics and driver: structural recursion over the syntax tree;
  a fixed sequence of phases.
* Native registry, shared libraries, native library: a mutex around two maps;
  wrappers around the operating system.
* Package archives: the layout of bytes in a zip file.
* Command line: argument parsing around the components above.
* Collections: twelve classes written in Solix; see the plan.
* raylib: generated and vendored code, more than a third of the repository's
  lines. The editor extension appears as the editor of `LanguageServer`; the
  examples are programs.

## 6. Plan

1. *(done)* HeapAllocator, its proofs, the refinement of its contract.
2. *(done)* RefCounting, Unwinding; their proofs.
3. *(done)* DependencyGraph, PackageRegistry; their proofs.
4. *(done)* Pipeline: parser, assembler, interpreter against notation and meaning.
5. *(done)* ClassTables: tables, layouts, destructors; proofs of the tables' signatures,
   of dispatch, layouts and destructors.
6. *(done)* LanguageServer: documents, publications, what is kept; its proofs.
7. Collections, each as a refinement of its abstract type: circular buffer
   with iterators first, then deque, list, hash map, heap, linked list.
8. Binder: scopes and overload resolution; template deduction as a pure
   algorithm.
9. The interpreter's limits; closures and tuples in RefCounting.

Theorem to prove next: `RefusesExactly`.
