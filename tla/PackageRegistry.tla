-------------------------- MODULE PackageRegistry --------------------------
(***************************************************************************)
(* The package manager, tools/cli/src/package_manager.cpp: the file        *)
(* installed.json, which lists what is installed, and one directory for    *)
(* each package.  Commands run in processes that share both.  A process    *)
(* reads the file when it creates a PackageManager, works on the copy, and *)
(* writes the file as a whole.                                             *)
(*                                                                         *)
(* install_project calls itself for dependencies with a path, and, through *)
(* build_project and the dependency resolver, for bundled libraries, these *)
(* with a PackageManager of their own: calls[self] is the stack.           *)
(***************************************************************************)
EXTENDS Integers, Sequences, FiniteSets, SequencesExt

CONSTANTS
  Process,
  Package,            \* pairs of a name and a version
  PathDependencies,   \* for each package, those its path dependencies lead to
  NamedDependencies,  \* for each package, the bundled libraries it needs
  Unbuilt,            \* libraries without profiles, which are never compiled
  Torn,               \* a file that was truncated but not written
  MaxCommands,        \* bound on the commands that are started
  MaxFaults           \* bound on the processes killed and exceptions thrown

ASSUME DependenciesAssumption ==
  /\ PathDependencies \in [Package -> Seq(Package)]
  /\ NamedDependencies \in [Package -> Seq(Package)]
ASSUME TornAssumption == \A registry \in SUBSET Package : registry # Torn
ASSUME BoundsAssumption == MaxCommands \in Nat /\ MaxFaults \in Nat

VARIABLES
  installed_json,  \* the packages that are registered, or Torn
  installed,       \* for each package what its directory holds: nothing, all
                   \* of it, or what the process in the middle has written
  calls,
  commands, faults,
  interrupted,     \* history: packages whose last change was cut short
  forgotten        \* history: packages that a file listed which was cut short,
                   \* and that no file has listed since

vars == <<installed_json, installed, calls, commands, faults, interrupted, forgotten>>

Bundled == UNION {ToSet(NamedDependencies[p]) : p \in Package}

(* load_registry: a file that cannot be parsed counts as none. *)
Registered == IF installed_json = Torn THEN {} ELSE installed_json

Call(operation, package, force, as_is, registry) ==
  [operation |-> operation, package |-> package, force |-> force, as_is |-> as_is,
   registry_ |-> registry, step |-> "check", left |-> <<>>, attempts |-> 0, skipped |-> {}]

Top(self) == Last(calls[self])
At(self, step) == calls[self] # <<>> /\ Top(self).step = step
Installing(self) == Top(self).operation = "install"

Becomes(self, call) == calls' = [calls EXCEPT ![self] = Append(Front(@), call)]
Goto(self, step) == Becomes(self, [Top(self) EXCEPT !.step = step])
Push(self, caller, call) ==
  calls' = [calls EXCEPT ![self] = Append(Append(Front(@), caller), call)]

Init ==
  /\ installed_json = {}
  /\ installed = [p \in Package |-> "absent"]
  /\ calls = [self \in Process |-> <<>>]
  /\ commands = 0 /\ faults = 0 /\ interrupted = {} /\ forgotten = {}

-----------------------------------------------------------------------------
(* A command creates a PackageManager.  Commands that build (build, run,
   pack, archive) need profiles, and change the registry only through bundled
   libraries. *)
Start(self) ==
  /\ calls[self] = <<>> /\ commands < MaxCommands
  /\ commands' = commands + 1
  /\ \E p \in Package, force, as_is \in BOOLEAN, op \in {"install", "uninstall", "build"} :
       /\ op # "install" => ~force /\ ~as_is
       /\ op = "build" => p \notin Unbuilt
       /\ calls' = [calls EXCEPT ![self] = <<Call(op, p, force, as_is, Registered)>>]
  /\ UNCHANGED <<installed_json, installed, faults, interrupted, forgotten>>

Allowed(c) ==
  CASE c.operation = "install"   -> c.package \notin c.registry_ \/ c.force
    [] c.operation = "uninstall" -> c.package \in c.registry_
    [] c.operation = "build"     -> TRUE

Check(self) ==
  /\ At(self, "check")
  /\ LET c == Top(self)
     IN  \/ ~Allowed(c) /\ Goto(self, "failed")
         \/ /\ Allowed(c) /\ (c.operation = "uninstall" \/ c.as_is)
            /\ Goto(self, "clear")
         \/ /\ Allowed(c) /\ Installing(self) /\ ~c.as_is
            /\ Becomes(self, [c EXCEPT !.step = "dependencies",
                                       !.left = PathDependencies[c.package]])
         \/ /\ c.operation = "build"
            /\ Becomes(self, [c EXCEPT !.step = "build", !.left = NamedDependencies[c.package]])
  /\ UNCHANGED <<installed_json, installed, commands, faults, interrupted, forgotten>>

(* Dependencies with a path are installed first, unless registered. *)
InstallDependency(self) ==
  /\ At(self, "dependencies")
  /\ LET c == Top(self)
     IN  \/ /\ c.left = <<>>
            /\ Becomes(self, [c EXCEPT !.step = "build", !.left = NamedDependencies[c.package]])
         \/ /\ c.left # <<>> /\ Head(c.left) \in c.registry_
            /\ Becomes(self, [c EXCEPT !.left = Tail(@)])
         \/ /\ c.left # <<>> /\ Head(c.left) \notin c.registry_
            /\ Push(self, c, Call("install", Head(c.left), FALSE, FALSE, c.registry_))
  /\ UNCHANGED <<installed_json, installed, commands, faults, interrupted, forgotten>>

(* The resolver looks up each library in the file, and tries twice to install
   one that is bundled.  That it fails does not matter to a library that is
   not compiled. *)
Resolved(c) == c.operation = "install" /\ c.package \in Unbuilt
FindLibrary(self) ==
  /\ At(self, "build") /\ Top(self).left # <<>>
  /\ LET c == Top(self)
     IN  \/ /\ Head(c.left) \in Registered
            /\ Becomes(self, [c EXCEPT !.left = Tail(@), !.attempts = 0])
         \/ /\ Head(c.left) \notin Registered /\ c.attempts < 2
            /\ Push(self, [c EXCEPT !.attempts = @ + 1],
                          Call("install", Head(c.left), TRUE, FALSE, Registered))
         \/ /\ Head(c.left) \notin Registered /\ c.attempts = 2
            /\ Goto(self, IF Resolved(c) THEN "clear" ELSE "failed")
  /\ UNCHANGED <<installed_json, installed, commands, faults, interrupted, forgotten>>

(* As if commands that only build installed what they built. *)
Installed(self) ==
  /\ At(self, "build") /\ Top(self).left = <<>>
  /\ Goto(self, "clear") \/ Goto(self, "failed")
  /\ UNCHANGED <<installed_json, installed, commands, faults, interrupted, forgotten>>

Build(self) ==
  /\ At(self, "build") /\ Top(self).left = <<>>
  /\ \/ Goto(self, IF Installing(self) THEN "clear" ELSE "returned")
     \/ ~Resolved(Top(self)) /\ Goto(self, "failed")
  /\ UNCHANGED <<installed_json, installed, commands, faults, interrupted, forgotten>>

(* remove_all; from here the directory is neither what it was nor what it is
   to be. *)
Clear(self) ==
  /\ At(self, "clear")
  /\ installed' = [installed EXCEPT ![Top(self).package] = self]
  /\ Goto(self, "stage")
  /\ UNCHANGED <<installed_json, commands, faults, interrupted, forgotten>>

(* What is staged is whole unless another process has cleared since. *)
Stage(self) ==
  /\ At(self, "stage")
  /\ installed' = [installed EXCEPT ![Top(self).package] =
                     IF ~Installing(self) THEN "absent"
                     ELSE IF @ = self THEN "complete" ELSE @]
  /\ Goto(self, "truncate")
  /\ UNCHANGED <<installed_json, commands, faults, interrupted, forgotten>>

(* save_registry opens the file, which empties it, and writes it.  As if
   uninstall_project left the registration. *)
NotErased(c) == c.registry_ \cup {c.package}
Changed(c) == IF c.operation = "install" THEN c.registry_ \cup {c.package}
                                         ELSE c.registry_ \ {c.package}

Truncate(self) ==
  /\ At(self, "truncate")
  /\ installed_json' = Torn
  /\ Becomes(self, [Top(self) EXCEPT !.registry_ = Changed(Top(self)), !.step = "write"])
  /\ UNCHANGED <<installed, commands, faults, interrupted, forgotten>>

Write(self) ==
  /\ At(self, "write")
  /\ installed_json' = Top(self).registry_
  /\ interrupted' = interrupted \ {Top(self).package}
  /\ forgotten' = forgotten \ Top(self).registry_
  /\ Goto(self, "returned")
  /\ UNCHANGED <<installed, commands, faults>>

(* What the caller does next.  After a dependency with a path it reads the
   file again, or fails with it; an exception is caught there and the dependency
   is left out, with registry_ as the callee, a member function of the same
   object, left it.  The resolver catches what its first attempt throws.  As if
   the caller did not read, looked at the dependency again, or went on. *)
NotReloaded(c, callee) ==
  CASE c.step = "dependencies" /\ callee.step = "returned" -> [c EXCEPT !.left = Tail(@)]
    [] c.step = "dependencies" /\ callee.step # "returned" -> [c EXCEPT !.step = "failed"]
    [] c.step = "build"                                    -> c
NotAdvanced(c, callee) ==
  IF c.step = "dependencies" /\ callee.step = "failed" THEN [c EXCEPT !.step = "failed"] ELSE c
FailureIgnored(c, callee) ==
  CASE c.step = "dependencies" -> [c EXCEPT !.registry_ = Registered, !.left = Tail(@)]
    [] c.step = "build"        -> c
Resumed(c, callee) ==
  CASE c.step = "dependencies" /\ callee.step = "returned" ->
         [c EXCEPT !.registry_ = Registered, !.left = Tail(@)]
    [] c.step = "dependencies" /\ callee.step = "failed" ->
         [c EXCEPT !.step = "failed"]
    [] c.step = "dependencies" /\ callee.step = "raised" ->
         [c EXCEPT !.registry_ = callee.registry_, !.left = Tail(@),
                   !.skipped = @ \cup {Head(c.left)}]
    [] c.step = "build" ->
         [c EXCEPT !.step = IF callee.step = "raised" /\ c.attempts = 2 THEN "raised" ELSE @]

Return(self) ==
  /\ At(self, "returned") \/ At(self, "failed") \/ At(self, "raised")
  /\ LET callers == Front(calls[self])
     IN  calls' = [calls EXCEPT ![self] =
           IF callers = <<>> THEN <<>>
             ELSE Append(Front(callers), Resumed(Last(callers), Top(self)))]
  /\ UNCHANGED <<installed_json, installed, commands, faults, interrupted, forgotten>>

(* What is in the middle of a change stays so.  A file that was truncated is
   lost with all it listed. *)
CutShort(self) ==
  /\ faults < MaxFaults /\ faults' = faults + 1
  /\ interrupted' = interrupted \cup (IF At(self, "stage") \/ At(self, "truncate")
                                        THEN {Top(self).package} ELSE {})
  /\ forgotten' = forgotten \cup (IF At(self, "write") THEN Top(self).registry_ ELSE {})
  /\ UNCHANGED <<installed_json, installed, commands>>

(* A manifest with a value of another type, a directory that cannot be read, a
   name that is not UTF-8, which save_registry finds out when the file is empty:
   an exception.  registry_ may have the package already. *)
Raise(self) ==
  /\ calls[self] # <<>> /\ Top(self).step \notin {"returned", "failed", "raised"}
  /\ CutShort(self)
  /\ LET c == Top(self)
     IN  \E registry \in {c.registry_} \cup (IF At(self, "truncate")
                                               THEN {c.registry_ \cup {c.package}} ELSE {}) :
           Becomes(self, [c EXCEPT !.registry_ = registry, !.step = "raised"])

(* The process is killed. *)
Crash(self) ==
  /\ calls[self] # <<>>
  /\ CutShort(self)
  /\ calls' = [calls EXCEPT ![self] = <<>>]

Work(self) ==
  \/ Check(self) \/ InstallDependency(self) \/ FindLibrary(self) \/ Build(self)
  \/ Clear(self) \/ Stage(self) \/ Truncate(self) \/ Write(self) \/ Return(self)

Next == \E self \in Process : Start(self) \/ Work(self) \/ Raise(self) \/ Crash(self)

(* A process that is not killed goes on; nobody has to start a command, and
   nothing has to go wrong. *)
Spec == Init /\ [][Next]_vars /\ \A self \in Process : WF_vars(Work(self))

-----------------------------------------------------------------------------
(* Properties. *)

Idle == \A self \in Process : calls[self] = <<>>

TypeOK ==
  /\ installed_json \in (SUBSET Package) \cup {Torn}
  /\ installed \in [Package -> {"absent", "complete"} \cup Process]
  /\ \A self \in Process : \A i \in DOMAIN calls[self] :
       LET c == calls[self][i]
       IN  /\ c.package \in Package /\ c.registry_ \cup c.skipped \subseteq Package
           /\ i < Len(calls[self]) => c.step \in {"dependencies", "build"}
           /\ c.step \in {"clear", "stage", "truncate", "write"} => c.operation # "build"
  /\ commands \in 0..MaxCommands /\ faults \in 0..MaxFaults
  /\ interrupted \subseteq Package /\ forgotten \subseteq Package

(* A package that is registered is there: its directory is whole, unless the
   command that changes it is at work or was cut short between the directory
   and the file. *)
RegisteredIsInstalled ==
  \A p \in Registered :
    \/ installed[p] = "complete"
    \/ p \in interrupted
    \/ \E self \in Process : calls[self] # <<>> /\ Top(self).package = p

(* docs/spec/tools/cli/package.md: installed.json is the "central registry of
   all installed packages".  Between commands, what is installed is
   registered, whatever failed or was killed before, but for
     - the package whose own change was cut short before the file was opened,
     - all that a file listed which was cut short itself, and
     - bundled libraries, whose registration is lost when the command that
       needed them saves the copy it read before. *)
InstalledIsRegistered ==
  Idle => \A p \in Package \ (Bundled \cup interrupted \cup forgotten) :
            installed[p] = "complete" => p \in Registered

(* The same of the bundled libraries too, and of all that a file which was cut
   short listed: neither holds. *)
BundledIsRegistered ==
  Idle => \A p \in Package \ (interrupted \cup forgotten) :
            installed[p] = "complete" => p \in Registered
TornIsRegistered ==
  Idle => \A p \in Package \ (Bundled \cup interrupted) :
            installed[p] = "complete" => p \in Registered

(* When an installation has succeeded, all it was built with is there: its
   dependencies with a path, but for those whose own installation threw an
   exception, are registered; their directories and, if it was compiled, those
   of its bundled libraries are whole, but for one that was cut short while it
   was changed. *)
DependenciesInstalled ==
  \A self \in Process :
    At(self, "returned") /\ Installing(self) /\ ~Top(self).as_is =>
      LET p == Top(self).package
          paths == ToSet(PathDependencies[p]) \ Top(self).skipped
      IN  /\ paths \subseteq Registered
          /\ \A d \in paths \cup (IF p \in Unbuilt THEN {} ELSE ToSet(NamedDependencies[p])) :
               installed[d] = "complete" \/ d \in interrupted

(* The same of all dependencies with a path: it does not hold. *)
NoneSkipped ==
  \A self \in Process :
    At(self, "returned") /\ Installing(self) /\ ~Top(self).as_is =>
      ToSet(PathDependencies[Top(self).package]) \subseteq Registered

(* Every command returns, however many packages it has to install, if they do
   not depend on each other with paths. *)
CommandsReturn ==
  \A self \in Process : calls[self] # <<>> ~> calls[self] = <<>>
=============================================================================
