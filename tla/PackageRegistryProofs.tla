----------------------- MODULE PackageRegistryProofs -----------------------
(***************************************************************************)
(* Proofs about PackageRegistry: types for any number of processes; what   *)
(* the registry and the directories have to do with each other when one    *)
(* command runs at a time, for all packages and dependencies, however deep *)
(* installations nest and wherever they throw or are killed.               *)
(***************************************************************************)
EXTENDS PackageRegistry, SequenceTheorems, TLAPS

-----------------------------------------------------------------------------
(* Stacks. *)

Changing == {"clear", "stage", "truncate", "write"}
Steps == {"check", "dependencies", "build", "returned", "failed", "raised"} \cup Changing

(* What a command does decides which steps it may be in. *)
Frames == [operation: {"install", "uninstall", "build"}, package: Package,
           force: BOOLEAN, as_is: BOOLEAN, registry_: SUBSET Package,
           step: Steps, left: Seq(Package), attempts: Nat, skipped: SUBSET Package]
Fits(c) ==
  /\ c.step = "dependencies" => c.operation = "install"
  /\ c.step = "build" => c.operation # "uninstall"
  /\ c.step \in Changing => c.operation # "build"
  /\ c.as_is => c.operation = "install"
Calls == {c \in Frames : Fits(c)}

(* A call that waits for the one above it. *)
Waits(c) ==
  /\ c.step \in {"dependencies", "build"}
  /\ c.step = "dependencies" => c.left # <<>>
Waiting(s) == \A i \in 1..(Len(s) - 1) : Waits(s[i])

LEMMA TopFacts ==
  ASSUME NEW S, NEW s \in Seq(S), s # <<>>
  PROVE  /\ Len(s) \in Nat \ {0} /\ Len(s) \in 1..Len(s)
         /\ Last(s) = s[Len(s)] /\ Last(s) \in S
BY EmptySeq, LenProperties DEF Last

LEMMA FrontFacts ==
  ASSUME NEW S, NEW s \in Seq(S), s # <<>>
  PROVE  /\ Front(s) \in Seq(S) /\ Len(Front(s)) = Len(s) - 1
         /\ \A i \in 1..(Len(s) - 1) : Front(s)[i] = s[i]
<1>1. Len(s) \in Nat \ {0} /\ \A i \in 1..(Len(s) - 1) : s[i] \in S
  BY EmptySeq, LenProperties
<1> DEFINE n == Len(s) - 1
<1>2. n \in Nat /\ \A i \in 1..n : s[i] \in S
  BY <1>1
<1> HIDE DEF n
<1>3. /\ SubSeq(s, 1, n) \in Seq(S)
      /\ Len(SubSeq(s, 1, n)) = (IF 1 <= n THEN n - 1 + 1 ELSE 0)
      /\ \A i \in 1..(n - 1 + 1) : SubSeq(s, 1, n)[i] = s[1 + i - 1]
  BY <1>2, SubSeqProperties
<1>4. Len(SubSeq(s, 1, n)) = n /\ \A i \in 1..n : SubSeq(s, 1, n)[i] = s[i]
  BY <1>2, <1>3
<1> QED
  BY <1>3, <1>4 DEF Front, n

(* The call on top goes on. *)
LEMMA Replaced ==
  ASSUME NEW S, NEW s \in Seq(S), s # <<>>, NEW c \in S
  PROVE  LET r == Append(Front(s), c)
         IN  /\ r \in Seq(S) /\ r # <<>> /\ Len(r) = Len(s) /\ Last(r) = c /\ r[Len(s)] = c
             /\ \A i \in 1..(Len(s) - 1) : r[i] = s[i]
<1> DEFINE r == Append(Front(s), c)
           q == Front(s)
<1>1. /\ q \in Seq(S) /\ Len(q) = Len(s) - 1 /\ Len(s) \in Nat \ {0}
      /\ \A i \in 1..(Len(s) - 1) : q[i] = s[i]
  BY FrontFacts, TopFacts
<1> HIDE DEF q
<1>2. /\ Append(q, c) \in Seq(S) /\ Append(q, c) # <<>> /\ Len(Append(q, c)) = Len(q) + 1
      /\ \A i \in 1..Len(q) : Append(q, c)[i] = q[i]
      /\ Append(q, c)[Len(q) + 1] = c
  BY <1>1, AppendProperties
<1>3. Len(q) + 1 = Len(s)
  BY <1>1
<1> QED
  BY <1>1, <1>2, <1>3 DEF q, Last

(* It calls. *)
LEMMA Pushed ==
  ASSUME NEW S, NEW s \in Seq(S), s # <<>>, NEW c \in S, NEW d \in S
  PROVE  LET r == Append(Append(Front(s), c), d)
         IN  /\ r \in Seq(S) /\ r # <<>> /\ Len(r) = Len(s) + 1 /\ Last(r) = d
             /\ r[Len(s)] = c /\ r[Len(s) + 1] = d
             /\ \A i \in 1..(Len(s) - 1) : r[i] = s[i]
<1> DEFINE q == Append(Front(s), c)
<1>1. /\ q \in Seq(S) /\ Len(q) = Len(s) /\ q[Len(s)] = c
      /\ \A i \in 1..(Len(s) - 1) : q[i] = s[i]
  BY Replaced
<1>2. Len(s) \in Nat \ {0}
  BY TopFacts
<1> HIDE DEF q
<1>3. /\ Append(q, d) \in Seq(S) /\ Append(q, d) # <<>> /\ Len(Append(q, d)) = Len(q) + 1
      /\ \A i \in 1..Len(q) : Append(q, d)[i] = q[i]
      /\ Append(q, d)[Len(q) + 1] = d
  BY <1>1, AppendProperties
<1>4. \A i \in 1..(Len(s) - 1) : i \in 1..Len(q)
  BY <1>1, <1>2
<1>5. Len(s) \in 1..Len(q)
  BY <1>1, <1>2
<1> QED
  BY <1>1, <1>2, <1>3, <1>4, <1>5 DEF q, Last


-----------------------------------------------------------------------------
(* Types, whatever the processes do to one another. *)

Types ==
  /\ installed_json \in (SUBSET Package) \cup {Torn}
  /\ installed \in [Package -> {"absent", "complete"} \cup Process]
  /\ calls \in [Process -> Seq(Calls)]
  /\ \A self \in Process : Waiting(calls[self])
  /\ commands \in 0..MaxCommands /\ faults \in 0..MaxFaults
  /\ interrupted \subseteq Package /\ forgotten \subseteq Package
CallsTyped ==
  /\ calls \in [Process -> Seq(Calls)]
  /\ \A self \in Process : Waiting(calls[self])

LEMMA TopTyped ==
  ASSUME Types, NEW self \in Process, calls[self] # <<>>
  PROVE  /\ calls[self] \in Seq(Calls)
         /\ Top(self) \in Calls /\ Top(self) \in Frames /\ Fits(Top(self))
<1>1. calls[self] \in Seq(Calls)
  BY DEF Types
<1>2. Last(calls[self]) \in Calls
  BY <1>1, TopFacts
<1> QED
  BY <1>1, <1>2 DEF Top, Calls

LEMMA RegisteredType ==
  ASSUME Types PROVE Registered \subseteq Package
BY DEF Types, Registered

LEMMA StepTyped ==
  ASSUME NEW c \in Frames, NEW step \in Steps, Fits([c EXCEPT !.step = step])
  PROVE  [c EXCEPT !.step = step] \in Calls
BY DEF Frames, Calls

LEMMA BecomesTyped ==
  ASSUME Types, NEW self \in Process, calls[self] # <<>>, NEW c \in Calls, Becomes(self, c)
  PROVE  CallsTyped'
<1> DEFINE s == calls[self]
           r == Append(Front(s), c)
<1>1. s \in Seq(Calls) /\ calls' = [calls EXCEPT ![self] = r] /\ calls \in [Process -> Seq(Calls)]
  BY DEF Types, Becomes
<1>2. r \in Seq(Calls) /\ Len(r) = Len(s) /\ \A i \in 1..(Len(s) - 1) : r[i] = s[i]
  BY <1>1, Replaced
<1>3. Waiting(s)
  BY DEF Types
<1>4. Waiting(r)
  BY <1>2, <1>3 DEF Waiting
<1> HIDE DEF r, s
<1>5. \A q \in Process : calls'[q] = IF q = self THEN r ELSE calls[q]
  BY <1>1
<1> QED
  BY <1>1, <1>2, <1>4, <1>5 DEF CallsTyped, Types

LEMMA PushTyped ==
  ASSUME Types, NEW self \in Process, calls[self] # <<>>,
         NEW c \in Calls, NEW d \in Calls, Push(self, c, d), Waits(c)
  PROVE  CallsTyped'
<1> DEFINE s == calls[self]
           r == Append(Append(Front(s), c), d)
<1>1. s \in Seq(Calls) /\ s # <<>> /\ calls' = [calls EXCEPT ![self] = r] /\ calls \in [Process -> Seq(Calls)]
  BY DEF Types, Push
<1>2. Waiting(s)
  BY DEF Types
<1> HIDE DEF s
<1>3. Len(s) \in Nat
  BY <1>1, TopFacts
<1>4. /\ r \in Seq(Calls) /\ Len(r) = Len(s) + 1 /\ r[Len(s)] = c
      /\ \A i \in 1..(Len(s) - 1) : r[i] = s[i]
  BY <1>1, Pushed
<1> HIDE DEF r
<1>5. \A i \in 1..(Len(r) - 1) : i = Len(s) \/ i \in 1..(Len(s) - 1)
  BY <1>4, <1>3
<1>6. Waiting(r)
  BY <1>4, <1>2, <1>5 DEF Waiting
<1>7. \A q \in Process : calls'[q] = IF q = self THEN r ELSE calls[q]
  BY <1>1 DEF s
<1> QED
  BY <1>1, <1>4, <1>6, <1>7 DEF CallsTyped, Types

LEMMA EndTyped ==
  ASSUME Types, NEW self \in Process, NEW s \in Seq(Calls), Waiting(s),
         calls' = [calls EXCEPT ![self] = s]
  PROVE  CallsTyped'
<1>1. \A q \in Process : calls'[q] = IF q = self THEN s ELSE calls[q]
  BY DEF Types
<1> QED
  BY <1>1 DEF CallsTyped, Types

LEMMA GotoTyped ==
  ASSUME Types, NEW self \in Process, calls[self] # <<>>, NEW step \in Steps,
         Goto(self, step), Fits([Top(self) EXCEPT !.step = step])
  PROVE  CallsTyped'
<1>1. [Top(self) EXCEPT !.step = step] \in Calls
  BY TopTyped, StepTyped
<1> QED
  BY <1>1, BecomesTyped DEF Goto

(* Calls are made of others. *)
LEMMA CallTyped ==
  ASSUME NEW op \in {"install", "uninstall", "build"}, NEW p \in Package,
         NEW force \in BOOLEAN, NEW as_is \in BOOLEAN, as_is => op = "install",
         NEW registry \in SUBSET Package
  PROVE  Call(op, p, force, as_is, registry) \in Calls
BY EmptySeq DEF Call, Calls, Frames, Fits, Steps, Changing

LEMMA LeftTyped ==
  ASSUME NEW c \in Calls, c.left # <<>>
  PROVE  Head(c.left) \in Package /\ Tail(c.left) \in Seq(Package)
BY HeadTailProperties DEF Calls, Frames

LEMMA DependenciesTyped ==
  ASSUME NEW c \in Calls, NEW step \in {"dependencies", "build"},
         c.operation = "install" \/ (c.operation = "build" /\ step = "build"),
         NEW left \in Seq(Package)
  PROVE  [c EXCEPT !.step = step, !.left = left] \in Calls
BY DEF Calls, Frames, Fits, Steps, Changing

LEMMA AdvancedTyped ==
  ASSUME NEW c \in Calls, c.left # <<>>, NEW attempts \in Nat, NEW registry \in SUBSET Package
  PROVE  /\ [c EXCEPT !.left = Tail(@)] \in Calls
         /\ [c EXCEPT !.left = Tail(@), !.attempts = attempts] \in Calls
         /\ [c EXCEPT !.registry_ = registry, !.left = Tail(@)] \in Calls
         /\ [c EXCEPT !.registry_ = registry, !.left = Tail(@),
                      !.skipped = @ \cup {Head(c.left)}] \in Calls
BY LeftTyped DEF Calls, Frames, Fits

LEMMA StartTyped ==
  ASSUME Types, NEW self \in Process, Start(self)
  PROVE  Types'
<1>1. PICK p \in Package, force \in BOOLEAN, as_is \in BOOLEAN,
           op \in {"install", "uninstall", "build"} :
        /\ op # "install" => ~as_is
        /\ calls' = [calls EXCEPT ![self] = <<Call(op, p, force, as_is, Registered)>>]
  BY DEF Start
<1> DEFINE c == Call(op, p, force, as_is, Registered)
<1>2. c \in Calls
  BY <1>1, CallTyped, RegisteredType
<1> HIDE DEF c
<1>3. <<c>> \in Seq(Calls) /\ Len(<<c>>) = 1
  BY <1>2
<1>4. Waiting(<<c>>)
  BY <1>3 DEF Waiting
<1>5. CallsTyped'
  BY <1>1, <1>3, <1>4, EndTyped DEF c
<1> QED
  BY <1>5, BoundsAssumption DEF Start, Types, CallsTyped

LEMMA CheckTyped ==
  ASSUME Types, NEW self \in Process, Check(self)
  PROVE  Types'
<1> SUFFICES CallsTyped'
  BY DEF Check, Types, CallsTyped
<1> DEFINE c == Top(self)
<1>1. calls[self] # <<>> /\ c \in Calls /\ c \in Frames /\ Fits(c)
  BY TopTyped DEF Check, At
<1>2. CASE Goto(self, "failed")
  BY <1>1, <1>2, GotoTyped DEF Steps, Fits, Changing, Frames
<1>3. CASE (c.operation = "uninstall" \/ c.as_is) /\ Goto(self, "clear")
  BY <1>1, <1>3, GotoTyped DEF Steps, Fits, Changing, Frames
<1>4. CASE /\ Installing(self)
           /\ Becomes(self, [c EXCEPT !.step = "dependencies",
                                      !.left = PathDependencies[c.package]])
  <2>1. PathDependencies[c.package] \in Seq(Package)
    BY <1>1, DependenciesAssumption DEF Frames
  <2> QED
    BY <1>1, <1>4, <2>1, DependenciesTyped, BecomesTyped DEF Installing
<1>5. CASE /\ c.operation = "build"
           /\ Becomes(self, [c EXCEPT !.step = "build", !.left = NamedDependencies[c.package]])
  <2>1. NamedDependencies[c.package] \in Seq(Package)
    BY <1>1, DependenciesAssumption DEF Frames
  <2> QED
    BY <1>1, <1>5, <2>1, DependenciesTyped, BecomesTyped
<1> QED
  BY <1>2, <1>3, <1>4, <1>5 DEF Check

LEMMA InstallDependencyTyped ==
  ASSUME Types, NEW self \in Process, InstallDependency(self)
  PROVE  Types'
<1> SUFFICES CallsTyped'
  BY DEF InstallDependency, Types, CallsTyped
<1> DEFINE c == Top(self)
<1>1. /\ calls[self] # <<>> /\ c \in Calls /\ c \in Frames /\ Fits(c)
      /\ c.step = "dependencies" /\ c.operation = "install"
  BY TopTyped DEF InstallDependency, At, Fits
<1>2. CASE Becomes(self, [c EXCEPT !.step = "build", !.left = NamedDependencies[c.package]])
  <2>1. NamedDependencies[c.package] \in Seq(Package)
    BY <1>1, DependenciesAssumption DEF Frames
  <2> QED
    BY <1>1, <1>2, <2>1, DependenciesTyped, BecomesTyped
<1>3. CASE c.left # <<>> /\ Becomes(self, [c EXCEPT !.left = Tail(@)])
  <2>1. [c EXCEPT !.left = Tail(@)] \in Calls
    BY <1>1, <1>3, AdvancedTyped
  <2> QED
    BY <1>1, <1>3, <2>1, BecomesTyped
<1>4. CASE /\ c.left # <<>>
           /\ Push(self, c, Call("install", Head(c.left), FALSE, FALSE, c.registry_))
  <2>1. Call("install", Head(c.left), FALSE, FALSE, c.registry_) \in Calls
    BY <1>1, <1>4, LeftTyped, CallTyped DEF Frames
  <2>2. Waits(c)
    BY <1>1, <1>4 DEF Waits
  <2> QED
    BY <1>1, <1>4, <2>1, <2>2, PushTyped
<1> QED
  BY <1>2, <1>3, <1>4 DEF InstallDependency

LEMMA FindLibraryTyped ==
  ASSUME Types, NEW self \in Process, FindLibrary(self)
  PROVE  Types'
<1> SUFFICES CallsTyped'
  BY DEF FindLibrary, Types, CallsTyped
<1> DEFINE c == Top(self)
<1>1. /\ calls[self] # <<>> /\ c \in Calls /\ c \in Frames /\ Fits(c)
      /\ c.step = "build" /\ c.left # <<>>
  BY TopTyped DEF FindLibrary, At
<1>2. CASE Becomes(self, [c EXCEPT !.left = Tail(@), !.attempts = 0])
  BY <1>1, <1>2, AdvancedTyped, BecomesTyped
<1>3. CASE Push(self, [c EXCEPT !.attempts = @ + 1],
                      Call("install", Head(c.left), TRUE, FALSE, Registered))
  <2>1. [c EXCEPT !.attempts = @ + 1] \in Calls /\ Waits([c EXCEPT !.attempts = @ + 1])
    BY <1>1 DEF Calls, Frames, Fits, Waits
  <2>2. Call("install", Head(c.left), TRUE, FALSE, Registered) \in Calls
    BY <1>1, LeftTyped, CallTyped, RegisteredType
  <2> QED
    BY <1>1, <1>3, <2>1, <2>2, PushTyped
<1>4. CASE Goto(self, IF Resolved(c) THEN "clear" ELSE "failed")
  BY <1>1, <1>4, GotoTyped DEF Steps, Fits, Changing, Frames, Resolved
<1> QED
  BY <1>2, <1>3, <1>4 DEF FindLibrary

LEMMA BuildTyped ==
  ASSUME Types, NEW self \in Process, Build(self)
  PROVE  Types'
<1> SUFFICES CallsTyped'
  BY DEF Build, Types, CallsTyped
<1>1. /\ calls[self] # <<>> /\ Top(self) \in Frames /\ Fits(Top(self))
      /\ Top(self).step = "build"
  BY TopTyped DEF Build, At
<1>2. CASE Goto(self, IF Installing(self) THEN "clear" ELSE "returned")
  BY <1>1, <1>2, GotoTyped DEF Steps, Fits, Changing, Frames, Installing
<1>3. CASE Goto(self, "failed")
  BY <1>1, <1>3, GotoTyped DEF Steps, Fits, Changing, Frames
<1> QED
  BY <1>2, <1>3 DEF Build

LEMMA ClearTyped ==
  ASSUME Types, NEW self \in Process, Clear(self)
  PROVE  Types'
<1>1. /\ calls[self] # <<>> /\ Top(self) \in Frames /\ Fits(Top(self))
      /\ Top(self).step = "clear" /\ Goto(self, "stage")
  BY TopTyped DEF Clear, At
<1>2. CallsTyped'
  BY <1>1, GotoTyped DEF Steps, Fits, Changing, Frames
<1>3. installed' \in [Package -> {"absent", "complete"} \cup Process]
  BY <1>1 DEF Clear, Types, Frames
<1> QED
  BY <1>2, <1>3 DEF Clear, Types, CallsTyped

LEMMA StageTyped ==
  ASSUME Types, NEW self \in Process, Stage(self)
  PROVE  Types'
<1>1. /\ calls[self] # <<>> /\ Top(self) \in Frames /\ Fits(Top(self))
      /\ Top(self).step = "stage" /\ Goto(self, "truncate")
  BY TopTyped DEF Stage, At
<1>2. CallsTyped'
  BY <1>1, GotoTyped DEF Steps, Fits, Changing, Frames
<1>3. installed' \in [Package -> {"absent", "complete"} \cup Process]
  BY <1>1 DEF Stage, Types, Frames
<1> QED
  BY <1>2, <1>3 DEF Stage, Types, CallsTyped

LEMMA TruncateTyped ==
  ASSUME Types, NEW self \in Process, Truncate(self)
  PROVE  Types'
<1> DEFINE c == Top(self)
           d == [c EXCEPT !.registry_ = Changed(c), !.step = "write"]
<1>1. /\ calls[self] # <<>> /\ c \in Frames /\ Fits(c) /\ c.step = "truncate"
      /\ Becomes(self, d)
  BY TopTyped DEF Truncate, At
<1>2. Changed(c) \in SUBSET Package
  BY <1>1 DEF Changed, Frames
<1>3. d \in Calls
  BY <1>1, <1>2 DEF Calls, Frames, Fits, Steps, Changing
<1>4. CallsTyped'
  BY <1>1, <1>3, BecomesTyped
<1> QED
  BY <1>4 DEF Truncate, Types, CallsTyped

LEMMA WriteTyped ==
  ASSUME Types, NEW self \in Process, Write(self)
  PROVE  Types'
<1>1. /\ calls[self] # <<>> /\ Top(self) \in Frames /\ Fits(Top(self))
      /\ Top(self).step = "write" /\ Goto(self, "returned")
  BY TopTyped DEF Write, At
<1>2. CallsTyped'
  BY <1>1, GotoTyped DEF Steps, Fits, Changing, Frames
<1>3. installed_json' \in SUBSET Package
  BY <1>1 DEF Write, Frames
<1> QED
  BY <1>2, <1>3 DEF Write, Types, CallsTyped

(* The caller, which waits, is given back what it had. *)
LEMMA ResumedTyped ==
  ASSUME NEW c \in Calls, Waits(c), NEW t \in Calls, t.step \in {"returned", "failed", "raised"},
         Registered \subseteq Package
  PROVE  Resumed(c, t) \in Calls
<1>1. t.registry_ \in SUBSET Package
  BY DEF Calls, Frames
<1>2. CASE c.step = "dependencies" /\ t.step = "returned"
  BY <1>2, AdvancedTyped DEF Resumed, Waits
<1>3. CASE c.step = "dependencies" /\ t.step = "failed"
  BY <1>3, StepTyped DEF Resumed, Calls, Frames, Fits, Steps, Changing
<1>4. CASE c.step = "dependencies" /\ t.step = "raised"
  BY <1>1, <1>4, AdvancedTyped DEF Resumed, Waits
<1>5. CASE c.step = "build"
  <2>1. Resumed(c, t) = [c EXCEPT !.step = IF t.step = "raised" /\ c.attempts = 2 THEN "raised" ELSE @]
    BY <1>5 DEF Resumed
  <2> QED
    BY <1>5, <2>1 DEF Calls, Frames, Fits, Steps, Changing
<1> QED
  BY <1>2, <1>3, <1>4, <1>5 DEF Waits

LEMMA ReturnTyped ==
  ASSUME Types, NEW self \in Process, Return(self)
  PROVE  Types'
<1> DEFINE s == calls[self]
           q == Front(s)
           c == Resumed(Last(q), Top(self))
           r == Append(Front(q), c)
<1>1. /\ s # <<>> /\ calls' = [calls EXCEPT ![self] = IF q = <<>> THEN <<>> ELSE r]
      /\ Top(self) \in Calls /\ Top(self).step \in {"returned", "failed", "raised"}
  BY TopTyped DEF Return, At
<1>2. s \in Seq(Calls) /\ Waiting(s)
  BY DEF Types
<1> HIDE DEF s
<1>3. /\ q \in Seq(Calls) /\ Len(q) = Len(s) - 1 /\ Len(s) \in Nat
      /\ \A i \in 1..(Len(s) - 1) : q[i] = s[i]
  BY <1>1, <1>2, FrontFacts, TopFacts
<1>4. CASE q = <<>>
  <2>1. <<>> \in Seq(Calls) /\ Waiting(<<>>) /\ calls' = [calls EXCEPT ![self] = <<>>]
    BY <1>1, <1>4 DEF Waiting
  <2>2. CallsTyped'
    BY <2>1, EndTyped
  <2> QED
    BY <2>2 DEF Return, Types, CallsTyped
<1>5. CASE q # <<>>
  <2>1. Len(q) \in Nat \ {0} /\ Last(q) = q[Len(q)] /\ Last(q) \in Calls
    BY <1>3, <1>5, TopFacts
  <2>2. Waits(Last(q))
    BY <1>2, <1>3, <2>1 DEF Waiting
  <2>3. c \in Calls
    BY <1>1, <2>1, <2>2, ResumedTyped, RegisteredType
  <2> HIDE DEF c
  <2>4. /\ r \in Seq(Calls) /\ Len(r) = Len(q)
        /\ \A i \in 1..(Len(q) - 1) : r[i] = q[i]
    BY <1>3, <1>5, <2>3, Replaced
  <2> HIDE DEF r, q
  <2>5. Waiting(r)
    <3>1. \A i \in 1..(Len(r) - 1) : i \in 1..(Len(q) - 1) /\ i \in 1..(Len(s) - 1)
      BY <1>3, <2>1, <2>4
    <3> QED
      BY <1>2, <1>3, <2>4, <3>1 DEF Waiting
  <2>6. CallsTyped'
    BY <1>1, <1>5, <2>4, <2>5, EndTyped
  <2> QED
    BY <2>6 DEF Return, Types, CallsTyped
<1> QED
  BY <1>4, <1>5

LEMMA CutShortTyped ==
  ASSUME Types, NEW self \in Process, calls[self] # <<>>, CutShort(self)
  PROVE  /\ faults' \in 0..MaxFaults
         /\ interrupted' \subseteq Package /\ forgotten' \subseteq Package
<1>1. Top(self).package \in Package /\ Top(self).registry_ \subseteq Package
  BY TopTyped DEF Frames
<1> QED
  BY <1>1, BoundsAssumption DEF CutShort, Types

LEMMA RaiseTyped ==
  ASSUME Types, NEW self \in Process, Raise(self)
  PROVE  Types'
<1> DEFINE c == Top(self)
<1>1. calls[self] # <<>> /\ c \in Calls /\ c \in Frames /\ Fits(c) /\ CutShort(self)
  BY TopTyped DEF Raise
<1>2. PICK registry \in {c.registry_, c.registry_ \cup {c.package}} :
        Becomes(self, [c EXCEPT !.registry_ = registry, !.step = "raised"])
  BY DEF Raise
<1>3. registry \in SUBSET Package
  BY <1>1 DEF Frames
<1>4. [c EXCEPT !.registry_ = registry, !.step = "raised"] \in Calls
  BY <1>1, <1>3 DEF Calls, Frames, Fits, Steps, Changing
<1>5. CallsTyped'
  BY <1>1, <1>2, <1>4, BecomesTyped
<1> QED
  BY <1>1, <1>5, CutShortTyped DEF CutShort, Types, CallsTyped

LEMMA CrashTyped ==
  ASSUME Types, NEW self \in Process, Crash(self)
  PROVE  Types'
<1>1. <<>> \in Seq(Calls) /\ Waiting(<<>>) /\ calls' = [calls EXCEPT ![self] = <<>>]
  BY DEF Waiting, Crash
<1>2. CallsTyped'
  BY <1>1, EndTyped
<1> QED
  BY <1>2, CutShortTyped DEF Crash, CutShort, Types, CallsTyped

LEMMA InitTypes == Init => Types
<1> SUFFICES ASSUME Init PROVE Types
  OBVIOUS
<1>1. <<>> \in Seq(Calls) /\ Waiting(<<>>)
  BY DEF Waiting
<1> QED
  BY <1>1, BoundsAssumption DEF Init, Types

LEMMA NextTypes == Types /\ [Next]_vars => Types'
<1> SUFFICES ASSUME Types, [Next]_vars PROVE Types'
  OBVIOUS
<1>1. CASE UNCHANGED vars
  BY <1>1 DEF vars, Types
<1>2. ASSUME NEW self \in Process, Start(self) \/ Work(self) \/ Raise(self) \/ Crash(self)
      PROVE  Types'
  BY <1>2, StartTyped, CheckTyped, InstallDependencyTyped, FindLibraryTyped, BuildTyped,
     ClearTyped, StageTyped, TruncateTyped, WriteTyped, ReturnTyped, RaiseTyped,
     CrashTyped DEF Work
<1> QED
  BY <1>1, <1>2 DEF Next

(* However many processes run at once, calls nest as the code has them: only a
   call that installs dependencies or builds has another on top, and a command
   that only builds never changes a directory. *)
THEOREM TypeCorrect == Spec => []TypeOK
<1>1. ASSUME Types PROVE TypeOK
  <2>1. ASSUME NEW self \in Process, NEW i \in DOMAIN calls[self]
        PROVE  LET c == calls[self][i]
               IN  /\ c.package \in Package /\ c.registry_ \cup c.skipped \subseteq Package
                   /\ i < Len(calls[self]) => c.step \in {"dependencies", "build"}
                   /\ c.step \in {"clear", "stage", "truncate", "write"} => c.operation # "build"
    <3>1. calls[self] \in Seq(Calls) /\ Waiting(calls[self])
      BY <1>1 DEF Types
    <3>2. Len(calls[self]) \in Nat /\ i \in 1..Len(calls[self]) /\ calls[self][i] \in Calls
      BY <3>1, LenProperties
    <3>3. i < Len(calls[self]) => i \in 1..(Len(calls[self]) - 1)
      BY <3>2
    <3> QED
      BY <3>1, <3>2, <3>3 DEF Waiting, Waits, Calls, Frames, Fits, Changing
  <2> QED
    BY <1>1, <2>1 DEF Types, TypeOK
<1> QED
  BY <1>1, InitTypes, NextTypes, PTL DEF Spec

-----------------------------------------------------------------------------
(* One process.  The packages that are there: whole, or left by a change that was
   cut short, or in the hands of the command that runs. *)
InHand == {Top(self).package : self \in {q \in Process : At(q, "stage") \/ At(q, "truncate")}}
Have == {p \in Package : installed[p] = "complete"} \cup (interrupted \cup InHand)

(* What a call knows to be there: all it takes for registered, and of what it
   was to install or find, all but what is left. *)
Paths(c) == ToSet(PathDependencies[c.package])
Wanted(c) == Paths(c) \ c.skipped
Named(c) == ToSet(NamedDependencies[c.package])
FrameOK(c, have) ==
  /\ c.registry_ \subseteq have
  /\ c.step = "dependencies" => Wanted(c) \subseteq c.registry_ \cup ToSet(c.left)
  /\ c.step = "build" => Named(c) \subseteq have \cup ToSet(c.left)
  /\ c.step = "build" /\ c.operation = "install" => Wanted(c) \subseteq c.registry_
  /\ c.step \in Changing \cup {"returned"} /\ c.operation = "install" /\ ~c.as_is =>
       /\ Wanted(c) \subseteq c.registry_
       /\ c.package \notin Unbuilt => Named(c) \subseteq have
FramesOK(s, have) == \A i \in 1..Len(s) : FrameOK(s[i], have)

(* A call, and the one on top of it, which knows all it knew of what is
   registered. *)
Link(c, d) ==
  /\ d.operation = "install"
  /\ c.step = "dependencies" => c.registry_ \subseteq d.registry_ /\ d.package = Head(c.left)
Linked(s) == \A i \in 1..(Len(s) - 1) : Link(s[i], s[i + 1])

(* How far the call on top is. *)
Progress(self) ==
  LET c == Top(self)
  IN  /\ c.step = "stage" => installed[c.package] = self
      /\ c.step \in {"truncate", "write"} =>
           installed[c.package] = IF c.operation = "install" THEN "complete" ELSE "absent"
      /\ c.step = "write" =>
           /\ installed_json = Torn
           /\ c.package \in c.registry_ <=> c.operation = "install"
      /\ c.step = "returned" /\ c.operation # "build" =>
           /\ installed_json = c.registry_
           /\ c.operation = "install" => c.package \in c.registry_

IInv(self) ==
  /\ Types
  /\ Registered \subseteq Have
  /\ FramesOK(calls[self], Have) /\ Linked(calls[self])
  /\ calls[self] # <<>> => Progress(self)

LEMMA FramesReplaced ==
  ASSUME NEW s \in Seq(Calls), s # <<>>, NEW c \in Calls, NEW have, NEW more,
         FramesOK(s, have), Linked(s), have \subseteq more, FrameOK(c, more),
         c.operation = Last(s).operation,
         c.operation = "install" =>
           c.package = Last(s).package /\ Last(s).registry_ \subseteq c.registry_
  PROVE  FramesOK(Append(Front(s), c), more) /\ Linked(Append(Front(s), c))
<1> DEFINE r == Append(Front(s), c)
           n == Len(s)
<1>1. /\ Len(r) = n /\ r[n] = c /\ \A i \in 1..(n - 1) : r[i] = s[i]
      /\ n \in Nat \ {0} /\ Last(s) = s[n]
  BY Replaced, TopFacts
<1>2. \A i \in 1..n : FrameOK(s[i], more)
  BY DEF FramesOK, FrameOK
<1> HIDE DEF r, n
<1>3. \A i \in 1..n : i = n \/ (i \in 1..(n - 1) /\ i \in 1..n)
  BY <1>1
<1>4. \A i \in 1..n : FrameOK(r[i], more)
  BY <1>1, <1>2, <1>3
<1>5. ASSUME NEW i \in 1..(n - 1) PROVE Link(r[i], r[i + 1])
  <2>1. Link(s[i], s[i + 1])
    BY <1>5 DEF Linked, n
  <2>2. CASE i + 1 = n
    BY <1>1, <2>1, <2>2 DEF Link
  <2>3. CASE i + 1 # n
    <3>1. i + 1 \in 1..(n - 1)
      BY <1>1, <2>3
    <3> QED
      BY <1>1, <2>1, <3>1
  <2> QED
    BY <2>2, <2>3
<1> QED
  BY <1>1, <1>4, <1>5 DEF FramesOK, Linked, r

LEMMA FramesPushed ==
  ASSUME NEW s \in Seq(Calls), s # <<>>, NEW c \in Calls, NEW d \in Calls, NEW have,
         FramesOK(s, have), Linked(s), FrameOK(c, have), FrameOK(d, have),
         c.operation = Last(s).operation, c.package = Last(s).package,
         c.registry_ = Last(s).registry_, Link(c, d)
  PROVE  /\ FramesOK(Append(Append(Front(s), c), d), have)
         /\ Linked(Append(Append(Front(s), c), d))
<1> DEFINE q == Append(Front(s), c)
           r == Append(q, d)
           n == Len(s)
<1>1. FramesOK(q, have) /\ Linked(q)
  BY FramesReplaced
<1>2. /\ Len(r) = n + 1 /\ r[n] = c /\ r[n + 1] = d /\ \A i \in 1..(n - 1) : r[i] = s[i]
      /\ n \in Nat \ {0}
  BY Pushed, TopFacts
<1>3. Len(q) = n /\ q[n] = c /\ \A i \in 1..(n - 1) : q[i] = s[i]
  BY Replaced
<1> HIDE DEF r, n, q
<1>4. \A i \in 1..n : r[i] = q[i] /\ i \in 1..Len(q)
  BY <1>2, <1>3
<1>5. \A i \in 1..(n + 1) : i = n + 1 \/ i \in 1..n
  BY <1>2
<1>6. FramesOK(r, have)
  BY <1>1, <1>2, <1>4, <1>5 DEF FramesOK
<1>7. ASSUME NEW i \in 1..n PROVE Link(r[i], r[i + 1])
  <2>1. CASE i = n
    BY <1>2, <2>1
  <2>2. CASE i # n
    <3>1. i \in 1..(Len(q) - 1) /\ i + 1 \in 1..n
      BY <1>2, <1>3, <2>2
    <3> QED
      BY <1>1, <1>4, <3>1 DEF Linked
  <2> QED
    BY <2>1, <2>2
<1>8. Len(r) - 1 = n
  BY <1>2
<1> QED
  BY <1>6, <1>7, <1>8 DEF Linked, r, q

LEMMA FramesPopped ==
  ASSUME NEW s \in Seq(Calls), s # <<>>, NEW have, FramesOK(s, have), Linked(s)
  PROVE  /\ FramesOK(Front(s), have) /\ Linked(Front(s))
         /\ Front(s) # <<>> =>
              /\ Link(Last(Front(s)), Last(s)) /\ FrameOK(Last(Front(s)), have)
              /\ FrameOK(Last(s), have)
<1> DEFINE q == Front(s)
           n == Len(s)
<1>1. /\ q \in Seq(Calls) /\ Len(q) = n - 1 /\ \A i \in 1..(n - 1) : q[i] = s[i]
      /\ n \in Nat \ {0} /\ Last(s) = s[n] /\ n \in 1..n
  BY FrontFacts, TopFacts
<1>2. \A i \in 1..n : FrameOK(s[i], have)
  BY DEF FramesOK
<1>3. \A i \in 1..(n - 1) : Link(s[i], s[i + 1])
  BY DEF Linked
<1>4. q # <<>> => Len(q) \in 1..(n - 1) /\ Last(q) = q[Len(q)] /\ Len(q) + 1 = n
  BY <1>1, TopFacts
<1> HIDE DEF q, n
<1>5. \A i \in 1..Len(q) : i \in 1..n /\ i \in 1..(n - 1)
  BY <1>1
<1>6. FramesOK(q, have)
  BY <1>1, <1>2, <1>5 DEF FramesOK
<1>7. \A i \in 1..(Len(q) - 1) : i \in 1..(n - 1) /\ i + 1 \in 1..(n - 1)
  BY <1>1
<1>8. Linked(q)
  BY <1>1, <1>3, <1>7 DEF Linked
<1>9. q # <<>> =>
        /\ Link(Last(q), Last(s)) /\ FrameOK(Last(q), have) /\ FrameOK(Last(s), have)
  BY <1>1, <1>2, <1>3, <1>4, <1>5
<1> QED
  BY <1>6, <1>8, <1>9 DEF q

(* With one process, what is in hand is what its call on top has. *)
Hands == {"stage", "truncate"}
LEMMA HandFacts ==
  ASSUME NEW self, Process = {self}
  PROVE  /\ InHand = IF calls[self] # <<>> /\ Top(self).step \in Hands
                     THEN {Top(self).package} ELSE {}
         /\ InHand' = IF calls'[self] # <<>> /\ Top(self)'.step \in Hands
                      THEN {Top(self)'.package} ELSE {}
BY DEF InHand, Hands, At

LEMMA BecomesTop ==
  ASSUME Types, NEW self \in Process, calls[self] # <<>>, NEW c \in Calls, Becomes(self, c)
  PROVE  /\ calls'[self] = Append(Front(calls[self]), c)
         /\ calls'[self] # <<>> /\ Top(self)' = c
<1>1. calls \in [Process -> Seq(Calls)] /\ calls[self] \in Seq(Calls)
  BY DEF Types
<1>2. calls'[self] = Append(Front(calls[self]), c)
  BY <1>1 DEF Becomes
<1>3. Append(Front(calls[self]), c) # <<>> /\ Last(Append(Front(calls[self]), c)) = c
  BY <1>1, Replaced
<1> QED
  BY <1>2, <1>3 DEF Top

LEMMA PushTop ==
  ASSUME Types, NEW self \in Process, calls[self] # <<>>,
         NEW c \in Calls, NEW d \in Calls, Push(self, c, d)
  PROVE  /\ calls'[self] = Append(Append(Front(calls[self]), c), d)
         /\ calls'[self] # <<>> /\ Top(self)' = d
<1>1. calls \in [Process -> Seq(Calls)] /\ calls[self] \in Seq(Calls)
  BY DEF Types
<1>2. calls'[self] = Append(Append(Front(calls[self]), c), d)
  BY <1>1 DEF Push
<1>3. /\ Append(Append(Front(calls[self]), c), d) # <<>>
      /\ Last(Append(Append(Front(calls[self]), c), d)) = d
  BY <1>1, Pushed
<1> QED
  BY <1>2, <1>3 DEF Top

(* Nothing is touched while calls come and go. *)
LEMMA Untouched ==
  ASSUME NEW self, Process = {self}, UNCHANGED <<installed_json, installed, interrupted, forgotten>>,
         InHand = {}, InHand' = {}
  PROVE  Have' = Have /\ Registered' = Registered
BY DEF Have, Registered

(* The call on top changes and touches nothing. *)
Quiet == {"check", "dependencies", "build", "clear", "failed", "raised"}
LEMMA QuietBecomes ==
  ASSUME NEW self, Process = {self}, IInv(self), Types', calls[self] # <<>>,
         UNCHANGED <<installed_json, installed, interrupted, forgotten>>,
         Top(self).step \in Quiet, NEW c \in Calls, Becomes(self, c),
         c.step \in Quiet \/ (c.step = "returned" /\ c.operation = "build"),
         c.operation = Top(self).operation, c.package = Top(self).package,
         c.registry_ = Top(self).registry_, FrameOK(c, Have)
  PROVE  IInv(self)'
<1>1. /\ Types /\ self \in Process /\ calls[self] \in Seq(Calls)
      /\ FramesOK(calls[self], Have) /\ Linked(calls[self])
  BY DEF IInv, Types
<1>2. /\ calls'[self] = Append(Front(calls[self]), c)
      /\ calls'[self] # <<>> /\ Top(self)' = c
  BY <1>1, BecomesTop
<1>3. InHand = {} /\ InHand' = {}
  BY <1>2, HandFacts DEF Hands, Quiet
<1>4. Have' = Have /\ Registered' = Registered
  BY <1>3, Untouched
<1>5. FramesOK(calls'[self], Have) /\ Linked(calls'[self])
  BY <1>1, <1>2, FramesReplaced DEF Top
<1>6. Progress(self)'
  BY <1>2 DEF Progress, Quiet
<1> QED
  BY <1>4, <1>5, <1>6 DEF IInv

LEMMA QuietPush ==
  ASSUME NEW self, Process = {self}, IInv(self), Types', calls[self] # <<>>,
         UNCHANGED <<installed_json, installed, interrupted, forgotten>>,
         Top(self).step \in Quiet, NEW c \in Calls, NEW d \in Calls, Push(self, c, d),
         c.operation = Top(self).operation, c.package = Top(self).package,
         c.registry_ = Top(self).registry_, d.step = "check",
         FrameOK(c, Have), FrameOK(d, Have), Link(c, d)
  PROVE  IInv(self)'
<1>1. /\ Types /\ self \in Process /\ calls[self] \in Seq(Calls)
      /\ FramesOK(calls[self], Have) /\ Linked(calls[self])
  BY DEF IInv, Types
<1>2. /\ calls'[self] = Append(Append(Front(calls[self]), c), d)
      /\ calls'[self] # <<>> /\ Top(self)' = d
  BY <1>1, PushTop
<1>3. InHand = {} /\ InHand' = {}
  BY <1>2, HandFacts DEF Hands, Quiet
<1>4. Have' = Have /\ Registered' = Registered
  BY <1>3, Untouched
<1>5. FramesOK(calls'[self], Have) /\ Linked(calls'[self])
  BY <1>1, <1>2, FramesPushed DEF Top
<1>6. Progress(self)'
  BY <1>2 DEF Progress
<1> QED
  BY <1>4, <1>5, <1>6 DEF IInv

LEMMA TopOK ==
  ASSUME NEW self \in Process, IInv(self), calls[self] # <<>>
  PROVE  /\ calls[self] \in Seq(Calls) /\ Top(self) \in Calls /\ Top(self) \in Frames
         /\ Fits(Top(self)) /\ FrameOK(Top(self), Have) /\ Progress(self)
<1>1. Types /\ FramesOK(calls[self], Have) /\ Progress(self)
  BY DEF IInv
<1>2. calls[self] \in Seq(Calls)
  BY <1>1 DEF Types
<1>3. Len(calls[self]) \in 1..Len(calls[self]) /\ Last(calls[self]) = calls[self][Len(calls[self])]
  BY <1>2, TopFacts
<1> QED
  BY <1>1, <1>2, <1>3, TopTyped DEF FramesOK, Top

(* What is left after the first. *)
LEMMA LeftFacts ==
  ASSUME NEW s \in Seq(Package), s # <<>>
  PROVE  ToSet(s) = {Head(s)} \cup ToSet(Tail(s))
<1> DEFINE n == Len(s)
           r == Tail(s)
<1>1. /\ n \in Nat \ {0} /\ DOMAIN s = 1..n /\ Head(s) = s[1]
      /\ r \in Seq(Package) /\ Len(r) = n - 1 /\ \A i \in 1..(n - 1) : r[i] = s[i + 1]
  BY HeadTailProperties, EmptySeq, LenProperties
<1>2. DOMAIN r = 1..(n - 1)
  BY <1>1, LenProperties
<1> HIDE DEF r, n
<1>3. \A i \in 1..n : i = 1 \/ (i - 1 \in 1..(n - 1) /\ (i - 1) + 1 = i)
  BY <1>1
<1>4. 1 \in 1..n /\ \A i \in 1..(n - 1) : i + 1 \in 1..n
  BY <1>1
<1>5. \A i \in 1..n : s[i] = Head(s) \/ \E j \in 1..(n - 1) : s[i] = r[j]
  BY <1>1, <1>3
<1>6. ToSet(s) = {s[i] : i \in 1..n} /\ ToSet(r) = {r[i] : i \in 1..(n - 1)}
  BY <1>1, <1>2 DEF ToSet
<1>7. ToSet(s) \subseteq {Head(s)} \cup ToSet(r)
  BY <1>5, <1>6
<1>8. {Head(s)} \cup ToSet(r) \subseteq ToSet(s)
  BY <1>1, <1>4, <1>6
<1> QED
  BY <1>7, <1>8 DEF r

LEMMA NoneLeft == ToSet(<<>>) = {}
BY DEF ToSet

-----------------------------------------------------------------------------
(* Each action. *)

LEMMA StartStep ==
  ASSUME NEW self, Process = {self}, IInv(self), Types', Start(self)
  PROVE  IInv(self)'
<1>1. PICK p \in Package, force \in BOOLEAN, as_is \in BOOLEAN,
           op \in {"install", "uninstall", "build"} :
        /\ op # "install" => ~as_is
        /\ calls' = [calls EXCEPT ![self] = <<Call(op, p, force, as_is, Registered)>>]
  BY DEF Start
<1> DEFINE c == Call(op, p, force, as_is, Registered)
<1>2. /\ calls[self] = <<>> /\ calls'[self] = <<c>>
      /\ UNCHANGED <<installed_json, installed, interrupted, forgotten>>
  BY <1>1 DEF Start, IInv, Types
<1>3. c.step = "check" /\ c.registry_ = Registered
  BY DEF Call
<1> HIDE DEF c
<1>4. Len(<<c>>) = 1 /\ <<c>>[1] = c /\ <<c>> # <<>> /\ Last(<<c>>) = c
  BY DEF Last
<1>5. InHand = {} /\ InHand' = {}
  BY <1>2, <1>3, <1>4, HandFacts DEF Hands, Top
<1>6. Have' = Have /\ Registered' = Registered
  BY <1>2, <1>5, Untouched
<1>7. FrameOK(c, Have)
  BY <1>3 DEF FrameOK, IInv, Changing
<1>8. FramesOK(<<c>>, Have) /\ Linked(<<c>>)
  BY <1>4, <1>7 DEF FramesOK, Linked
<1>9. Progress(self)'
  BY <1>2, <1>3, <1>4 DEF Progress, Top
<1> QED
  BY <1>2, <1>6, <1>8, <1>9 DEF IInv

LEMMA CheckStep ==
  ASSUME NEW self, Process = {self}, IInv(self), Types', Check(self)
  PROVE  IInv(self)'
<1> DEFINE c == Top(self)
<1>1. /\ calls[self] # <<>> /\ c.step = "check"
      /\ UNCHANGED <<installed_json, installed, interrupted, forgotten>>
  BY DEF Check, At
<1>2. c \in Calls /\ c \in Frames /\ Fits(c) /\ FrameOK(c, Have)
  BY <1>1, TopOK
<1>3. ASSUME NEW step \in {"failed", "clear"}, Goto(self, step),
             step = "clear" => c.operation = "uninstall" \/ c.as_is
      PROVE  IInv(self)'
  <2> DEFINE d == [c EXCEPT !.step = step]
  <2>1. d \in Calls
    BY <1>2, <1>3, StepTyped DEF Steps, Changing, Fits, Frames
  <2>2. /\ d.step = step /\ d.operation = c.operation /\ d.package = c.package
        /\ d.registry_ = c.registry_ /\ d.skipped = c.skipped /\ d.as_is = c.as_is
    BY <1>2 DEF Frames
  <2>3. Becomes(self, d)
    BY <1>3 DEF Goto
  <2> HIDE DEF d
  <2>4. FrameOK(d, Have)
    BY <1>2, <1>3, <2>2 DEF FrameOK, Changing
  <2> QED
    BY <1>1, <1>3, <2>1, <2>2, <2>3, <2>4, QuietBecomes DEF Quiet
<1>4. ASSUME NEW step \in {"dependencies", "build"}, NEW left \in Seq(Package),
             Becomes(self, [c EXCEPT !.step = step, !.left = left]),
             \/ step = "dependencies" /\ c.operation = "install" /\ left = PathDependencies[c.package]
             \/ step = "build" /\ c.operation = "build" /\ left = NamedDependencies[c.package]
      PROVE  IInv(self)'
  <2> DEFINE d == [c EXCEPT !.step = step, !.left = left]
  <2>1. d \in Calls
    BY <1>2, <1>4, DependenciesTyped
  <2>2. /\ d.step = step /\ d.operation = c.operation /\ d.package = c.package
        /\ d.registry_ = c.registry_ /\ d.skipped = c.skipped /\ d.left = left
    BY <1>2 DEF Frames
  <2>3. Becomes(self, d)
    BY <1>4
  <2> HIDE DEF d
  <2>4. FrameOK(d, Have)
    BY <1>2, <1>4, <2>2 DEF FrameOK, Changing, Wanted, Paths, Named
  <2> QED
    BY <1>1, <1>4, <2>1, <2>2, <2>3, <2>4, QuietBecomes DEF Quiet
<1>5. c.package \in Package
  BY <1>2 DEF Frames
<1> QED
  BY <1>3, <1>4, <1>5, DependenciesAssumption DEF Check, Installing

LEMMA InstallDependencyStep ==
  ASSUME NEW self, Process = {self}, IInv(self), Types', InstallDependency(self)
  PROVE  IInv(self)'
<1> DEFINE c == Top(self)
<1>1. /\ calls[self] # <<>> /\ c.step = "dependencies"
      /\ UNCHANGED <<installed_json, installed, interrupted, forgotten>>
  BY DEF InstallDependency, At
<1>2. c \in Calls /\ c \in Frames /\ Fits(c) /\ FrameOK(c, Have) /\ c.operation = "install"
  BY <1>1, TopOK DEF Fits
<1>3. CASE /\ c.left = <<>>
           /\ Becomes(self, [c EXCEPT !.step = "build", !.left = NamedDependencies[c.package]])
  <2> DEFINE d == [c EXCEPT !.step = "build", !.left = NamedDependencies[c.package]]
  <2>1. d \in Calls
    <3>1. NamedDependencies[c.package] \in Seq(Package)
      BY <1>2, DependenciesAssumption DEF Frames
    <3> QED
      BY <1>2, <3>1, DependenciesTyped
  <2>2. /\ d.step = "build" /\ d.operation = c.operation /\ d.package = c.package
        /\ d.registry_ = c.registry_ /\ d.skipped = c.skipped /\ d.left = NamedDependencies[c.package]
    BY <1>2 DEF Frames
  <2>3. Becomes(self, d)
    BY <1>3
  <2> HIDE DEF d
  <2>4. FrameOK(d, Have)
    BY <1>1, <1>2, <1>3, <2>2, NoneLeft DEF FrameOK, Changing, Wanted, Paths, Named
  <2> QED
    BY <1>1, <2>1, <2>2, <2>3, <2>4, QuietBecomes DEF Quiet
<1>4. CASE /\ c.left # <<>> /\ Head(c.left) \in c.registry_
           /\ Becomes(self, [c EXCEPT !.left = Tail(@)])
  <2> DEFINE d == [c EXCEPT !.left = Tail(@)]
  <2>1. d \in Calls
    BY <1>2, <1>4, AdvancedTyped
  <2>2. /\ d.step = c.step /\ d.operation = c.operation /\ d.package = c.package
        /\ d.registry_ = c.registry_ /\ d.skipped = c.skipped /\ d.left = Tail(c.left)
    BY <1>2 DEF Frames
  <2>3. Becomes(self, d)
    BY <1>4
  <2>4. ToSet(c.left) = {Head(c.left)} \cup ToSet(Tail(c.left))
    BY <1>2, <1>4, LeftFacts DEF Frames
  <2> HIDE DEF d
  <2>5. FrameOK(d, Have)
    BY <1>1, <1>2, <1>4, <2>2, <2>4 DEF FrameOK, Changing, Wanted, Paths, Named
  <2> QED
    BY <1>1, <2>1, <2>2, <2>3, <2>5, QuietBecomes DEF Quiet
<1>5. CASE /\ c.left # <<>>
           /\ Push(self, c, Call("install", Head(c.left), FALSE, FALSE, c.registry_))
  <2> DEFINE d == Call("install", Head(c.left), FALSE, FALSE, c.registry_)
  <2>1. d \in Calls
    BY <1>2, <1>5, LeftTyped, CallTyped DEF Frames
  <2>2. /\ d.step = "check" /\ d.operation = "install" /\ d.package = Head(c.left)
        /\ d.registry_ = c.registry_
    BY DEF Call
  <2>3. Push(self, c, d)
    BY <1>5
  <2> HIDE DEF d
  <2>4. FrameOK(d, Have) /\ Link(c, d)
    BY <1>1, <1>2, <2>2 DEF FrameOK, Link, Changing
  <2> QED
    BY <1>1, <1>2, <2>1, <2>2, <2>3, <2>4, QuietPush DEF Quiet
<1> QED
  BY <1>3, <1>4, <1>5 DEF InstallDependency

LEMMA FindLibraryStep ==
  ASSUME NEW self, Process = {self}, IInv(self), Types', FindLibrary(self)
  PROVE  IInv(self)'
<1> DEFINE c == Top(self)
<1>1. /\ calls[self] # <<>> /\ c.step = "build" /\ c.left # <<>>
      /\ UNCHANGED <<installed_json, installed, interrupted, forgotten>>
  BY DEF FindLibrary, At
<1>2. c \in Calls /\ c \in Frames /\ Fits(c) /\ FrameOK(c, Have)
  BY <1>1, TopOK
<1>3. CASE /\ Head(c.left) \in Registered
           /\ Becomes(self, [c EXCEPT !.left = Tail(@), !.attempts = 0])
  <2> DEFINE d == [c EXCEPT !.left = Tail(@), !.attempts = 0]
  <2>1. d \in Calls
    BY <1>1, <1>2, AdvancedTyped
  <2>2. /\ d.step = c.step /\ d.operation = c.operation /\ d.package = c.package
        /\ d.registry_ = c.registry_ /\ d.skipped = c.skipped /\ d.left = Tail(c.left)
    BY <1>2 DEF Frames
  <2>3. Becomes(self, d)
    BY <1>3
  <2>4. ToSet(c.left) = {Head(c.left)} \cup ToSet(Tail(c.left))
    BY <1>1, <1>2, LeftFacts DEF Frames
  <2>5. Head(c.left) \in Have
    BY <1>3 DEF IInv
  <2> HIDE DEF d
  <2>6. FrameOK(d, Have)
    BY <1>1, <1>2, <2>2, <2>4, <2>5 DEF FrameOK, Changing, Wanted, Paths, Named
  <2> QED
    BY <1>1, <2>1, <2>2, <2>3, <2>6, QuietBecomes DEF Quiet
<1>4. CASE Push(self, [c EXCEPT !.attempts = @ + 1],
                      Call("install", Head(c.left), TRUE, FALSE, Registered))
  <2> DEFINE b == [c EXCEPT !.attempts = @ + 1]
             d == Call("install", Head(c.left), TRUE, FALSE, Registered)
  <2>1. b \in Calls
    BY <1>2 DEF Calls, Frames, Fits
  <2>2. d \in Calls
    BY <1>1, <1>2, LeftTyped, CallTyped, RegisteredType DEF IInv
  <2>3. /\ b.step = c.step /\ b.operation = c.operation /\ b.package = c.package
        /\ b.registry_ = c.registry_ /\ b.skipped = c.skipped /\ b.left = c.left
        /\ d.step = "check" /\ d.operation = "install" /\ d.registry_ = Registered
    BY <1>2 DEF Frames, Call
  <2>4. Push(self, b, d)
    BY <1>4
  <2> HIDE DEF b, d
  <2>5. FrameOK(b, Have)
    BY <1>1, <1>2, <2>3 DEF FrameOK, Changing, Wanted, Paths, Named
  <2>6. FrameOK(d, Have) /\ Link(b, d)
    BY <1>1, <2>3 DEF FrameOK, Link, Changing, IInv
  <2> QED
    BY <1>1, <2>1, <2>2, <2>3, <2>4, <2>5, <2>6, QuietPush DEF Quiet
<1>5. CASE Goto(self, IF Resolved(c) THEN "clear" ELSE "failed")
  <2> DEFINE step == IF Resolved(c) THEN "clear" ELSE "failed"
             d == [c EXCEPT !.step = step]
  <2>1. d \in Calls
    BY <1>2, StepTyped DEF Steps, Changing, Fits, Frames, Resolved
  <2>2. /\ d.step = step /\ d.operation = c.operation /\ d.package = c.package
        /\ d.registry_ = c.registry_ /\ d.skipped = c.skipped
    BY <1>2 DEF Frames
  <2>3. Becomes(self, d)
    BY <1>5 DEF Goto
  <2>4. step \in {"clear", "failed"} /\ (step = "clear" => Resolved(c))
    OBVIOUS
  <2> HIDE DEF d, step
  <2>5. FrameOK(d, Have)
    BY <1>1, <1>2, <2>2, <2>4 DEF FrameOK, Changing, Wanted, Paths, Named, Resolved
  <2> QED
    BY <1>1, <2>1, <2>2, <2>3, <2>4, <2>5, QuietBecomes DEF Quiet
<1> QED
  BY <1>3, <1>4, <1>5 DEF FindLibrary

LEMMA BuildStep ==
  ASSUME NEW self, Process = {self}, IInv(self), Types', Build(self)
  PROVE  IInv(self)'
<1> DEFINE c == Top(self)
<1>1. /\ calls[self] # <<>> /\ c.step = "build" /\ c.left = <<>>
      /\ UNCHANGED <<installed_json, installed, interrupted, forgotten>>
  BY DEF Build, At
<1>2. c \in Calls /\ c \in Frames /\ Fits(c) /\ FrameOK(c, Have)
  BY <1>1, TopOK
<1>3. PICK step \in {"clear", "returned", "failed"} :
        /\ Goto(self, step)
        /\ step = "clear" => c.operation = "install"
        /\ step = "returned" => c.operation = "build"
  <2>1. c.operation \in {"install", "build"}
    BY <1>1, <1>2 DEF Frames, Fits
  <2> QED
    BY <2>1 DEF Build, Installing
<1> DEFINE d == [c EXCEPT !.step = step]
<1>4. d \in Calls
  BY <1>2, <1>3, StepTyped DEF Steps, Changing, Fits, Frames
<1>5. /\ d.step = step /\ d.operation = c.operation /\ d.package = c.package
      /\ d.registry_ = c.registry_ /\ d.skipped = c.skipped
  BY <1>2 DEF Frames
<1>6. Becomes(self, d)
  BY <1>3 DEF Goto
<1> HIDE DEF d
<1>7. FrameOK(d, Have)
  BY <1>1, <1>2, <1>3, <1>5, NoneLeft DEF FrameOK, Changing, Wanted, Paths, Named
<1> QED
  BY <1>1, <1>3, <1>4, <1>5, <1>6, <1>7, QuietBecomes DEF Quiet

(* The call on top changes the directory or the file: all there was stays. *)
LEMMA ChangeBecomes ==
  ASSUME NEW self, Process = {self}, IInv(self), Types', calls[self] # <<>>,
         NEW c \in Calls, Becomes(self, c),
         Have \subseteq Have', Registered' \subseteq Have', FrameOK(c, Have'), Progress(self)',
         c.operation = Top(self).operation, c.package = Top(self).package,
         c.operation = "install" => Top(self).registry_ \subseteq c.registry_
  PROVE  IInv(self)'
<1>1. /\ Types /\ self \in Process /\ calls[self] \in Seq(Calls)
      /\ FramesOK(calls[self], Have) /\ Linked(calls[self])
  BY DEF IInv, Types
<1>2. calls'[self] = Append(Front(calls[self]), c)
  BY <1>1, BecomesTop
<1>3. FramesOK(calls'[self], Have') /\ Linked(calls'[self])
  BY <1>1, <1>2, FramesReplaced DEF Top
<1> QED
  BY <1>3 DEF IInv

LEMMA ClearStep ==
  ASSUME NEW self, Process = {self}, IInv(self), Types', Clear(self)
  PROVE  IInv(self)'
<1> DEFINE c == Top(self)
           d == [c EXCEPT !.step = "stage"]
<1>1. /\ calls[self] # <<>> /\ c.step = "clear" /\ Becomes(self, d)
      /\ installed' = [installed EXCEPT ![c.package] = self]
      /\ UNCHANGED <<installed_json, interrupted, forgotten>>
  BY DEF Clear, At, Goto
<1>2. c \in Calls /\ c \in Frames /\ Fits(c) /\ FrameOK(c, Have)
  BY <1>1, TopOK
<1>3. d \in Calls
  BY <1>1, <1>2, StepTyped DEF Steps, Changing, Fits, Frames
<1>4. /\ d.step = "stage" /\ d.operation = c.operation /\ d.package = c.package
      /\ d.registry_ = c.registry_ /\ d.skipped = c.skipped /\ d.as_is = c.as_is /\ c.package \in Package
  BY <1>2 DEF Frames
<1>5. calls'[self] # <<>> /\ Top(self)' = d
  BY <1>1, <1>3, BecomesTop DEF IInv
<1> HIDE DEF d
<1>6. InHand = {} /\ InHand' = {c.package}
  BY <1>1, <1>4, <1>5, HandFacts DEF Hands
<1>7. Have \subseteq Have'
  BY <1>1, <1>4, <1>6 DEF Have, IInv, Types
<1>8. Registered' \subseteq Have'
  BY <1>1, <1>7 DEF IInv, Registered
<1>9. FrameOK(d, Have')
  BY <1>1, <1>2, <1>4, <1>7 DEF FrameOK, Changing, Wanted, Paths, Named
<1>10. Progress(self)'
  BY <1>1, <1>4, <1>5 DEF Progress, IInv, Types
<1> QED
  BY <1>1, <1>3, <1>4, <1>7, <1>8, <1>9, <1>10, ChangeBecomes

LEMMA StageStep ==
  ASSUME NEW self, Process = {self}, IInv(self), Types', Stage(self)
  PROVE  IInv(self)'
<1> DEFINE c == Top(self)
           d == [c EXCEPT !.step = "truncate"]
<1>1. /\ calls[self] # <<>> /\ c.step = "stage" /\ Becomes(self, d)
      /\ UNCHANGED <<installed_json, interrupted, forgotten>>
  BY DEF Stage, At, Goto
<1>2. c \in Calls /\ c \in Frames /\ Fits(c) /\ FrameOK(c, Have) /\ Progress(self)
  BY <1>1, TopOK
<1>3. d \in Calls
  BY <1>1, <1>2, StepTyped DEF Steps, Changing, Fits, Frames
<1>4. /\ d.step = "truncate" /\ d.operation = c.operation /\ d.package = c.package
      /\ d.registry_ = c.registry_ /\ d.skipped = c.skipped /\ d.as_is = c.as_is /\ c.package \in Package
  BY <1>2 DEF Frames
<1>5. calls'[self] # <<>> /\ Top(self)' = d
  BY <1>1, <1>3, BecomesTop DEF IInv
<1>6. installed' = [installed EXCEPT ![c.package] =
                      IF c.operation = "install" THEN "complete" ELSE "absent"]
  BY <1>1, <1>2, <1>4 DEF Stage, Progress, Installing, IInv, Types
<1> HIDE DEF d
<1>7. InHand = {c.package} /\ InHand' = {c.package}
  BY <1>1, <1>4, <1>5, HandFacts DEF Hands
<1>8. Have \subseteq Have'
  BY <1>1, <1>4, <1>6, <1>7 DEF Have, IInv, Types
<1>9. Registered' \subseteq Have'
  BY <1>1, <1>8 DEF IInv, Registered
<1>10. FrameOK(d, Have')
  BY <1>1, <1>2, <1>4, <1>8 DEF FrameOK, Changing, Wanted, Paths, Named
<1>11. Progress(self)'
  BY <1>4, <1>5, <1>6 DEF Progress, IInv, Types
<1> QED
  BY <1>1, <1>3, <1>4, <1>8, <1>9, <1>10, <1>11, ChangeBecomes

(* Nobody waits for a package to be uninstalled. *)
LEMMA UninstallAlone ==
  ASSUME NEW self \in Process, IInv(self), calls[self] # <<>>, Top(self).operation = "uninstall",
         NEW c \in Calls, Becomes(self, c)
  PROVE  calls'[self] = <<c>>
<1>1. calls[self] \in Seq(Calls) /\ Linked(calls[self]) /\ FramesOK(calls[self], Have)
  BY DEF IInv, Types
<1>2. Front(calls[self]) = <<>>
  BY <1>1, FramesPopped DEF Link, Top
<1>3. Append(<<>>, c) = <<c>>
  OBVIOUS
<1> QED
  BY <1>2, <1>3, BecomesTop DEF IInv

LEMMA UninstallBecomes ==
  ASSUME NEW self, Process = {self}, IInv(self), Types', calls[self] # <<>>,
         Top(self).operation = "uninstall", NEW c \in Calls, Becomes(self, c),
         Registered' \subseteq Have', FrameOK(c, Have'), Progress(self)'
  PROVE  IInv(self)'
<1>1. calls'[self] = <<c>>
  BY UninstallAlone
<1>2. Len(<<c>>) = 1 /\ <<c>>[1] = c
  OBVIOUS
<1>3. FramesOK(<<c>>, Have') /\ Linked(<<c>>)
  BY <1>2 DEF FramesOK, Linked
<1> QED
  BY <1>1, <1>3 DEF IInv

LEMMA TruncateStep ==
  ASSUME NEW self, Process = {self}, IInv(self), Types', Truncate(self)
  PROVE  IInv(self)'
<1> DEFINE c == Top(self)
           d == [c EXCEPT !.registry_ = Changed(c), !.step = "write"]
<1>1. /\ calls[self] # <<>> /\ c.step = "truncate" /\ Becomes(self, d)
      /\ installed_json' = Torn /\ UNCHANGED <<installed, interrupted, forgotten>>
  BY DEF Truncate, At
<1>2. c \in Calls /\ c \in Frames /\ Fits(c) /\ FrameOK(c, Have) /\ Progress(self)
  BY <1>1, TopOK
<1>3. /\ d.step = "write" /\ d.operation = c.operation /\ d.package = c.package
      /\ d.registry_ = Changed(c) /\ d.skipped = c.skipped /\ d.as_is = c.as_is /\ c.package \in Package
      /\ c.operation \in {"install", "uninstall"} /\ c.registry_ \subseteq Package
  BY <1>1, <1>2 DEF Frames, Fits, Changing
<1>4. d \in Calls
  BY <1>2, <1>3 DEF Calls, Frames, Fits, Steps, Changing, Changed
<1>5. calls'[self] # <<>> /\ Top(self)' = d
  BY <1>1, <1>4, BecomesTop DEF IInv
<1> HIDE DEF d
<1>6. InHand = {c.package} /\ InHand' = {}
  BY <1>1, <1>3, <1>5, HandFacts DEF Hands
<1>7. Have \ {c.package} \subseteq Have' /\ (installed[c.package] = "complete" => Have \subseteq Have')
  BY <1>1, <1>3, <1>6 DEF Have
<1>8. Registered' = {}
  BY <1>1 DEF Registered
<1>9. installed'[c.package] = IF c.operation = "install" THEN "complete" ELSE "absent"
  BY <1>1, <1>2 DEF Progress
<1>10. Progress(self)'
  BY <1>1, <1>3, <1>5, <1>9 DEF Progress, Changed
<1>11. CASE c.operation = "install"
  <2>1. Have \subseteq Have' /\ c.package \in Have'
    BY <1>1, <1>3, <1>7, <1>9, <1>11 DEF Have
  <2>2. c.registry_ \subseteq d.registry_ /\ d.registry_ = c.registry_ \cup {c.package}
    BY <1>3, <1>11 DEF Changed
  <2>3. FrameOK(d, Have')
    BY <1>1, <1>2, <1>3, <2>1, <2>2 DEF FrameOK, Changing, Wanted, Paths, Named
  <2> QED
    BY <1>1, <1>3, <1>4, <1>8, <1>10, <2>1, <2>2, <2>3, ChangeBecomes
<1>12. CASE c.operation = "uninstall"
  <2>1. d.registry_ = c.registry_ \ {c.package}
    BY <1>3, <1>12 DEF Changed
  <2>2. FrameOK(d, Have')
    BY <1>2, <1>3, <1>7, <1>12, <2>1 DEF FrameOK, Changing
  <2> QED
    BY <1>1, <1>4, <1>8, <1>10, <1>12, <2>2, UninstallBecomes
<1> QED
  BY <1>3, <1>11, <1>12

LEMMA WriteStep ==
  ASSUME NEW self, Process = {self}, IInv(self), Types', Write(self)
  PROVE  IInv(self)'
<1> DEFINE c == Top(self)
           d == [c EXCEPT !.step = "returned"]
<1>1. /\ calls[self] # <<>> /\ c.step = "write" /\ Becomes(self, d)
      /\ installed_json' = c.registry_ /\ installed' = installed
      /\ interrupted' = interrupted \ {c.package}
  BY DEF Write, At, Goto
<1>2. c \in Calls /\ c \in Frames /\ Fits(c) /\ FrameOK(c, Have) /\ Progress(self)
  BY <1>1, TopOK
<1>3. /\ d.step = "returned" /\ d.operation = c.operation /\ d.package = c.package
      /\ d.registry_ = c.registry_ /\ d.skipped = c.skipped /\ d.as_is = c.as_is /\ c.package \in Package
      /\ c.operation \in {"install", "uninstall"} /\ c.registry_ \in SUBSET Package
  BY <1>1, <1>2 DEF Frames, Fits, Changing
<1>4. d \in Calls
  BY <1>1, <1>2, StepTyped DEF Steps, Changing, Fits, Frames
<1>5. calls'[self] # <<>> /\ Top(self)' = d
  BY <1>1, <1>4, BecomesTop DEF IInv
<1> HIDE DEF d
<1>6. InHand = {} /\ InHand' = {}
  BY <1>1, <1>3, <1>5, HandFacts DEF Hands
<1>7. Have \ {c.package} \subseteq Have'
  BY <1>1, <1>6 DEF Have
<1>8. Registered' = c.registry_
  BY <1>1, <1>3, TornAssumption DEF Registered
<1>9. c.package \in c.registry_ <=> c.operation = "install"
  BY <1>1, <1>2 DEF Progress
<1>10. Progress(self)'
  BY <1>1, <1>3, <1>5, <1>9 DEF Progress
<1>11. CASE c.operation = "install"
  <2>1. Have \subseteq Have'
    BY <1>1, <1>2, <1>3, <1>7, <1>11 DEF Have, Progress
  <2>2. FrameOK(d, Have')
    BY <1>1, <1>2, <1>3, <2>1 DEF FrameOK, Changing, Wanted, Paths, Named
  <2>3. Registered' \subseteq Have'
    BY <1>2, <1>8, <2>1 DEF FrameOK
  <2> QED
    BY <1>1, <1>3, <1>4, <1>10, <2>1, <2>2, <2>3, ChangeBecomes
<1>12. CASE c.operation = "uninstall"
  <2>1. c.registry_ \subseteq Have'
    BY <1>2, <1>7, <1>9, <1>12 DEF FrameOK
  <2>2. FrameOK(d, Have')
    BY <1>3, <1>12, <2>1 DEF FrameOK, Changing
  <2> QED
    BY <1>1, <1>4, <1>8, <1>10, <1>12, <2>1, <2>2, UninstallBecomes
<1> QED
  BY <1>3, <1>11, <1>12

LEMMA ReturnStep ==
  ASSUME NEW self, Process = {self}, IInv(self), Types', Return(self)
  PROVE  IInv(self)'
<1> DEFINE s == calls[self]
           q == Front(s)
           t == Top(self)
           c == Last(q)
           d == Resumed(c, t)
<1>1. /\ s # <<>> /\ t.step \in {"returned", "failed", "raised"}
      /\ calls'[self] = IF q = <<>> THEN <<>> ELSE Append(Front(q), d)
      /\ UNCHANGED <<installed_json, installed, interrupted, forgotten>>
  BY DEF Return, At, IInv, Types
<1>2. s \in Seq(Calls) /\ t \in Calls /\ t \in Frames /\ Progress(self) /\ t = Last(s) /\ Waiting(s)
  BY <1>1, TopOK DEF Top, IInv, Types
<1>3. /\ q \in Seq(Calls) /\ FramesOK(q, Have) /\ Linked(q)
      /\ q # <<>> => Link(c, t) /\ FrameOK(c, Have) /\ FrameOK(t, Have)
  BY <1>1, <1>2, FrontFacts, FramesPopped DEF IInv
<1>4. InHand = {}
  BY <1>1, HandFacts DEF Hands
<1>5. CASE q = <<>>
  <2>1. InHand' = {} /\ calls'[self] = <<>>
    BY <1>1, <1>5, HandFacts
  <2>2. Have' = Have /\ Registered' = Registered
    BY <1>1, <1>4, <2>1, Untouched
  <2>3. FramesOK(<<>>, Have) /\ Linked(<<>>)
    BY DEF FramesOK, Linked
  <2> QED
    BY <2>1, <2>2, <2>3 DEF IInv
<1>6. CASE q # <<>>
  <2>1. c \in Calls /\ Waits(c)
    <3>1. Len(q) = Len(s) - 1 /\ \A i \in 1..(Len(s) - 1) : q[i] = s[i]
      BY <1>1, <1>2, FrontFacts
    <3> HIDE DEF s, q
    <3>2. Len(q) \in Nat \ {0} /\ Last(q) = q[Len(q)] /\ Last(q) \in Calls
      BY <1>3, <1>6, TopFacts
    <3>3. Len(q) \in 1..(Len(s) - 1)
      BY <3>1, <3>2
    <3> QED
      BY <1>2, <3>1, <3>2, <3>3 DEF Waiting
  <2>2. c \in Frames /\ c.step \in {"dependencies", "build"}
        /\ (c.step = "dependencies" => c.left # <<>>)
    BY <2>1 DEF Calls, Waits
  <2> HIDE DEF s, q, c, t
  <2>3. d \in Calls
    BY <1>1, <1>2, <2>1, ResumedTyped, RegisteredType DEF IInv
  <2>4. ASSUME c.step = "dependencies", t.step = "returned"
        PROVE  /\ FrameOK(d, Have) /\ d.operation = c.operation /\ d.package = c.package
               /\ c.registry_ \subseteq d.registry_ /\ d.step \in Quiet
    <3>1. d = [c EXCEPT !.registry_ = Registered, !.left = Tail(@)]
      BY <2>4 DEF Resumed
    <3>2. /\ d.step = c.step /\ d.operation = c.operation /\ d.package = c.package
          /\ d.registry_ = Registered /\ d.left = Tail(c.left) /\ d.skipped = c.skipped
      BY <2>2, <3>1 DEF Frames
    <3>3. ToSet(c.left) = {Head(c.left)} \cup ToSet(Tail(c.left))
      BY <2>2, <2>4, LeftFacts DEF Frames
    <3>4. /\ t.step = "returned" /\ t.operation = "install"
          /\ c.registry_ \subseteq t.registry_ /\ t.package = Head(c.left)
      BY <1>3, <1>6, <2>4 DEF Link
    <3>5. Registered = t.registry_ /\ t.package \in t.registry_
      BY <1>2, <3>4, TornAssumption DEF Progress, Registered, Frames, t
    <3>6. Wanted(c) \subseteq c.registry_ \cup ToSet(c.left)
      BY <1>3, <1>6, <2>4 DEF FrameOK
    <3>7. t.registry_ \subseteq Have
      BY <1>3, <1>6 DEF FrameOK
    <3> HIDE DEF d
    <3>8. Wanted(d) \subseteq d.registry_ \cup ToSet(d.left)
      BY <3>2, <3>3, <3>4, <3>5, <3>6 DEF Wanted, Paths
    <3> QED
      BY <2>2, <2>4, <3>2, <3>4, <3>5, <3>7, <3>8 DEF FrameOK, Changing, Quiet
  <2>5. ASSUME c.step = "dependencies", t.step = "failed"
        PROVE  /\ FrameOK(d, Have) /\ d.operation = c.operation /\ d.package = c.package
               /\ c.registry_ \subseteq d.registry_ /\ d.step \in Quiet
    <3>1. d = [c EXCEPT !.step = "failed"]
      BY <2>5 DEF Resumed
    <3>2. /\ d.step = "failed" /\ d.operation = c.operation /\ d.package = c.package
          /\ d.registry_ = c.registry_ /\ d.skipped = c.skipped
      BY <2>2, <3>1 DEF Frames
    <3> HIDE DEF d
    <3> QED
      BY <1>3, <1>6, <3>2 DEF FrameOK, Changing, Quiet
  <2>6. ASSUME c.step = "dependencies", t.step = "raised"
        PROVE  /\ FrameOK(d, Have) /\ d.operation = c.operation /\ d.package = c.package
               /\ c.registry_ \subseteq d.registry_ /\ d.step \in Quiet
    <3>1. d = [c EXCEPT !.registry_ = t.registry_, !.left = Tail(@),
                        !.skipped = @ \cup {Head(c.left)}]
      BY <2>6 DEF Resumed
    <3>2. /\ d.step = c.step /\ d.operation = c.operation /\ d.package = c.package
          /\ d.registry_ = t.registry_ /\ d.left = Tail(c.left)
          /\ d.skipped = c.skipped \cup {Head(c.left)}
      BY <2>2, <3>1 DEF Frames
    <3>3. ToSet(c.left) = {Head(c.left)} \cup ToSet(Tail(c.left))
      BY <2>2, <2>6, LeftFacts DEF Frames
    <3>4. c.registry_ \subseteq t.registry_ /\ t.registry_ \subseteq Have
      BY <1>3, <1>6, <2>6 DEF Link, FrameOK
    <3>5. Wanted(c) \subseteq c.registry_ \cup ToSet(c.left)
      BY <1>3, <1>6, <2>6 DEF FrameOK
    <3> HIDE DEF d
    <3>6. Wanted(d) \subseteq d.registry_ \cup ToSet(d.left)
      BY <3>2, <3>3, <3>4, <3>5 DEF Wanted, Paths
    <3> QED
      BY <2>6, <3>2, <3>4, <3>6 DEF FrameOK, Changing, Quiet
  <2>7. ASSUME c.step = "build"
        PROVE  /\ FrameOK(d, Have) /\ d.operation = c.operation /\ d.package = c.package
               /\ c.registry_ \subseteq d.registry_ /\ d.step \in Quiet
    <3>1. PICK step \in {"build", "raised"} : d = [c EXCEPT !.step = step]
      BY <2>7 DEF Resumed
    <3>2. /\ d.step = step /\ d.operation = c.operation /\ d.package = c.package
          /\ d.registry_ = c.registry_ /\ d.skipped = c.skipped /\ d.left = c.left
      BY <2>2, <3>1 DEF Frames
    <3> HIDE DEF d
    <3> QED
      BY <1>3, <1>6, <2>7, <3>2 DEF FrameOK, Changing, Wanted, Paths, Named, Quiet
  <2>8. /\ FrameOK(d, Have) /\ d.operation = c.operation /\ d.package = c.package
         /\ c.registry_ \subseteq d.registry_ /\ d.step \in Quiet
    BY <1>1, <2>2, <2>4, <2>5, <2>6, <2>7
  <2> HIDE DEF d
  <2>9. /\ FramesOK(Append(Front(q), d), Have) /\ Linked(Append(Front(q), d))
        /\ Append(Front(q), d) # <<>> /\ Last(Append(Front(q), d)) = d
    BY <1>3, <1>6, <2>3, <2>8, FramesReplaced, Replaced DEF c
  <2>10. calls'[self] = Append(Front(q), d)
    BY <1>1, <1>6
  <2>11. calls'[self] # <<>> /\ Top(self)' = d
    BY <2>9, <2>10 DEF Top
  <2>12. InHand' = {}
    BY <2>8, <2>11, HandFacts DEF Hands, Quiet
  <2>13. Have' = Have /\ Registered' = Registered
    BY <1>1, <1>4, <2>12, Untouched
  <2>14. Progress(self)'
    BY <2>8, <2>11 DEF Progress, Quiet
  <2> QED
    BY <2>9, <2>10, <2>13, <2>14 DEF IInv
<1> QED
  BY <1>5, <1>6

(* What is in hand when a change is cut short counts as interrupted. *)
LEMMA CutShortHave ==
  ASSUME NEW self, Process = {self}, IInv(self), calls[self] # <<>>, CutShort(self),
         InHand' = {}
  PROVE  Have \subseteq Have' /\ Registered' \subseteq Have' /\ Top(self).package \in Package
<1> DEFINE c == Top(self)
<1>1. InHand = IF c.step \in Hands THEN {c.package} ELSE {}
  BY HandFacts
<1>2. installed' = installed /\ interrupted \cup InHand \subseteq interrupted'
  BY <1>1 DEF CutShort, At, Hands
<1>3. Have \subseteq Have'
  BY <1>2 DEF Have
<1>4. Registered' \subseteq Have'
  BY <1>3 DEF CutShort, Registered, IInv
<1> QED
  BY <1>3, <1>4, TopOK DEF Frames

LEMMA RaiseStep ==
  ASSUME NEW self, Process = {self}, IInv(self), Types', Raise(self)
  PROVE  IInv(self)'
<1> DEFINE c == Top(self)
<1>1. calls[self] # <<>> /\ CutShort(self)
  BY DEF Raise
<1>2. c \in Calls /\ c \in Frames /\ Fits(c) /\ FrameOK(c, Have)
  BY <1>1, TopOK
<1>3. PICK registry \in {c.registry_, c.registry_ \cup {c.package}} :
        /\ Becomes(self, [c EXCEPT !.registry_ = registry, !.step = "raised"])
        /\ c.step # "truncate" => registry = c.registry_
  BY DEF Raise, At
<1> DEFINE d == [c EXCEPT !.registry_ = registry, !.step = "raised"]
<1>4. registry \in SUBSET Package /\ c.registry_ \subseteq registry
  BY <1>2 DEF Frames
<1>5. /\ d \in Calls /\ d.step = "raised" /\ d.operation = c.operation
      /\ d.package = c.package /\ d.registry_ = registry
  BY <1>2, <1>4 DEF Calls, Frames, Fits, Steps, Changing
<1>6. Becomes(self, d)
  BY <1>3
<1> HIDE DEF d
<1>7. calls'[self] # <<>> /\ Top(self)' = d
  BY <1>1, <1>5, <1>6, BecomesTop DEF IInv
<1>8. InHand' = {}
  BY <1>5, <1>7, HandFacts DEF Hands
<1>9. Have \subseteq Have' /\ Registered' \subseteq Have'
  BY <1>1, <1>8, CutShortHave
<1>10. registry \subseteq Have'
  <2>1. CASE registry = c.registry_
    BY <1>2, <1>9, <2>1 DEF FrameOK
  <2>2. CASE c.step = "truncate"
    <3>1. c.package \in InHand
      BY <1>1, <2>2, HandFacts DEF Hands
    <3>2. c.package \in Have
      BY <3>1 DEF Have
    <3> QED
      BY <1>2, <1>3, <1>9, <3>2 DEF FrameOK
  <2> QED
    BY <1>3, <2>1, <2>2
<1>11. FrameOK(d, Have')
  BY <1>5, <1>10 DEF FrameOK, Changing
<1>12. Progress(self)'
  BY <1>5, <1>7 DEF Progress
<1> QED
  BY <1>1, <1>4, <1>5, <1>6, <1>9, <1>11, <1>12, ChangeBecomes

LEMMA CrashStep ==
  ASSUME NEW self, Process = {self}, IInv(self), Types', Crash(self)
  PROVE  IInv(self)'
<1>1. calls[self] # <<>> /\ calls'[self] = <<>> /\ CutShort(self)
  BY DEF Crash, IInv, Types
<1>2. InHand' = {}
  BY <1>1, HandFacts
<1>3. Registered' \subseteq Have'
  BY <1>1, <1>2, CutShortHave
<1>4. FramesOK(<<>>, Have') /\ Linked(<<>>)
  BY DEF FramesOK, Linked
<1> QED
  BY <1>1, <1>3, <1>4 DEF IInv

LEMMA InitIInv == ASSUME NEW self, Process = {self} PROVE Init => IInv(self)
<1> SUFFICES ASSUME Init PROVE IInv(self)
  OBVIOUS
<1>1. Types
  BY InitTypes
<1>2. calls[self] = <<>> /\ Registered = {}
  BY DEF Init, Registered
<1>3. FramesOK(<<>>, Have) /\ Linked(<<>>)
  BY DEF FramesOK, Linked
<1> QED
  BY <1>1, <1>2, <1>3 DEF IInv

LEMMA NextIInv ==
  ASSUME NEW self, Process = {self}
  PROVE  IInv(self) /\ [Next]_vars => IInv(self)'
<1> SUFFICES ASSUME IInv(self), [Next]_vars PROVE IInv(self)'
  OBVIOUS
<1>1. Types'
  BY NextTypes DEF IInv
<1>2. CASE UNCHANGED vars
  <2>1. InHand' = InHand
    BY <1>2 DEF InHand, At, Top, vars
  <2>2. Have' = Have /\ Registered' = Registered
    BY <1>2, <2>1 DEF vars, Have, Registered
  <2>3. calls[self] # <<>> => (Progress(self) => Progress(self)')
    BY <1>2 DEF vars, Progress, Top
  <2> QED
    BY <1>1, <1>2, <2>2, <2>3 DEF vars, IInv
<1>3. CASE Start(self) \/ Work(self) \/ Raise(self) \/ Crash(self)
  BY <1>1, <1>3, StartStep, CheckStep, InstallDependencyStep, FindLibraryStep, BuildStep,
     ClearStep, StageStep, TruncateStep, WriteStep, ReturnStep, RaiseStep,
     CrashStep DEF Work
<1> QED
  BY <1>2, <1>3 DEF Next

(* While one command runs at a time, however deep its installations nest and
   whatever throws or is killed, a package that is registered is there, unless
   the command that changes it is at work or was cut short. *)
THEOREM RegisteredAreInstalled ==
  ASSUME NEW self, Process = {self}
  PROVE  Spec => []RegisteredIsInstalled
<1>1. ASSUME IInv(self) PROVE RegisteredIsInstalled
  <2>1. Registered \subseteq Have
    BY <1>1 DEF IInv
  <2> QED
    BY <2>1, HandFacts DEF RegisteredIsInstalled, Have
<1> QED
  BY <1>1, InitIInv, NextIInv, PTL DEF Spec

(* And a package whose installation has succeeded was built with what is
   there, but for the dependencies whose own installation threw an exception,
   which are left out. *)
THEOREM DependenciesAreInstalled ==
  ASSUME NEW self, Process = {self}
  PROVE  Spec => []DependenciesInstalled
<1>1. ASSUME IInv(self), At(self, "returned"), Installing(self), ~Top(self).as_is
      PROVE  LET p == Top(self).package
                 paths == ToSet(PathDependencies[p]) \ Top(self).skipped
             IN  /\ paths \subseteq Registered
                 /\ \A d \in paths \cup (IF p \in Unbuilt THEN {} ELSE ToSet(NamedDependencies[p])) :
                      installed[d] = "complete" \/ d \in interrupted
  <2> DEFINE c == Top(self)
  <2>1. /\ calls[self] # <<>> /\ c.step = "returned" /\ c.operation = "install"
    BY <1>1 DEF At, Installing
  <2>2. FrameOK(c, Have) /\ Progress(self) /\ c \in Frames
    BY <1>1, <2>1, TopOK
  <2>3. Wanted(c) \subseteq c.registry_ /\ (c.package \notin Unbuilt => Named(c) \subseteq Have)
    BY <1>1, <2>1, <2>2 DEF FrameOK
  <2>4. Registered = c.registry_ /\ c.registry_ \subseteq Have
    BY <2>1, <2>2, TornAssumption DEF FrameOK, Progress, Registered, Frames
  <2>5. InHand = {}
    BY <2>1, HandFacts DEF Hands
  <2>6. \A d \in Have : installed[d] = "complete" \/ d \in interrupted
    BY <2>5 DEF Have
  <2> QED
    BY <2>3, <2>4, <2>6 DEF Wanted, Paths, Named
<1>2. IInv(self) => DependenciesInstalled
  BY <1>1 DEF DependenciesInstalled
<1> QED
  BY <1>2, InitIInv, NextIInv, PTL DEF Spec

-----------------------------------------------------------------------------
(* What has to be registered: what is there, unless it is in hand, was left by
   a change that was cut short, was forgotten with a file, or is bundled.  What
   must not get lost: that and all else that is registered. *)
Needed ==
  {p \in Package : installed[p] = "complete"} \ (Bundled \cup interrupted \cup forgotten \cup InHand)
Must == Needed \cup (Registered \ Bundled)

(* A call that builds has bundled libraries on top of it, and these have
   nothing else on top of them.  All else they take for registered, it does. *)
BundledClosed == \A p \in Bundled : ToSet(PathDependencies[p]) \subseteq Bundled
Below(c, d) ==
  /\ c.step = "build" \/ c.package \in Bundled => d.package \in Bundled
  /\ c.step = "build" => d.registry_ \ Bundled \subseteq c.registry_
Nested(s) == \A j \in 1..Len(s) : \A i \in 1..(j - 1) : Below(s[i], s[j])

(* What is left is among what there is to do, and the registry that a call is
   going to save is complete: of the call on top and of those that build, which
   read the file again only when they install a dependency with a path. *)
Kept(c, top, needed) ==
  /\ c.step = "dependencies" => ToSet(c.left) \subseteq Paths(c)
  /\ c.step = "build" => ToSet(c.left) \subseteq Named(c)
  /\ (top \/ c.step = "build") /\ c.step \notin {"returned", "failed"} =>
       needed \subseteq c.registry_
Keeps(s, needed) == \A i \in 1..Len(s) : Kept(s[i], i = Len(s), needed)

KInv(self) ==
  /\ ~At(self, "write") => Needed \subseteq Registered
  /\ Keeps(calls[self], Must) /\ Nested(calls[self])

LEMMA KeepsReplaced ==
  ASSUME NEW s \in Seq(Calls), s # <<>>, NEW c \in Calls, NEW needed, NEW more,
         Keeps(s, needed), Nested(s), c.package = Last(s).package, Kept(c, TRUE, more),
         Last(s).package \in Bundled =>
           /\ more \subseteq needed \cup (Last(s).registry_ \ Bundled)
           /\ c.registry_ \ Bundled \subseteq Last(s).registry_
  PROVE  Keeps(Append(Front(s), c), more) /\ Nested(Append(Front(s), c))
<1> DEFINE r == Append(Front(s), c)
           n == Len(s)
<1>1. /\ Len(r) = n /\ r[n] = c /\ \A i \in 1..(n - 1) : r[i] = s[i]
      /\ n \in Nat \ {0} /\ Last(s) = s[n]
  BY Replaced, TopFacts
<1>2. /\ \A i \in 1..n : Kept(s[i], i = n, needed)
      /\ \A j \in 1..n : \A i \in 1..(j - 1) : Below(s[i], s[j])
  BY DEF Keeps, Nested
<1> HIDE DEF r, n
<1>3. \A i \in 1..n : i = n \/ (i \in 1..(n - 1) /\ i # n)
  BY <1>1
<1>4. ASSUME NEW i \in 1..(n - 1) PROVE Kept(r[i], i = n, more)
  <2>1. i # n /\ i \in 1..n /\ n \in 1..n /\ r[i] = s[i]
    BY <1>1
  <2>2. Kept(s[i], i = n, needed) /\ Below(s[i], s[n])
    BY <1>2, <1>4, <2>1
  <2>3. s[i].step = "build" => more \subseteq needed \cup s[i].registry_
    BY <1>1, <2>2 DEF Below
  <2> QED
    BY <2>1, <2>2, <2>3 DEF Kept
<1>5. \A i \in 1..n : Kept(r[i], i = n, more)
  BY <1>1, <1>3, <1>4
<1>6. ASSUME NEW j \in 1..n, NEW i \in 1..(j - 1) PROVE Below(r[i], r[j])
  <2>1. i \in 1..(n - 1) /\ Below(s[i], s[j]) /\ r[i] = s[i]
    BY <1>1, <1>2, <1>6
  <2>2. CASE j = n
    BY <1>1, <2>1, <2>2 DEF Below
  <2>3. CASE j # n
    BY <1>1, <1>3, <2>1, <2>3
  <2> QED
    BY <2>2, <2>3
<1> QED
  BY <1>1, <1>5, <1>6 DEF Keeps, Nested, r

LEMMA KeepsPushed ==
  ASSUME NEW s \in Seq(Calls), s # <<>>, NEW c \in Calls, NEW d \in Calls, NEW needed,
         Keeps(s, needed), Nested(s), c.package = Last(s).package,
         c.registry_ = Last(s).registry_, d.registry_ \ Bundled \subseteq c.registry_,
         Kept(c, TRUE, needed), Kept(d, TRUE, needed), Below(c, d)
  PROVE  /\ Keeps(Append(Append(Front(s), c), d), needed)
         /\ Nested(Append(Append(Front(s), c), d))
<1> DEFINE q == Append(Front(s), c)
           r == Append(q, d)
           n == Len(s)
<1>1. Keeps(q, needed) /\ Nested(q)
  BY KeepsReplaced
<1>2. /\ Len(r) = n + 1 /\ r[n] = c /\ r[n + 1] = d /\ \A i \in 1..(n - 1) : r[i] = s[i]
      /\ n \in Nat \ {0}
  BY Pushed, TopFacts
<1>3. Len(q) = n /\ q[n] = c /\ \A i \in 1..(n - 1) : q[i] = s[i]
  BY Replaced
<1> HIDE DEF r, n, q
<1>4. \A i \in 1..n : r[i] = q[i] /\ i # n + 1
  BY <1>2, <1>3
<1>5. \A i \in 1..(n + 1) : i = n + 1 \/ i \in 1..n
  BY <1>2
<1>6. /\ \A i \in 1..n : Kept(q[i], i = n, needed)
      /\ \A j \in 1..n : \A i \in 1..(j - 1) : Below(q[i], q[j])
  BY <1>1, <1>3 DEF Keeps, Nested
<1>7. \A i \in 1..n : Kept(r[i], i = n + 1, needed)
  BY <1>4, <1>6 DEF Kept
<1>8. \A i \in 1..(n + 1) : Kept(r[i], i = n + 1, needed)
  BY <1>2, <1>5, <1>7
<1>9. ASSUME NEW i \in 1..n PROVE Below(r[i], d)
  <2>1. CASE i = n
    BY <1>2, <2>1
  <2>2. CASE i # n
    <3>1. n \in 1..n /\ i \in 1..(n - 1)
      BY <1>2, <2>2
    <3>2. Below(q[i], q[n])
      BY <1>6, <3>1
    <3> QED
      BY <1>3, <1>4, <3>2 DEF Below
  <2> QED
    BY <2>1, <2>2
<1>10. ASSUME NEW j \in 1..(n + 1), NEW i \in 1..(j - 1) PROVE Below(r[i], r[j])
  <2>1. CASE j = n + 1
    <3>1. i \in 1..n
      BY <1>2, <2>1
    <3> QED
      BY <1>2, <1>9, <2>1, <3>1
  <2>2. CASE j \in 1..n
    <3>1. i \in 1..n
      BY <1>2, <2>2
    <3> QED
      BY <1>4, <1>6, <2>2, <3>1
  <2> QED
    BY <1>5, <2>1, <2>2
<1> QED
  BY <1>2, <1>8, <1>10 DEF Keeps, Nested, r, q

(* The call on top returns to c, which goes on as d. *)
LEMMA KeepsResumed ==
  ASSUME NEW s \in Seq(Calls), s # <<>>, Front(s) # <<>>, NEW d \in Calls, NEW needed,
         Keeps(s, needed), Nested(s), d.package = Last(Front(s)).package, Kept(d, TRUE, needed),
         d.registry_ \subseteq Last(Front(s)).registry_ \cup Last(s).registry_
  PROVE  Keeps(Append(Front(Front(s)), d), needed) /\ Nested(Append(Front(Front(s)), d))
<1> DEFINE q == Front(s)
           r == Append(Front(q), d)
           n == Len(q)
<1>1. /\ q \in Seq(Calls) /\ n = Len(s) - 1 /\ \A i \in 1..(Len(s) - 1) : q[i] = s[i]
      /\ Len(s) \in Nat \ {0} /\ q # <<>>
  BY FrontFacts, TopFacts
<1> HIDE DEF q
<1>2. /\ Len(r) = n /\ r[n] = d /\ \A i \in 1..(n - 1) : r[i] = q[i]
      /\ n \in Nat \ {0} /\ Last(q) = q[n]
  <2>1. Len(r) = n /\ r[n] = d /\ \A i \in 1..(n - 1) : r[i] = q[i]
    BY <1>1, Replaced
  <2>2. n \in Nat \ {0} /\ Last(q) = q[n]
    BY <1>1, TopFacts
  <2> QED
    BY <2>1, <2>2
<1> HIDE DEF r, n
<1>3. \A i \in 1..n : i \in 1..Len(s) /\ i # Len(s) /\ (i = n \/ (i \in 1..(n - 1) /\ i # n))
  BY <1>1, <1>2
<1>4. ASSUME NEW i \in 1..n PROVE Kept(r[i], i = n, needed)
  <2>1. CASE i = n
    BY <1>2, <2>1
  <2>2. CASE i # n
    <3>1. Kept(s[i], i = Len(s), needed) /\ i # Len(s) /\ r[i] = s[i]
      BY <1>1, <1>2, <1>3, <2>2 DEF Keeps
    <3> QED
      BY <2>2, <3>1 DEF Kept
  <2> QED
    BY <2>1, <2>2
<1>5. ASSUME NEW j \in 1..n, NEW i \in 1..(j - 1) PROVE Below(r[i], r[j])
  <2>1. i \in 1..(n - 1) /\ r[i] = s[i] /\ s[j] = q[j] /\ j \in 1..Len(s)
    <3>1. n \in Nat /\ j \in Int /\ i \in 1..(n - 1) /\ n - 1 < Len(s) - 1 /\ n = Len(s) - 1
      BY <1>1, <1>2, <1>5
    <3>2. i \in 1..(Len(s) - 1) /\ j \in 1..(Len(s) - 1) /\ j \in 1..Len(s)
      BY <1>1, <1>5, <3>1
    <3> QED
      BY <1>1, <1>2, <3>1, <3>2
  <2>2. Below(s[i], s[j])
    BY <1>5, <2>1 DEF Nested
  <2>3. CASE j = n
    <3>1. Len(s) \in 1..Len(s) /\ i \in 1..(Len(s) - 1) /\ Last(s) = s[Len(s)]
      BY <1>1, <1>2, <2>1, TopFacts
    <3>2. Below(s[i], Last(s))
      BY <3>1 DEF Nested
    <3>3. r[j] = d /\ s[j] = Last(q)
      BY <1>2, <2>1, <2>3
    <3> QED
      BY <2>1, <2>2, <3>2, <3>3 DEF Below, q
  <2>4. CASE j # n
    BY <1>1, <1>2, <1>3, <2>1, <2>2, <2>4
  <2> QED
    BY <2>3, <2>4
<1> QED
  BY <1>2, <1>4, <1>5 DEF Keeps, Nested, r, q

LEMMA TopKept ==
  ASSUME NEW self \in Process, Types, KInv(self), calls[self] # <<>>
  PROVE  /\ calls[self] \in Seq(Calls) /\ Kept(Top(self), TRUE, Must)
         /\ Keeps(calls[self], Must) /\ Nested(calls[self])
<1>1. calls[self] \in Seq(Calls) /\ Keeps(calls[self], Must) /\ Nested(calls[self])
  BY DEF KInv, Types
<1>2. Len(calls[self]) \in 1..Len(calls[self]) /\ Last(calls[self]) = calls[self][Len(calls[self])]
  BY <1>1, TopFacts
<1>3. Kept(calls[self][Len(calls[self])], Len(calls[self]) = Len(calls[self]), Must)
  BY <1>1, <1>2 DEF Keeps
<1> QED
  BY <1>1, <1>2, <1>3 DEF Top

LEMMA BecomesKept ==
  ASSUME NEW self, Process = {self}, Types, KInv(self), calls[self] # <<>>,
         NEW c \in Calls, Becomes(self, c), c.package = Top(self).package,
         Kept(c, TRUE, Must'), c.step # "write" => Needed' \subseteq Registered',
         Top(self).package \in Bundled =>
           /\ Must' \subseteq Must \cup (Top(self).registry_ \ Bundled)
           /\ c.registry_ \ Bundled \subseteq Top(self).registry_
  PROVE  KInv(self)'
<1>1. /\ calls[self] \in Seq(Calls) /\ self \in Process
      /\ Keeps(calls[self], Must) /\ Nested(calls[self])
  BY TopKept
<1>2. calls'[self] = Append(Front(calls[self]), c) /\ Top(self)' = c
  BY <1>1, BecomesTop
<1>3. Keeps(calls'[self], Must') /\ Nested(calls'[self])
  BY <1>1, <1>2, KeepsReplaced DEF Top
<1>4. ~At(self, "write")' => c.step # "write"
  BY <1>1, <1>2, BecomesTop DEF At
<1> QED
  BY <1>3, <1>4 DEF KInv

LEMMA QuietKept ==
  ASSUME NEW self, Process = {self}, UNCHANGED <<installed_json, installed, interrupted, forgotten>>,
         InHand = {}, InHand' = {}
  PROVE  Needed' = Needed /\ Registered' = Registered /\ Must' = Must
BY DEF Needed, Registered, Must

(* The call on top changes and touches nothing. *)
LEMMA QuietBecomesKept ==
  ASSUME NEW self, Process = {self}, Types, KInv(self), calls[self] # <<>>,
         UNCHANGED <<installed_json, installed, interrupted, forgotten>>,
         Top(self).step \in Quiet \ {"failed"}, NEW c \in Calls, Becomes(self, c),
         c.step \in Quiet \cup {"returned"},
         c.package = Top(self).package, c.registry_ = Top(self).registry_,
         c.step = "dependencies" => ToSet(c.left) \subseteq Paths(c),
         c.step = "build" => ToSet(c.left) \subseteq Named(c)
  PROVE  KInv(self)'
<1>1. self \in Process /\ Kept(Top(self), TRUE, Must)
  BY TopKept
<1>2. calls'[self] # <<>> /\ Top(self)' = c
  BY <1>1, BecomesTop
<1>3. InHand = {} /\ InHand' = {}
  BY <1>2, HandFacts DEF Hands, Quiet
<1>4. Needed' = Needed /\ Registered' = Registered /\ Must' = Must
  BY <1>3, QuietKept
<1>5. Needed \subseteq Registered
  BY DEF KInv, At, Quiet
<1>6. Kept(c, TRUE, Must)
  BY <1>1 DEF Kept, Quiet
<1> QED
  BY <1>4, <1>5, <1>6, BecomesKept DEF Quiet

LEMMA QuietPushKept ==
  ASSUME NEW self, Process = {self}, Types, KInv(self), calls[self] # <<>>,
         UNCHANGED <<installed_json, installed, interrupted, forgotten>>,
         Top(self).step \in Quiet \ {"failed"},
         NEW c \in Calls, NEW d \in Calls, Push(self, c, d),
         c.step = Top(self).step, c.left = Top(self).left,
         c.package = Top(self).package, c.registry_ = Top(self).registry_,
         d.step = "check", Must \subseteq d.registry_,
         d.registry_ \ Bundled \subseteq c.registry_, Below(c, d)
  PROVE  KInv(self)'
<1>1. /\ self \in Process /\ Kept(Top(self), TRUE, Must) /\ calls[self] \in Seq(Calls)
      /\ Keeps(calls[self], Must) /\ Nested(calls[self])
  BY TopKept
<1>2. /\ calls'[self] = Append(Append(Front(calls[self]), c), d)
      /\ calls'[self] # <<>> /\ Top(self)' = d
  BY <1>1, PushTop
<1>3. InHand = {} /\ InHand' = {}
  BY <1>2, HandFacts DEF Hands, Quiet
<1>4. Needed' = Needed /\ Registered' = Registered /\ Must' = Must
  BY <1>3, QuietKept
<1>5. Needed \subseteq Registered
  BY DEF KInv, At, Quiet
<1>6. Kept(c, TRUE, Must) /\ Kept(d, TRUE, Must)
  BY <1>1 DEF Kept, Paths, Named
<1>7. Keeps(calls'[self], Must) /\ Nested(calls'[self])
  BY <1>1, <1>2, <1>6, KeepsPushed DEF Top
<1> QED
  BY <1>4, <1>5, <1>7 DEF KInv

LEMMA StartKept ==
  ASSUME NEW self, Process = {self}, Types, KInv(self), Start(self)
  PROVE  KInv(self)'
<1>1. PICK p \in Package, force \in BOOLEAN, as_is \in BOOLEAN,
           op \in {"install", "uninstall", "build"} :
        calls' = [calls EXCEPT ![self] = <<Call(op, p, force, as_is, Registered)>>]
  BY DEF Start
<1> DEFINE c == Call(op, p, force, as_is, Registered)
<1>2. /\ calls[self] = <<>> /\ calls'[self] = <<c>>
      /\ UNCHANGED <<installed_json, installed, interrupted, forgotten>>
  BY <1>1 DEF Start, Types
<1>3. c.step = "check" /\ c.registry_ = Registered
  BY DEF Call
<1> HIDE DEF c
<1>4. Len(<<c>>) = 1 /\ <<c>>[1] = c /\ <<c>> # <<>> /\ Last(<<c>>) = c
  BY DEF Last
<1>5. InHand = {} /\ InHand' = {}
  BY <1>2, <1>3, <1>4, HandFacts DEF Hands, Top
<1>6. Needed' = Needed /\ Registered' = Registered /\ Must' = Must
  BY <1>2, <1>5, QuietKept
<1>7. Needed \subseteq Registered
  BY <1>2 DEF KInv, At
<1>8. Kept(c, TRUE, Must)
  BY <1>3, <1>7 DEF Kept, Must
<1>9. Keeps(<<c>>, Must) /\ Nested(<<c>>)
  <2>1. \A i \in 1..1 : i = 1 /\ 1..(i - 1) = {}
    OBVIOUS
  <2> QED
    BY <1>4, <1>8, <2>1 DEF Keeps, Nested
<1> QED
  BY <1>2, <1>6, <1>7, <1>9 DEF KInv

LEMMA CheckKept ==
  ASSUME NEW self, Process = {self}, IInv(self), KInv(self), Check(self)
  PROVE  KInv(self)'
<1> DEFINE c == Top(self)
<1>1. /\ calls[self] # <<>> /\ c.step = "check" /\ Types
      /\ UNCHANGED <<installed_json, installed, interrupted, forgotten>>
  BY DEF Check, At, IInv
<1>2. c \in Calls /\ c \in Frames /\ Fits(c)
  BY <1>1, TopOK
<1>3. ASSUME NEW step \in {"failed", "clear"}, Goto(self, step),
             step = "clear" => c.operation = "uninstall" \/ c.as_is
      PROVE  KInv(self)'
  <2> DEFINE d == [c EXCEPT !.step = step]
  <2>1. d \in Calls
    BY <1>2, <1>3, StepTyped DEF Steps, Changing, Fits, Frames
  <2>2. d.step = step /\ d.package = c.package /\ d.registry_ = c.registry_
    BY <1>2 DEF Frames
  <2>3. Becomes(self, d)
    BY <1>3 DEF Goto
  <2> HIDE DEF d
  <2> QED
    BY <1>1, <1>3, <2>1, <2>2, <2>3, QuietBecomesKept DEF Quiet
<1>4. ASSUME NEW step \in {"dependencies", "build"}, NEW left \in Seq(Package),
             Becomes(self, [c EXCEPT !.step = step, !.left = left]),
             \/ step = "dependencies" /\ c.operation = "install" /\ left = PathDependencies[c.package]
             \/ step = "build" /\ c.operation = "build" /\ left = NamedDependencies[c.package]
      PROVE  KInv(self)'
  <2> DEFINE d == [c EXCEPT !.step = step, !.left = left]
  <2>1. d \in Calls
    BY <1>2, <1>4, DependenciesTyped
  <2>2. d.step = step /\ d.package = c.package /\ d.registry_ = c.registry_ /\ d.left = left
    BY <1>2 DEF Frames
  <2>3. Becomes(self, d)
    BY <1>4
  <2> HIDE DEF d
  <2> QED
    BY <1>1, <1>4, <2>1, <2>2, <2>3, QuietBecomesKept DEF Quiet, Paths, Named
<1>5. c.package \in Package
  BY <1>2 DEF Frames
<1> QED
  BY <1>3, <1>4, <1>5, DependenciesAssumption DEF Check, Installing

LEMMA BundledNames ==
  ASSUME NEW c \in Frames, NEW d \in Named(c) PROVE d \in Bundled
BY DEF Bundled, Named, Frames

LEMMA InstallDependencyKept ==
  ASSUME NEW self, Process = {self}, BundledClosed, IInv(self), KInv(self),
         InstallDependency(self)
  PROVE  KInv(self)'
<1> DEFINE c == Top(self)
<1>1. /\ calls[self] # <<>> /\ c.step = "dependencies" /\ Types
      /\ UNCHANGED <<installed_json, installed, interrupted, forgotten>>
  BY DEF InstallDependency, At, IInv
<1>2. c \in Calls /\ c \in Frames /\ Fits(c) /\ c.operation = "install" /\ Kept(c, TRUE, Must)
  BY <1>1, TopOK, TopKept DEF Fits
<1>3. CASE Becomes(self, [c EXCEPT !.step = "build", !.left = NamedDependencies[c.package]])
  <2> DEFINE d == [c EXCEPT !.step = "build", !.left = NamedDependencies[c.package]]
  <2>1. d \in Calls
    <3>1. NamedDependencies[c.package] \in Seq(Package)
      BY <1>2, DependenciesAssumption DEF Frames
    <3> QED
      BY <1>2, <3>1, DependenciesTyped
  <2>2. /\ d.step = "build" /\ d.package = c.package
        /\ d.registry_ = c.registry_ /\ d.left = NamedDependencies[c.package]
    BY <1>2 DEF Frames
  <2>3. Becomes(self, d)
    BY <1>3
  <2> HIDE DEF d
  <2> QED
    BY <1>1, <2>1, <2>2, <2>3, QuietBecomesKept DEF Quiet, Named
<1>4. CASE c.left # <<>> /\ Becomes(self, [c EXCEPT !.left = Tail(@)])
  <2> DEFINE d == [c EXCEPT !.left = Tail(@)]
  <2>1. d \in Calls
    BY <1>2, <1>4, AdvancedTyped
  <2>2. /\ d.step = c.step /\ d.package = c.package
        /\ d.registry_ = c.registry_ /\ d.left = Tail(c.left)
    BY <1>2 DEF Frames
  <2>3. Becomes(self, d)
    BY <1>4
  <2>4. ToSet(c.left) = {Head(c.left)} \cup ToSet(Tail(c.left))
    BY <1>2, <1>4, LeftFacts DEF Frames
  <2> HIDE DEF d
  <2>5. ToSet(d.left) \subseteq Paths(d)
    BY <1>1, <1>2, <2>2, <2>4 DEF Kept, Paths
  <2> QED
    BY <1>1, <2>1, <2>2, <2>3, <2>5, QuietBecomesKept DEF Quiet
<1>5. CASE /\ c.left # <<>>
           /\ Push(self, c, Call("install", Head(c.left), FALSE, FALSE, c.registry_))
  <2> DEFINE d == Call("install", Head(c.left), FALSE, FALSE, c.registry_)
  <2>1. d \in Calls
    BY <1>2, <1>5, LeftTyped, CallTyped DEF Frames
  <2>2. d.step = "check" /\ d.package = Head(c.left) /\ d.registry_ = c.registry_
    BY DEF Call
  <2>3. Push(self, c, d)
    BY <1>5
  <2>4. Head(c.left) \in Paths(c)
    BY <1>1, <1>2, <1>5, LeftFacts DEF Kept, Frames
  <2> HIDE DEF d
  <2>5. Below(c, d)
    BY <1>1, <2>2, <2>4 DEF Below, BundledClosed, Paths
  <2>6. Must \subseteq d.registry_ /\ d.registry_ \ Bundled \subseteq c.registry_
    BY <1>1, <1>2, <2>2 DEF Kept
  <2> QED
    BY <1>1, <1>2, <2>1, <2>2, <2>3, <2>5, <2>6, QuietPushKept DEF Quiet
<1> QED
  BY <1>3, <1>4, <1>5 DEF InstallDependency

LEMMA FindLibraryKept ==
  ASSUME NEW self, Process = {self}, IInv(self), KInv(self), FindLibrary(self)
  PROVE  KInv(self)'
<1> DEFINE c == Top(self)
<1>1. /\ calls[self] # <<>> /\ c.step = "build" /\ c.left # <<>> /\ Types
      /\ UNCHANGED <<installed_json, installed, interrupted, forgotten>>
  BY DEF FindLibrary, At, IInv
<1>2. /\ c \in Calls /\ c \in Frames /\ Fits(c) /\ Kept(c, TRUE, Must)
      /\ ToSet(c.left) = {Head(c.left)} \cup ToSet(Tail(c.left))
  BY <1>1, TopOK, TopKept, LeftFacts DEF Frames
<1>3. CASE Becomes(self, [c EXCEPT !.left = Tail(@), !.attempts = 0])
  <2> DEFINE d == [c EXCEPT !.left = Tail(@), !.attempts = 0]
  <2>1. d \in Calls
    BY <1>1, <1>2, AdvancedTyped
  <2>2. /\ d.step = c.step /\ d.package = c.package
        /\ d.registry_ = c.registry_ /\ d.left = Tail(c.left)
    BY <1>2 DEF Frames
  <2>3. Becomes(self, d)
    BY <1>3
  <2> HIDE DEF d
  <2>4. ToSet(d.left) \subseteq Named(d)
    BY <1>1, <1>2, <2>2 DEF Kept, Named
  <2> QED
    BY <1>1, <2>1, <2>2, <2>3, <2>4, QuietBecomesKept DEF Quiet
<1>4. CASE Push(self, [c EXCEPT !.attempts = @ + 1],
                      Call("install", Head(c.left), TRUE, FALSE, Registered))
  <2> DEFINE b == [c EXCEPT !.attempts = @ + 1]
             d == Call("install", Head(c.left), TRUE, FALSE, Registered)
  <2>1. b \in Calls
    BY <1>2 DEF Calls, Frames, Fits
  <2>2. d \in Calls
    BY <1>1, <1>2, LeftTyped, CallTyped, RegisteredType
  <2>3. /\ b.step = c.step /\ b.package = c.package /\ b.left = c.left
        /\ b.registry_ = c.registry_
        /\ d.step = "check" /\ d.package = Head(c.left) /\ d.registry_ = Registered
    BY <1>2 DEF Frames, Call
  <2>4. Push(self, b, d)
    BY <1>4
  <2>5. Head(c.left) \in Bundled
    <3>1. Head(c.left) \in Named(c)
      BY <1>1, <1>2 DEF Kept
    <3> QED
      BY <1>2, <3>1, BundledNames
  <2>6. Must \subseteq Registered /\ Registered \ Bundled \subseteq c.registry_
    <3>1. Needed \subseteq Registered
      BY <1>1 DEF KInv, At
    <3> QED
      BY <1>1, <1>2, <3>1 DEF Kept, Must
  <2> HIDE DEF b, d
  <2>7. Below(b, d)
    BY <2>3, <2>5, <2>6 DEF Below
  <2> QED
    BY <1>1, <2>1, <2>2, <2>3, <2>4, <2>6, <2>7, QuietPushKept DEF Quiet
<1>5. CASE Goto(self, IF Resolved(c) THEN "clear" ELSE "failed")
  <2> DEFINE step == IF Resolved(c) THEN "clear" ELSE "failed"
             d == [c EXCEPT !.step = step]
  <2>1. d \in Calls
    BY <1>2, StepTyped DEF Steps, Changing, Fits, Frames, Resolved
  <2>2. d.step = step /\ d.package = c.package /\ d.registry_ = c.registry_
    BY <1>2 DEF Frames
  <2>3. Becomes(self, d)
    BY <1>5 DEF Goto
  <2>4. step \in {"clear", "failed"}
    OBVIOUS
  <2> HIDE DEF d, step
  <2> QED
    BY <1>1, <2>1, <2>2, <2>3, <2>4, QuietBecomesKept DEF Quiet
<1> QED
  BY <1>3, <1>4, <1>5 DEF FindLibrary

LEMMA BuildKept ==
  ASSUME NEW self, Process = {self}, IInv(self), KInv(self), Build(self)
  PROVE  KInv(self)'
<1> DEFINE c == Top(self)
<1>1. /\ calls[self] # <<>> /\ c.step = "build" /\ Types
      /\ UNCHANGED <<installed_json, installed, interrupted, forgotten>>
  BY DEF Build, At, IInv
<1>2. c \in Calls /\ c \in Frames /\ Fits(c)
  BY <1>1, TopOK
<1>3. PICK step \in {"clear", "returned", "failed"} :
        Goto(self, step) /\ (step = "clear" => c.operation = "install")
  BY DEF Build, Installing
<1> DEFINE d == [c EXCEPT !.step = step]
<1>4. d \in Calls
  BY <1>2, <1>3, StepTyped DEF Steps, Changing, Fits, Frames
<1>5. d.step = step /\ d.package = c.package /\ d.registry_ = c.registry_
  BY <1>2 DEF Frames
<1>6. Becomes(self, d)
  BY <1>3 DEF Goto
<1> HIDE DEF d
<1> QED
  BY <1>1, <1>4, <1>5, <1>6, QuietBecomesKept DEF Quiet

LEMMA ClearKept ==
  ASSUME NEW self, Process = {self}, IInv(self), KInv(self), Clear(self)
  PROVE  KInv(self)'
<1> DEFINE c == Top(self)
           d == [c EXCEPT !.step = "stage"]
<1>1. /\ calls[self] # <<>> /\ c.step = "clear" /\ Becomes(self, d) /\ Types
      /\ installed' = [installed EXCEPT ![c.package] = self]
      /\ UNCHANGED <<installed_json, interrupted, forgotten>>
  BY DEF Clear, At, Goto, IInv
<1>2. c \in Calls /\ c \in Frames /\ Fits(c) /\ Kept(c, TRUE, Must)
  BY <1>1, TopOK, TopKept
<1>3. d \in Calls
  BY <1>1, <1>2, StepTyped DEF Steps, Changing, Fits, Frames
<1>4. /\ d.step = "stage" /\ d.package = c.package /\ d.registry_ = c.registry_
  BY <1>2 DEF Frames
<1>5. calls'[self] # <<>> /\ Top(self)' = d
  BY <1>1, <1>3, BecomesTop
<1> HIDE DEF d
<1>6. InHand = {} /\ InHand' = {c.package}
  BY <1>1, <1>4, <1>5, HandFacts DEF Hands
<1>7. Needed' \subseteq Needed
  BY <1>1, <1>6 DEF Needed, Types
<1>8. Needed' \subseteq Registered'
  BY <1>1, <1>7 DEF KInv, At, Registered
<1>9. Must' \subseteq Must
  BY <1>1, <1>7 DEF Must, Registered
<1>10. Kept(d, TRUE, Must')
  BY <1>1, <1>2, <1>4, <1>9 DEF Kept
<1> QED
  BY <1>1, <1>3, <1>4, <1>8, <1>9, <1>10, BecomesKept

LEMMA StageKept ==
  ASSUME NEW self, Process = {self}, IInv(self), KInv(self), Stage(self)
  PROVE  KInv(self)'
<1> DEFINE c == Top(self)
           d == [c EXCEPT !.step = "truncate"]
<1>1. /\ calls[self] # <<>> /\ c.step = "stage" /\ Becomes(self, d) /\ Types
      /\ \A p \in Package \ {c.package} : installed'[p] = installed[p]
      /\ UNCHANGED <<installed_json, interrupted, forgotten>>
  BY DEF Stage, At, Goto, IInv, Types
<1>2. c \in Calls /\ c \in Frames /\ Fits(c) /\ Kept(c, TRUE, Must)
  BY <1>1, TopOK, TopKept
<1>3. d \in Calls
  BY <1>1, <1>2, StepTyped DEF Steps, Changing, Fits, Frames
<1>4. /\ d.step = "truncate" /\ d.package = c.package /\ d.registry_ = c.registry_
  BY <1>2 DEF Frames
<1>5. calls'[self] # <<>> /\ Top(self)' = d
  BY <1>1, <1>3, BecomesTop
<1> HIDE DEF d
<1>6. InHand = {c.package} /\ InHand' = {c.package}
  BY <1>1, <1>4, <1>5, HandFacts DEF Hands
<1>7. Needed' \subseteq Needed
  BY <1>1, <1>6 DEF Needed
<1>8. Needed' \subseteq Registered'
  BY <1>1, <1>7 DEF KInv, At, Registered
<1>9. Must' \subseteq Must
  BY <1>1, <1>7 DEF Must, Registered
<1>10. Kept(d, TRUE, Must')
  BY <1>1, <1>2, <1>4, <1>9 DEF Kept
<1> QED
  BY <1>1, <1>3, <1>4, <1>8, <1>9, <1>10, BecomesKept

LEMMA TruncateKept ==
  ASSUME NEW self, Process = {self}, IInv(self), KInv(self), Truncate(self)
  PROVE  KInv(self)'
<1> DEFINE c == Top(self)
           d == [c EXCEPT !.registry_ = Changed(c), !.step = "write"]
<1>1. /\ calls[self] # <<>> /\ c.step = "truncate" /\ Becomes(self, d) /\ Types
      /\ UNCHANGED <<installed, interrupted, forgotten>>
  BY DEF Truncate, At, IInv
<1>2. c \in Calls /\ c \in Frames /\ Fits(c) /\ Kept(c, TRUE, Must) /\ Progress(self)
  BY <1>1, TopOK, TopKept
<1>3. /\ d.step = "write" /\ d.package = c.package /\ d.registry_ = Changed(c)
      /\ c.package \in Package /\ c.operation \in {"install", "uninstall"}
      /\ c.registry_ \subseteq Package
  BY <1>1, <1>2 DEF Frames, Fits, Changing
<1>4. d \in Calls
  BY <1>2, <1>3 DEF Calls, Frames, Fits, Steps, Changing, Changed
<1>5. calls'[self] # <<>> /\ Top(self)' = d
  BY <1>1, <1>4, BecomesTop
<1> HIDE DEF d
<1>6. InHand = {c.package} /\ InHand' = {}
  BY <1>1, <1>3, <1>5, HandFacts DEF Hands
<1>7. /\ Needed' \subseteq Needed \cup {c.package}
      /\ c.package \in Bundled => Needed' \subseteq Needed
      /\ c.operation = "uninstall" => Needed' \subseteq Needed \ {c.package}
  <2>1. installed[c.package] = IF c.operation = "install" THEN "complete" ELSE "absent"
    BY <1>1, <1>2 DEF Progress
  <2> QED
    BY <1>1, <1>6, <2>1 DEF Needed
<1>8. Must' = Needed' /\ Needed \subseteq Must
  BY <1>1 DEF Must, Registered, Truncate
<1>9. Kept(d, TRUE, Must')
  BY <1>1, <1>2, <1>3, <1>7, <1>8 DEF Kept, Changed
<1>10. c.package \in Bundled => d.registry_ \ Bundled \subseteq c.registry_
  BY <1>3 DEF Changed
<1> QED
  BY <1>1, <1>3, <1>4, <1>7, <1>8, <1>9, <1>10, BecomesKept

LEMMA WriteKept ==
  ASSUME NEW self, Process = {self}, IInv(self), KInv(self), Write(self)
  PROVE  KInv(self)'
<1> DEFINE c == Top(self)
           d == [c EXCEPT !.step = "returned"]
<1>1. /\ calls[self] # <<>> /\ c.step = "write" /\ Becomes(self, d) /\ Types
      /\ installed_json' = c.registry_ /\ installed' = installed
      /\ interrupted' = interrupted \ {c.package} /\ forgotten' = forgotten \ c.registry_
  BY DEF Write, At, Goto, IInv
<1>2. c \in Calls /\ c \in Frames /\ Fits(c) /\ Kept(c, TRUE, Must) /\ Progress(self)
  BY <1>1, TopOK, TopKept
<1>3. /\ d.step = "returned" /\ d.package = c.package /\ c.package \in Package
      /\ c.operation \in {"install", "uninstall"} /\ c.registry_ \in SUBSET Package
  BY <1>1, <1>2 DEF Frames, Fits, Changing
<1>4. d \in Calls
  BY <1>1, <1>2, StepTyped DEF Steps, Changing, Fits, Frames
<1>5. calls'[self] # <<>> /\ Top(self)' = d
  BY <1>1, <1>4, BecomesTop
<1> HIDE DEF d
<1>6. InHand = {} /\ InHand' = {}
  BY <1>1, <1>3, <1>5, HandFacts DEF Hands
<1>7. /\ c.package \in Bundled => Needed' \subseteq Needed \cup (c.registry_ \ Bundled)
      /\ Needed' \subseteq Needed \cup c.registry_
                        \cup (IF c.operation = "install" THEN {c.package} ELSE {})
  <2>1. installed[c.package] = IF c.operation = "install" THEN "complete" ELSE "absent"
    BY <1>1, <1>2 DEF Progress
  <2> QED
    BY <1>1, <1>3, <1>6, <2>1 DEF Needed
<1>8. Registered' = c.registry_
  BY <1>1, <1>3, TornAssumption DEF Registered
<1>9. Needed' \subseteq Registered'
  <2>1. Needed \subseteq c.registry_ /\ (c.operation = "install" => c.package \in c.registry_)
    BY <1>1, <1>2 DEF Kept, Progress, Must
  <2> QED
    BY <1>7, <1>8, <2>1
<1>10. c.package \in Bundled => Must' \subseteq Must \cup (c.registry_ \ Bundled)
  BY <1>7, <1>8 DEF Must
<1>11. Kept(d, TRUE, Must')
  BY <1>3 DEF Kept
<1>12. d.registry_ = c.registry_
  BY <1>1, <1>2 DEF d, Frames
<1> QED
  BY <1>1, <1>3, <1>4, <1>9, <1>10, <1>11, <1>12, BecomesKept

LEMMA ReturnKept ==
  ASSUME NEW self, Process = {self}, IInv(self), KInv(self), Return(self)
  PROVE  KInv(self)'
<1> DEFINE s == calls[self]
           q == Front(s)
           t == Top(self)
           c == Last(q)
           d == Resumed(c, t)
<1>1. /\ s # <<>> /\ t.step \in {"returned", "failed", "raised"} /\ Types
      /\ calls'[self] = IF q = <<>> THEN <<>> ELSE Append(Front(q), d)
      /\ UNCHANGED <<installed_json, installed, interrupted, forgotten>>
  BY DEF Return, At, IInv, Types
<1>2. /\ s \in Seq(Calls) /\ Keeps(s, Must) /\ Nested(s) /\ Waiting(s)
      /\ t \in Calls /\ t = Last(s) /\ Kept(t, TRUE, Must)
  BY <1>1, TopKept, TopTyped DEF Types, Top
<1>3. InHand = {}
  BY <1>1, HandFacts DEF Hands
<1>4. Needed \subseteq Registered /\ Must \subseteq Registered
  BY <1>1 DEF KInv, At, Must
<1>5. CASE q = <<>>
  <2>1. InHand' = {} /\ calls'[self] = <<>>
    BY <1>1, <1>5, HandFacts
  <2>2. Needed' = Needed /\ Registered' = Registered /\ Must' = Must
    BY <1>1, <1>3, <2>1, QuietKept
  <2>3. Keeps(<<>>, Must) /\ Nested(<<>>)
    BY DEF Keeps, Nested
  <2> QED
    BY <1>4, <2>1, <2>2, <2>3 DEF KInv
<1>6. CASE q # <<>>
  <2>1. c \in Calls /\ Waits(c) /\ (c.step = "build" => Kept(c, TRUE, Must))
        /\ Kept(c, FALSE, Must)
    <3>1. /\ q \in Seq(Calls) /\ Len(q) = Len(s) - 1 /\ Len(s) \in Nat
          /\ \A i \in 1..(Len(s) - 1) : q[i] = s[i]
      BY <1>1, <1>2, FrontFacts, TopFacts
    <3> HIDE DEF s, q
    <3>2. Len(q) \in Nat \ {0} /\ Last(q) = q[Len(q)] /\ Last(q) \in Calls
      BY <1>6, <3>1, TopFacts
    <3>3. Len(q) \in 1..(Len(s) - 1) /\ Len(q) \in 1..Len(s) /\ Len(q) # Len(s)
      BY <3>1, <3>2
    <3>4. Kept(s[Len(q)], Len(q) = Len(s), Must) /\ s[Len(q)] = c
      BY <1>2, <3>1, <3>2, <3>3 DEF Keeps
    <3> QED
      BY <1>2, <3>1, <3>2, <3>3, <3>4 DEF Waiting, Kept
  <2>2. c \in Frames /\ c.step \in {"dependencies", "build"}
        /\ (c.step = "dependencies" => c.left # <<>>)
    BY <2>1 DEF Calls, Waits
  <2>3. q # <<>> => Link(c, t)
    BY <1>1, <1>2, FramesPopped DEF IInv
  <2>4. Progress(self) /\ t \in Frames
    BY <1>1, TopOK
  <2> HIDE DEF s, q, c, t
  <2>5. d \in Calls
    BY <1>1, <1>2, <2>1, ResumedTyped, RegisteredType
  <2>6. ASSUME c.step = "dependencies", t.step = "returned"
        PROVE  /\ Kept(d, TRUE, Must) /\ d.package = c.package /\ d.step \in Quiet
               /\ d.registry_ \subseteq c.registry_ \cup t.registry_
    <3>1. d = [c EXCEPT !.registry_ = Registered, !.left = Tail(@)]
      BY <2>6 DEF Resumed
    <3>2. /\ d.step = c.step /\ d.package = c.package
          /\ d.registry_ = Registered /\ d.left = Tail(c.left)
      BY <2>2, <3>1 DEF Frames
    <3>3. ToSet(c.left) = {Head(c.left)} \cup ToSet(Tail(c.left))
      BY <2>2, <2>6, LeftFacts DEF Frames
    <3>4. Registered = t.registry_
      BY <1>6, <2>6, <2>3, <2>4, TornAssumption DEF Link, Progress, Registered, Frames, t
    <3> HIDE DEF d
    <3> QED
      BY <1>4, <2>1, <2>6, <3>2, <3>3, <3>4 DEF Kept, Paths, Quiet
  <2>7. ASSUME c.step = "dependencies", t.step = "failed"
        PROVE  /\ Kept(d, TRUE, Must) /\ d.package = c.package /\ d.step \in Quiet
               /\ d.registry_ \subseteq c.registry_ \cup t.registry_
    <3>1. d = [c EXCEPT !.step = "failed"]
      BY <2>7 DEF Resumed
    <3>2. d.step = "failed" /\ d.package = c.package /\ d.registry_ = c.registry_
      BY <2>2, <3>1 DEF Frames
    <3> HIDE DEF d
    <3> QED
      BY <3>2 DEF Kept, Quiet
  <2>8. ASSUME c.step = "dependencies", t.step = "raised"
        PROVE  /\ Kept(d, TRUE, Must) /\ d.package = c.package /\ d.step \in Quiet
               /\ d.registry_ \subseteq c.registry_ \cup t.registry_
    <3>1. d = [c EXCEPT !.registry_ = t.registry_, !.left = Tail(@),
                        !.skipped = @ \cup {Head(c.left)}]
      BY <2>8 DEF Resumed
    <3>2. /\ d.step = c.step /\ d.package = c.package
          /\ d.registry_ = t.registry_ /\ d.left = Tail(c.left)
      BY <2>2, <3>1 DEF Frames
    <3>3. ToSet(c.left) = {Head(c.left)} \cup ToSet(Tail(c.left))
      BY <2>2, <2>8, LeftFacts DEF Frames
    <3>4. Must \subseteq t.registry_
      BY <1>2, <2>8 DEF Kept
    <3> HIDE DEF d
    <3> QED
      BY <2>1, <2>8, <3>2, <3>3, <3>4 DEF Kept, Paths, Quiet
  <2>9. ASSUME c.step = "build"
        PROVE  /\ Kept(d, TRUE, Must) /\ d.package = c.package /\ d.step \in Quiet
               /\ d.registry_ \subseteq c.registry_ \cup t.registry_
    <3>1. PICK step \in {"build", "raised"} : d = [c EXCEPT !.step = step]
      BY <2>9 DEF Resumed
    <3>2. /\ d.step = step /\ d.package = c.package /\ d.registry_ = c.registry_
          /\ d.left = c.left
      BY <2>2, <3>1 DEF Frames
    <3> HIDE DEF d
    <3> QED
      BY <2>1, <2>9, <3>2 DEF Kept, Named, Quiet
  <2>10. /\ Kept(d, TRUE, Must) /\ d.package = c.package /\ d.step \in Quiet
         /\ d.registry_ \subseteq c.registry_ \cup t.registry_
    BY <1>1, <2>2, <2>6, <2>7, <2>8, <2>9
  <2> HIDE DEF d
  <2>11. Keeps(Append(Front(q), d), Must) /\ Nested(Append(Front(q), d))
    BY <1>1, <1>2, <1>6, <2>5, <2>10, KeepsResumed DEF c, q, s
  <2>12. Append(Front(q), d) # <<>> /\ Last(Append(Front(q), d)) = d
    <3>1. q \in Seq(Calls)
      BY <1>1, <1>2, FrontFacts DEF q
    <3> QED
      BY <1>6, <2>5, <3>1, Replaced
  <2>13. calls'[self] = Append(Front(q), d)
    BY <1>1, <1>6
  <2>14. calls'[self] # <<>> /\ Top(self)' = d
    BY <2>12, <2>13 DEF Top
  <2>15. InHand' = {}
    BY <2>10, <2>14, HandFacts DEF Hands, Quiet
  <2>16. Needed' = Needed /\ Registered' = Registered /\ Must' = Must
    BY <1>1, <1>3, <2>15, QuietKept
  <2> QED
    BY <1>4, <2>11, <2>13, <2>16 DEF KInv
<1> QED
  BY <1>5, <1>6

(* Nothing that has to be registered gets lost: what was in the middle of a
   change, and what the file listed if it was lost, is excused. *)
LEMMA CutShortKept ==
  ASSUME NEW self, Process = {self}, IInv(self), KInv(self), calls[self] # <<>>,
         Top(self).step \notin {"returned", "failed", "raised"}, CutShort(self), InHand' = {}
  PROVE  Needed' \subseteq Registered' /\ Must' \subseteq Must
<1> DEFINE c == Top(self)
<1>1. InHand = IF c.step \in Hands THEN {c.package} ELSE {}
  BY HandFacts
<1>2. /\ UNCHANGED <<installed_json, installed>>
      /\ interrupted \cup InHand \subseteq interrupted' /\ forgotten \subseteq forgotten'
      /\ c.step = "write" => c.registry_ \subseteq forgotten'
  BY <1>1 DEF CutShort, At, Hands
<1>3. Needed' \subseteq Needed /\ Registered' = Registered
  BY <1>2 DEF Needed, Registered
<1>4. CASE c.step = "write"
  <2>1. Kept(c, TRUE, Must)
    BY TopKept DEF IInv
  <2>2. Needed \subseteq c.registry_
    BY <1>4, <2>1 DEF Kept, Must
  <2>3. Needed' = {}
    BY <1>2, <1>3, <1>4, <2>2 DEF Needed
  <2> QED
    BY <1>3, <2>3 DEF Must
<1>5. CASE c.step # "write"
  <2>1. Needed \subseteq Registered
    BY <1>5 DEF KInv, At
  <2> QED
    BY <1>3, <2>1 DEF Must
<1> QED
  BY <1>4, <1>5

LEMMA RaiseKept ==
  ASSUME NEW self, Process = {self}, IInv(self), KInv(self), Raise(self)
  PROVE  KInv(self)'
<1> DEFINE c == Top(self)
<1>1. /\ calls[self] # <<>> /\ c.step \notin {"returned", "failed", "raised"}
      /\ CutShort(self) /\ Types
  BY DEF Raise, IInv
<1>2. c \in Calls /\ c \in Frames /\ Fits(c) /\ Kept(c, TRUE, Must)
  BY <1>1, TopOK, TopKept
<1>3. PICK registry \in {c.registry_, c.registry_ \cup {c.package}} :
        Becomes(self, [c EXCEPT !.registry_ = registry, !.step = "raised"])
  BY DEF Raise
<1> DEFINE d == [c EXCEPT !.registry_ = registry, !.step = "raised"]
<1>4. registry \in SUBSET Package /\ c.registry_ \subseteq registry
  BY <1>2 DEF Frames
<1>5. /\ d \in Calls /\ d.step = "raised" /\ d.package = c.package /\ d.registry_ = registry
  BY <1>2, <1>4 DEF Calls, Frames, Fits, Steps, Changing
<1>6. Becomes(self, d)
  BY <1>3
<1> HIDE DEF d
<1>7. calls'[self] # <<>> /\ Top(self)' = d
  BY <1>1, <1>5, <1>6, BecomesTop
<1>8. InHand' = {}
  BY <1>5, <1>7, HandFacts DEF Hands
<1>9. Needed' \subseteq Registered' /\ Must' \subseteq Must
  BY <1>1, <1>8, CutShortKept
<1>10. Kept(d, TRUE, Must')
  BY <1>1, <1>2, <1>4, <1>5, <1>9 DEF Kept
<1>11. c.package \in Bundled => d.registry_ \ Bundled \subseteq c.registry_
  BY <1>3, <1>5
<1> QED
  BY <1>1, <1>5, <1>6, <1>9, <1>10, <1>11, BecomesKept

LEMMA CrashKept ==
  ASSUME NEW self, Process = {self}, IInv(self), KInv(self), Crash(self)
  PROVE  KInv(self)'
<1> DEFINE c == Top(self)
<1>1. calls[self] # <<>> /\ calls'[self] = <<>> /\ CutShort(self)
  BY DEF Crash, IInv, Types
<1>2. InHand' = {}
  BY <1>1, HandFacts
<1>3. Needed' \subseteq Registered'
  <2>1. CASE c.step \in {"returned", "failed", "raised"}
    <3>1. InHand = {} /\ Needed \subseteq Registered
      BY <1>1, <2>1, HandFacts DEF Hands, KInv, At
    <3>2. Needed' \subseteq Needed /\ Registered' = Registered
      BY <1>1, <3>1 DEF CutShort, Needed, Registered
    <3> QED
      BY <3>1, <3>2
  <2> QED
    BY <1>1, <1>2, <2>1, CutShortKept
<1>4. Keeps(<<>>, Must') /\ Nested(<<>>)
  BY DEF Keeps, Nested
<1> QED
  BY <1>1, <1>3, <1>4 DEF KInv

LEMMA InitKInv == ASSUME NEW self, Process = {self} PROVE Init => KInv(self)
<1> SUFFICES ASSUME Init PROVE KInv(self)
  OBVIOUS
<1>1. calls[self] = <<>> /\ Needed = {}
  BY DEF Init, Needed
<1>2. Keeps(<<>>, Must) /\ Nested(<<>>)
  BY DEF Keeps, Nested
<1> QED
  BY <1>1, <1>2 DEF KInv

LEMMA NextKInv ==
  ASSUME NEW self, Process = {self}, BundledClosed
  PROVE  IInv(self) /\ KInv(self) /\ [Next]_vars => KInv(self)'
<1> SUFFICES ASSUME IInv(self), KInv(self), [Next]_vars PROVE KInv(self)'
  OBVIOUS
<1>1. CASE UNCHANGED vars
  <2>1. InHand' = InHand
    BY <1>1 DEF InHand, At, Top, vars
  <2>2. Needed' = Needed /\ Registered' = Registered /\ Must' = Must
    BY <1>1, <2>1 DEF vars, Needed, Registered, Must
  <2>3. At(self, "write")' <=> At(self, "write")
    BY <1>1 DEF vars, At, Top
  <2> QED
    BY <1>1, <2>2, <2>3 DEF vars, KInv
<1>2. CASE Start(self) \/ Work(self) \/ Raise(self) \/ Crash(self)
  BY <1>2, StartKept, CheckKept, InstallDependencyKept, FindLibraryKept, BuildKept,
     ClearKept, StageKept, TruncateKept, WriteKept, ReturnKept, RaiseKept,
     CrashKept DEF Work, IInv
<1> QED
  BY <1>1, <1>2 DEF Next

(* Between commands, what is installed is registered, but for what a change
   left that was cut short, what a file had listed that was lost when it was
   written, and bundled libraries: while one command runs at a time, and if
   bundled libraries have no paths to others, whose registration would be lost
   with theirs. *)
THEOREM InstalledAreRegistered ==
  ASSUME NEW self, Process = {self}, BundledClosed
  PROVE  Spec => []InstalledIsRegistered
<1>1. ASSUME KInv(self), Idle
      PROVE  \A p \in Package \ (Bundled \cup interrupted \cup forgotten) :
               installed[p] = "complete" => p \in Registered
  <2>1. calls[self] = <<>>
    BY <1>1 DEF Idle
  <2>2. InHand = {} /\ Needed \subseteq Registered
    BY <1>1, <2>1, HandFacts DEF KInv, At
  <2> QED
    BY <2>2 DEF Needed
<1>2. KInv(self) => InstalledIsRegistered
  BY <1>1 DEF InstalledIsRegistered
<1> QED
  BY <1>2, InitIInv, NextIInv, InitKInv, NextKInv, PTL DEF Spec
=============================================================================
