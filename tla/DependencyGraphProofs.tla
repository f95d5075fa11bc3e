----------------------- MODULE DependencyGraphProofs -----------------------
(***************************************************************************)
(* Proofs about DependencyGraph, for every set of manifests, of any size.  *)
(***************************************************************************)
EXTENDS DependencyGraph, FiniteSetTheorems, FunctionTheorems, SequenceTheorems,
        WellFoundedInduction, TLAPS

Requirements == [to : DOMAIN project \cup {Missing}, profile : Nat]
Activations == [of : Candidates, todo : Seq(Requirements \X BOOLEAN)]

(* The variables that discovery uses have their types. *)
Types ==
  /\ project \in Projects
  /\ visited_manifests \subseteq DOMAIN project
  /\ stack \in Seq(Activations)
  /\ discovered_projects \in Seq(Candidates)

(* What is being discovered, or has been, was visited, and is so once. *)
Guarded ==
  /\ \A i \in 1..Len(stack) : stack[i].of.manifest \in visited_manifests
  /\ \A i \in 1..Len(discovered_projects) :
       discovered_projects[i].manifest \in visited_manifests
  /\ \A i, j \in 1..Len(stack) :
       stack[i].of.manifest = stack[j].of.manifest => i = j
  /\ \A i, j \in 1..Len(discovered_projects) :
       discovered_projects[i].manifest = discovered_projects[j].manifest => i = j
  /\ \A i \in 1..Len(stack), j \in 1..Len(discovered_projects) :
       stack[i].of.manifest # discovered_projects[j].manifest

IInv == Types /\ Guarded

-----------------------------------------------------------------------------
(* Manifests. *)

(* The first of a set of profiles. *)
LEMMA LeastProfile ==
  ASSUME NEW S \in SUBSET Nat, S # {}
  PROVE  Min(S) \in S
<1> DEFINE R == {ss \in Nat \X Nat : ss[1] < ss[2]}
<1>1. IsWellFoundedOn(R, Nat)
  BY NatLessThanWellFounded DEF OpToRel
<1>2. \A x \in Nat, y \in Nat : <<y, x>> \notin R => x <= y
  OBVIOUS
<1> HIDE DEF R
<1>3. PICK x \in S : \A y \in S : <<y, x>> \notin R
  BY <1>1, WFMin
<1>4. x \in Nat /\ \A y \in S : y \in Nat
  OBVIOUS
<1>5. \A y \in S : x <= y
  BY <1>2, <1>3, <1>4
<1> QED
  BY <1>3, <1>5 DEF Min

(* A profile that is inherited is a profile, or none. *)
LEMMA InheritedProfile ==
  ASSUME NEW m, project \in Projects, m \in DOMAIN project, NEW parent \in Nat
  PROVE  Inherited(project[m], parent) \in Nat
<1>1. project[m].profiles \in SUBSET Nat
  BY ProjectAssumption DEF Profile
<1>2. CASE project[m].profiles = {}
  BY <1>2 DEF Inherited
<1>3. CASE project[m].profiles # {}
  <2>1. Min(project[m].profiles) \in Nat
    BY <1>1, <1>3, LeastProfile
  <2> QED
    BY <1>1, <1>3, <2>1, ProfileAssumption DEF Inherited, Profile
<1> QED
  BY <1>2, <1>3

(* What is left to do in a project are requirements. *)
LEMMA TodoType ==
  ASSUME NEW m, project \in Projects, m \in DOMAIN project,
         NEW profile, NEW override \in BOOLEAN
  PROVE  Todo(project[m], profile, override) \in Seq(Requirements \X BOOLEAN)
<1> DEFINE T == Requirements \X BOOLEAN
<1>1. \A ds \in Seq(Requirements), b \in BOOLEAN : Marked(ds, b) \in Seq(T)
  BY DEF Marked
<1>2. /\ project[m].dependencies \in Seq(Requirements)
      /\ profile \in project[m].profiles => project[m].additional[profile] \in Seq(Requirements)
  BY ProjectAssumption DEF Requirements
<1> HIDE DEF T
<1>3. Marked(project[m].dependencies, FALSE) \in Seq(T)
  BY <1>1, <1>2
<1>4. profile \in project[m].profiles =>
        Marked(project[m].additional[profile], override) \in Seq(T)
  BY <1>1, <1>2
<1>5. \A a \in Seq(T), b \in Seq(T) : a \o b \in Seq(T)
  BY ConcatProperties
<1>6. <<>> \in Seq(T)
  OBVIOUS
<1>7. Todo(project[m], profile, override) \in Seq(T)
  BY <1>3, <1>4, <1>5, <1>6 DEF Todo
<1> QED
  BY <1>7 DEF T

-----------------------------------------------------------------------------
(* The activation that is running. *)

(* Returning drops it. *)
LEMMA FrontFacts ==
  ASSUME NEW S, NEW s \in Seq(S), s # <<>>
  PROVE  /\ Front(s) \in Seq(S) /\ Len(Front(s)) = Len(s) - 1
         /\ \A i \in 1..(Len(s) - 1) : Front(s)[i] = s[i]
<1> DEFINE m == Len(s) - 1
<1>1. Len(s) \in Nat /\ m \in Nat /\ \A i \in 1..m : s[i] \in S
  OBVIOUS
<1>2. Front(s) = SubSeq(s, 1, m)
  BY DEF Front
<1>3. /\ SubSeq(s, 1, m) \in Seq(S)
      /\ Len(SubSeq(s, 1, m)) = IF 1 <= m THEN m - 1 + 1 ELSE 0
      /\ \A i \in 1..(m - 1 + 1) : SubSeq(s, 1, m)[i] = s[1 + i - 1]
  <2> HIDE DEF m
  <2> QED
    BY <1>1, SubSeqProperties
<1>4. Len(SubSeq(s, 1, m)) = m
  <2> HIDE DEF m
  <2> QED
    BY <1>1, <1>3
<1>5. ASSUME NEW i \in 1..(Len(s) - 1) PROVE SubSeq(s, 1, m)[i] = s[i]
  <2>1. i \in 1..(m - 1 + 1) /\ 1 + i - 1 = i
    BY <1>1
  <2>2. SubSeq(s, 1, m)[i] = s[1 + i - 1]
    BY <1>3, <2>1
  <2> QED
    BY <2>1, <2>2, Zenon
<1> QED
  BY <1>2, <1>3, <1>4, <1>5, Zenon

(* It can be popped, which changes no candidate. *)
LEMMA Running ==
  ASSUME Types, Discovering
  PROVE  /\ Len(stack) \in Nat \ {0} /\ stack[Len(stack)] = Top /\ Top \in Activations
         /\ Dependency \in Requirements \X BOOLEAN
         /\ Popped(stack) \in Seq(Activations) /\ Len(Popped(stack)) = Len(stack)
         /\ \A i \in 1..Len(stack) : Popped(stack)[i].of = stack[i].of
<1> DEFINE n == Len(stack)
           T == Requirements \X BOOLEAN
<1>1. stack \in Seq(Activations) /\ stack # <<>>
  BY DEF Types, Discovering
<1>2. n \in Nat \ {0} /\ stack[n] = Top /\ Top \in Activations
  BY <1>1 DEF Top, Last
<1>3. Top.of \in Candidates /\ Top.todo \in Seq(T) /\ Top.todo # <<>>
  BY <1>2 DEF Activations, Discovering
<1>4. Dependency \in T /\ Tail(Top.todo) \in Seq(T)
  BY <1>3, HeadTailProperties DEF Dependency
<1>5. Popped(stack) = [stack EXCEPT ![n] = [Top EXCEPT !.todo = Tail(Top.todo)]]
  BY <1>1, <1>2 DEF Popped
<1>6. [Top EXCEPT !.todo = Tail(Top.todo)] \in Activations
  BY <1>2, <1>4 DEF Activations
<1>7. Popped(stack) \in Seq(Activations) /\ Len(Popped(stack)) = n
  BY <1>1, <1>2, <1>5, <1>6
<1>8. \A i \in 1..n : Popped(stack)[i].of = stack[i].of
  BY <1>1, <1>2, <1>5 DEF Activations
<1> QED
  BY <1>2, <1>4, <1>7, <1>8

-----------------------------------------------------------------------------
(* One lemma for each action that discovers. *)

LEMMA InitGuarded ==
  Init => IInv
<1> SUFFICES ASSUME Init PROVE IInv
  OBVIOUS
<1>1. project \in Projects /\ Root \in DOMAIN project
  BY ProjectAssumption DEF Init
<1>2. Active \in Nat
  BY ProfileAssumption DEF Profile
<1>3. Todo(project[Root], Active, TRUE) \in Seq(Requirements \X BOOLEAN)
  BY <1>1, TodoType
<1>4. Candidate(Root, Active, TRUE) \in Candidates
  BY <1>1, <1>2 DEF Candidate, Candidates
<1>5. stack \in Seq(Activations) /\ Len(stack) = 1 /\ stack[1].of.manifest = Root
  <2> DEFINE first == [of |-> Candidate(Root, Active, TRUE),
                       todo |-> Todo(project[Root], Active, TRUE)]
  <2>1. first \in Activations /\ first.of.manifest = Root
    BY <1>3, <1>4 DEF Activations, Candidate
  <2>2. stack = <<first>>
    BY DEF Init
  <2> HIDE DEF first
  <2> QED
    BY <2>1, <2>2
<1>6. discovered_projects \in Seq(Candidates) /\ Len(discovered_projects) = 0
  BY DEF Init
<1>7. visited_manifests = {Root}
  BY DEF Init
<1> QED
  BY <1>1, <1>5, <1>6, <1>7 DEF IInv, Types, Guarded

(* A candidate that adopts a profile keeps its manifest. *)
LEMMA VisitAgainGuarded ==
  IInv /\ VisitAgain => IInv'
<1> SUFFICES ASSUME IInv, VisitAgain PROVE IInv'
  OBVIOUS
<1> DEFINE d == Dependency[1]
           n == Len(stack)
           N == 1..Len(discovered_projects)
<1>1. Types /\ Discovering
  BY DEF IInv, VisitAgain
<1>2. /\ n \in Nat /\ stack' \in Seq(Activations) /\ Len(stack') = n
      /\ \A i \in 1..n : stack'[i].of = stack[i].of
  BY <1>1, Running DEF VisitAgain
<1>3. d.to \in DOMAIN project /\ d.profile \in Nat
  BY <1>1, Running DEF VisitAgain, Types, Requirements
<1>4. Candidate(d.to, d.profile, TRUE) \in Candidates
  BY <1>3 DEF Candidate, Candidates
<1>5. Candidate(d.to, d.profile, TRUE).manifest = d.to
  BY DEF Candidate
<1>6. discovered_projects \in Seq(Candidates) /\ DOMAIN discovered_projects = N
  BY <1>1 DEF Types
<1>7. /\ DOMAIN discovered_projects' = N
      /\ \A i \in N :
           \/ discovered_projects'[i] = discovered_projects[i]
           \/ /\ discovered_projects[i].manifest = d.to
              /\ discovered_projects'[i] = Candidate(d.to, d.profile, TRUE)
      /\ discovered_projects' = [i \in N |-> discovered_projects'[i]]
  BY <1>6 DEF VisitAgain, Adopts
<1>8. /\ \A i \in N : discovered_projects'[i].manifest = discovered_projects[i].manifest
      /\ \A i \in N : discovered_projects'[i] \in Candidates
  <2>1. \A i \in N : discovered_projects[i] \in Candidates
    BY <1>6
  <2> QED
    BY <1>4, <1>5, <1>7, <2>1
<1>9. discovered_projects' \in Seq(Candidates)
      /\ Len(discovered_projects') = Len(discovered_projects)
  BY <1>6, <1>7, <1>8
<1>10. Activations' = Activations /\ Candidates' = Candidates
  BY DEF VisitAgain, Activations, Candidates, Requirements
<1>11. Types'
  BY <1>1, <1>2, <1>9, <1>10 DEF Types, VisitAgain
<1>12. visited_manifests' = visited_manifests
  BY DEF VisitAgain
<1>13. Guarded'
  <2>1. /\ \A i \in 1..n : stack'[i].of.manifest \in visited_manifests
        /\ \A i, j \in 1..n : stack'[i].of.manifest = stack'[j].of.manifest => i = j
    BY <1>2 DEF IInv, Guarded
  <2>2. /\ \A i \in N : discovered_projects'[i].manifest \in visited_manifests
        /\ \A i, j \in N :
             discovered_projects'[i].manifest = discovered_projects'[j].manifest => i = j
    BY <1>8 DEF IInv, Guarded
  <2>3. \A i \in 1..n, j \in N :
          stack'[i].of.manifest # discovered_projects'[j].manifest
    BY <1>2, <1>8 DEF IInv, Guarded
  <2> QED
    BY <1>2, <1>9, <1>12, <2>1, <2>2, <2>3 DEF Guarded
<1> QED
  BY <1>11, <1>13 DEF IInv

(* The new activation is of a manifest that was not visited. *)
LEMMA EnterGuarded ==
  IInv /\ Enter => IInv'
<1> SUFFICES ASSUME IInv, Enter PROVE IInv'
  OBVIOUS
<1> DEFINE d == Dependency[1]
           n == Len(stack)
           p == project[d.to]
           profile == IF d.profile # 0 THEN d.profile
                                       ELSE Inherited(p, Top.of.selected_profile)
           new == [of |-> Candidate(d.to, profile, d.profile # 0),
                   todo |-> Todo(p, profile, FALSE)]
<1>1. Types /\ Discovering
  BY DEF IInv, Enter
<1>2. /\ n \in Nat /\ Popped(stack) \in Seq(Activations) /\ Len(Popped(stack)) = n
      /\ \A i \in 1..n : Popped(stack)[i].of = stack[i].of
  BY <1>1, Running
<1>3. d.to \in DOMAIN project /\ d.profile \in Nat /\ project \in Projects
  BY <1>1, Running DEF Enter, Acceptable, Types, Requirements
<1>4. Top.of.selected_profile \in Nat
  BY <1>1, Running DEF Activations, Candidates
<1>5. profile \in Nat
  BY <1>3, <1>4, InheritedProfile
<1>6. Todo(p, profile, FALSE) \in Seq(Requirements \X BOOLEAN)
  BY <1>3, TodoType
<1>7. stack' = Append(Popped(stack), new)
  BY DEF Enter
<1> HIDE DEF profile
<1>8. Candidate(d.to, profile, d.profile # 0) \in Candidates
      /\ Candidate(d.to, profile, d.profile # 0).manifest = d.to
  BY <1>3, <1>5 DEF Candidate, Candidates
<1>9. new \in Activations /\ new.of.manifest = d.to
  BY <1>6, <1>8 DEF Activations
<1> HIDE DEF new
<1>10. /\ stack' \in Seq(Activations) /\ Len(stack') = n + 1
       /\ \A i \in 1..n : stack'[i].of = stack[i].of
       /\ stack'[n + 1].of.manifest = d.to
  BY <1>2, <1>7, <1>9, AppendProperties
<1>11. Activations' = Activations /\ Candidates' = Candidates
  BY DEF Enter, Activations, Candidates, Requirements
<1>12. visited_manifests' = visited_manifests \cup {d.to} /\ d.to \notin visited_manifests
       /\ discovered_projects' = discovered_projects /\ project' = project
  BY DEF Enter, Visited
<1>13. Types'
  BY <1>1, <1>3, <1>10, <1>11, <1>12 DEF Types
<1>14. Guarded'
  <2>1. \A i \in 1..(n + 1) : i \in 1..n \/ i = n + 1
    BY <1>2
  <2>2. \A i \in 1..n : stack'[i].of.manifest # d.to
    BY <1>10, <1>12 DEF IInv, Guarded
  <2>3. \A i \in 1..(n + 1) : stack'[i].of.manifest \in visited_manifests'
    BY <1>10, <1>12, <2>1 DEF IInv, Guarded
  <2>4. \A i, j \in 1..(n + 1) :
          stack'[i].of.manifest = stack'[j].of.manifest => i = j
    BY <1>10, <2>1, <2>2 DEF IInv, Guarded
  <2>5. /\ \A i \in 1..Len(discovered_projects) :
             discovered_projects[i].manifest \in visited_manifests
        /\ \A i, j \in 1..Len(discovered_projects) :
             discovered_projects[i].manifest = discovered_projects[j].manifest => i = j
    BY DEF IInv, Guarded
  <2>6. \A i \in 1..(n + 1), j \in 1..Len(discovered_projects) :
          stack'[i].of.manifest # discovered_projects[j].manifest
    <3>1. \A i \in 1..n, j \in 1..Len(discovered_projects) :
            stack'[i].of.manifest # discovered_projects[j].manifest
      BY <1>10 DEF IInv, Guarded
    <3>2. \A j \in 1..Len(discovered_projects) : discovered_projects[j].manifest # d.to
      BY <1>12, <2>5
    <3> QED
      BY <1>10, <2>1, <3>1, <3>2
  <2> HIDE DEF n
  <2> QED
    BY <1>10, <1>12, <2>3, <2>4, <2>5, <2>6 DEF Guarded
<1> QED
  BY <1>13, <1>14 DEF IInv

(* What was on top of the stack becomes the last candidate. *)
LEMMA LeaveGuarded ==
  IInv /\ Leave => IInv'
<1> SUFFICES ASSUME IInv, Leave PROVE IInv'
  OBVIOUS
<1> DEFINE n == Len(stack)
           k == Len(discovered_projects)
<1>1. Types /\ stack # <<>>
  BY DEF IInv, Leave
<1>2. n \in Nat \ {0} /\ k \in Nat /\ stack[n] = Top /\ Top.of \in Candidates
  <2>1. stack \in Seq(Activations) /\ k \in Nat
    BY <1>1 DEF Types
  <2>2. n \in Nat \ {0} /\ stack[n] \in Activations
    BY <1>1, <2>1
  <2> QED
    BY <2>1, <2>2 DEF Top, Last, Activations
<1>3. stack' \in Seq(Activations) /\ Len(stack') = n - 1
      /\ \A i \in 1..(n - 1) : stack'[i] = stack[i]
  <2>1. stack \in Seq(Activations) /\ stack # <<>> /\ stack' = Front(stack)
    BY <1>1 DEF Types, Leave
  <2> QED
    BY <2>1, FrontFacts
<1>4. /\ discovered_projects' \in Seq(Candidates) /\ Len(discovered_projects') = k + 1
      /\ \A i \in 1..k : discovered_projects'[i] = discovered_projects[i]
      /\ discovered_projects'[k + 1] = Top.of
  <2>1. discovered_projects \in Seq(Candidates)
        /\ discovered_projects' = Append(discovered_projects, Top.of)
    BY <1>1 DEF Types, Leave
  <2> QED
    BY <1>2, <2>1, AppendProperties
<1>5. Activations' = Activations /\ Candidates' = Candidates
      /\ visited_manifests' = visited_manifests /\ project' = project
  BY DEF Leave, Activations, Candidates, Requirements
<1>6. Types'
  BY <1>1, <1>3, <1>4, <1>5 DEF Types
<1>7. Guarded'
  <2>1. /\ \A i \in 1..(n - 1) : i \in 1..n /\ i # n
        /\ \A i \in 1..(k + 1) : i \in 1..k \/ i = k + 1
        /\ n \in 1..n
    BY <1>2
  <2>2. /\ Top.of.manifest \in visited_manifests
        /\ \A i \in 1..k : discovered_projects[i].manifest # Top.of.manifest
        /\ \A i \in 1..(n - 1) : stack[i].of.manifest # Top.of.manifest
    BY <1>2, <2>1 DEF IInv, Guarded
  <2>3. /\ \A i \in 1..(n - 1) : stack'[i].of.manifest \in visited_manifests
        /\ \A i \in 1..(k + 1) : discovered_projects'[i].manifest \in visited_manifests
    BY <1>3, <1>4, <2>1, <2>2 DEF IInv, Guarded
  <2>4. \A i, j \in 1..(n - 1) :
          stack'[i].of.manifest = stack'[j].of.manifest => i = j
    BY <1>3, <2>1 DEF IInv, Guarded
  <2>5. \A i, j \in 1..(k + 1) :
          discovered_projects'[i].manifest = discovered_projects'[j].manifest => i = j
    BY <1>4, <2>1, <2>2 DEF IInv, Guarded
  <2>6. \A i \in 1..(n - 1), j \in 1..(k + 1) :
          stack'[i].of.manifest # discovered_projects'[j].manifest
    <3>1. \A i \in 1..(n - 1), j \in 1..k :
            stack[i].of.manifest # discovered_projects[j].manifest
      BY <2>1 DEF IInv, Guarded
    <3> HIDE DEF n, k
    <3> QED
      BY <1>3, <1>4, <2>1, <2>2, <3>1
  <2> HIDE DEF n, k
  <2> QED
    BY <1>3, <1>4, <1>5, <2>3, <2>4, <2>5, <2>6 DEF Guarded
<1> QED
  BY <1>6, <1>7 DEF IInv

-----------------------------------------------------------------------------
(* IInv holds in every reachable state: the guard that resolve_graph sets
   before it looks at dependencies is enough, whatever the manifests are. *)
THEOREM Invariance ==
  Spec => []IInv
<1>1. IInv /\ [Next]_vars => IInv'
  <2> SUFFICES ASSUME IInv, [Next]_vars PROVE IInv'
    OBVIOUS
  <2>1. CASE UNCHANGED <<project, walk>>
    BY <2>1 DEF walk, IInv, Types, Guarded, Activations, Candidates, Requirements
  <2>2. CASE VisitAgain
    BY <2>2, VisitAgainGuarded
  <2>3. CASE Enter
    BY <2>3, EnterGuarded
  <2>4. CASE Leave
    BY <2>4, LeaveGuarded
  <2>5. CASE Refuse
    BY <2>1, <2>5 DEF Refuse
  <2>6. CASE Select
    BY <2>1, <2>6 DEF Select
  <2>7. CASE Incompatible
    BY <2>1, <2>7 DEF Incompatible
  <2>8. CASE UNCHANGED vars
    BY <2>1, <2>8 DEF vars
  <2> QED
    BY <2>2, <2>3, <2>4, <2>5, <2>6, <2>7, <2>8 DEF Next
<1> QED
  BY InitGuarded, <1>1, PTL DEF Spec

(* Resolution never recurses without end: of the manifests in any graph,
   cyclic or not, none is being discovered twice, becomes a candidate twice,
   or is discovered again when it is a candidate. *)
THEOREM NeverRecursive ==
  Spec => []NoRecursion
<1>1. IInv => NoRecursion
  <2> SUFFICES ASSUME IInv PROVE NoRecursion
    OBVIOUS
  <2> DEFINE active == [i \in DOMAIN stack |-> stack[i].of.manifest]
  <2>1. DOMAIN stack = 1..Len(stack) /\ DOMAIN discovered_projects = 1..Len(discovered_projects)
    BY DEF IInv, Types
  <2>2. IsInjective(active)
    BY <2>1 DEF IInv, Guarded, IsInjective
  <2>3. IsInjective([i \in DOMAIN discovered_projects |-> discovered_projects[i].manifest])
    BY <2>1 DEF IInv, Guarded, IsInjective
  <2>4. ToSet(active) \cap {c.manifest : c \in ToSet(discovered_projects)} = {}
    BY <2>1 DEF IInv, Guarded, ToSet
  <2> QED
    BY <2>2, <2>3, <2>4 DEF NoRecursion
<1> QED
  BY Invariance, <1>1, PTL

-----------------------------------------------------------------------------
(* Why resolution fails. *)

(* What an activation has to do, and what is left of it. *)
Wanted(c) == Asked(c.manifest, c.selected_profile)
Pending == \A i \in 1..Len(stack) : stack[i].todo \in Seq(Wanted(stack[i].of) \X BOOLEAN)

LEMMA AskedInSome ==
  ASSUME NEW m, NEW profile
  PROVE  Asked(m, profile) \subseteq AskedOf(m)
<1>1. CASE profile \in project[m].profiles
  BY <1>1 DEF AskedOf
<1>2. CASE profile \notin project[m].profiles
  <2>1. Asked(m, profile) \subseteq Asked(m, 0)
    BY <1>2 DEF Asked
  <2> QED
    BY <2>1 DEF AskedOf
<1> QED
  BY <1>1, <1>2

(* What is left to do when a project is entered. *)
LEMMA TodoAsked ==
  ASSUME NEW m, project \in Projects, m \in DOMAIN project,
         NEW profile, NEW override \in BOOLEAN
  PROVE  Todo(project[m], profile, override) \in Seq(Asked(m, profile) \X BOOLEAN)
<1> DEFINE A == Asked(m, profile)
           T == A \X BOOLEAN
<1>1. \A ds \in Seq(A), b \in BOOLEAN : Marked(ds, b) \in Seq(T)
  <2> HIDE DEF A
  <2> QED
    BY DEF Marked
<1>2. project[m].dependencies \in Seq(A)
  <2>2. ToSet(project[m].dependencies) \subseteq A
    BY DEF Asked
  <2>3. project[m].dependencies \in Seq([to : DOMAIN project \cup {Missing}, profile : Nat])
    BY ProjectAssumption
  <2> HIDE DEF A
  <2> QED
    BY <2>2, <2>3 DEF ToSet
<1>3. profile \in project[m].profiles => project[m].additional[profile] \in Seq(A)
  <2> SUFFICES ASSUME profile \in project[m].profiles
               PROVE  project[m].additional[profile] \in Seq(A)
    OBVIOUS
  <2>2. ToSet(project[m].additional[profile]) \subseteq A
    BY DEF Asked
  <2>3. project[m].additional[profile] \in Seq([to : DOMAIN project \cup {Missing}, profile : Nat])
    BY ProjectAssumption
  <2> HIDE DEF A
  <2> QED
    BY <2>2, <2>3 DEF ToSet
<1> HIDE DEF A
<1>4. \A a \in Seq(T), b \in Seq(T) : a \o b \in Seq(T)
  BY ConcatProperties
<1>5. Marked(project[m].dependencies, FALSE) \in Seq(T)
  BY <1>1, <1>2, Zenon
<1>6. profile \in project[m].profiles =>
        Marked(project[m].additional[profile], override) \in Seq(T)
  BY <1>1, <1>3
<1> HIDE DEF T
<1>7. <<>> \in Seq(T)
  OBVIOUS
<1>8. Todo(project[m], profile, override) \in Seq(T)
  BY <1>4, <1>5, <1>6, <1>7 DEF Todo
<1> QED
  BY <1>8 DEF T, A

(* Popping leaves less to do. *)
LEMMA PoppedPending ==
  ASSUME Types, Discovering, Pending
  PROVE  /\ Dependency[1] \in Wanted(Top.of)
         /\ \A i \in 1..Len(stack) :
              Popped(stack)[i].todo \in Seq(Wanted(stack[i].of) \X BOOLEAN)
<1> DEFINE n == Len(stack)
           T == Wanted(Top.of) \X BOOLEAN
<1>1. n \in Nat \ {0} /\ stack[n] = Top /\ stack \in Seq(Activations)
  BY Running DEF Types
<1>2. Top.todo \in Seq(T) /\ Top.todo # <<>>
  BY <1>1 DEF Pending, Discovering
<1>3. Dependency \in T /\ Tail(Top.todo) \in Seq(T)
  <2> HIDE DEF T
  <2> QED
    BY <1>2, HeadTailProperties DEF Dependency
<1>4. /\ Popped(stack)[n].todo = Tail(Top.todo)
      /\ \A i \in 1..n : i # n => Popped(stack)[i] = stack[i]
  BY <1>1 DEF Popped, Activations
<1>5. \A i \in 1..n : Popped(stack)[i].todo \in Seq(Wanted(stack[i].of) \X BOOLEAN)
  BY <1>1, <1>3, <1>4 DEF Pending
<1> QED
  BY <1>3, <1>5

LEMMA PendingStep ==
  IInv /\ Pending /\ [Next]_vars => Pending'
<1> SUFFICES ASSUME IInv, Pending, [Next]_vars PROVE Pending'
  OBVIOUS
<1>1. Types
  BY DEF IInv
<1>2. project' = project => \A c : Wanted(c)' = Wanted(c)
  BY DEF Wanted, Asked
<1>3. CASE UNCHANGED <<project, walk>>
  BY <1>2, <1>3 DEF walk, Pending
<1>4. CASE VisitAgain
  <2>1. Discovering /\ stack' = Popped(stack) /\ project' = project
    BY <1>4 DEF VisitAgain
  <2>2. Len(stack') = Len(stack) /\ \A i \in 1..Len(stack) : stack'[i].of = stack[i].of
    BY <1>1, <2>1, Running
  <2> QED
    BY <1>1, <1>2, <2>1, <2>2, PoppedPending DEF Pending
<1>5. CASE Enter
  <2> DEFINE d == Dependency[1]
             n == Len(stack)
  <2>1. Discovering /\ project' = project
    BY <1>5 DEF Enter
  <2>2. d.to \in DOMAIN project /\ project \in Projects
    BY <1>1, <1>5, Running DEF Enter, Acceptable, Types, Requirements
  <2>3. PICK profile, explicit : stack' = Append(Popped(stack),
                [of |-> Candidate(d.to, profile, explicit),
                 todo |-> Todo(project[d.to], profile, FALSE)])
    BY <1>5 DEF Enter
  <2> DEFINE new == [of |-> Candidate(d.to, profile, explicit),
                     todo |-> Todo(project[d.to], profile, FALSE)]
  <2>4. new.todo \in Seq(Wanted(new.of) \X BOOLEAN)
    BY <2>2, TodoAsked DEF Candidate, Wanted
  <2>5. stack' = Append(Popped(stack), new)
    BY <2>3
  <2> HIDE DEF new
  <2>6. n \in Nat /\ Popped(stack) \in Seq(Activations) /\ Len(Popped(stack)) = n
        /\ \A i \in 1..n : Popped(stack)[i].of = stack[i].of
    BY <1>1, <2>1, Running
  <2>7. /\ Len(stack') = n + 1 /\ stack'[n + 1] = new
        /\ \A i \in 1..n : stack'[i] = Popped(stack)[i]
    BY <2>5, <2>6
  <2>8. \A i \in 1..n : stack'[i].todo \in Seq(Wanted(stack'[i].of) \X BOOLEAN)
    BY <1>1, <2>1, <2>6, <2>7, PoppedPending
  <2>9. \A i \in 1..(n + 1) : i \in 1..n \/ i = n + 1
    BY <2>6
  <2> QED
    BY <1>2, <2>1, <2>4, <2>7, <2>8, <2>9 DEF Pending
<1>6. CASE Leave
  <2>1. stack \in Seq(Activations) /\ stack # <<>> /\ stack' = Front(stack) /\ project' = project
    BY <1>1, <1>6 DEF Types, Leave
  <2>2. Len(stack) \in Nat /\ Len(stack') = Len(stack) - 1
        /\ \A i \in 1..(Len(stack) - 1) : stack'[i] = stack[i] /\ i \in 1..Len(stack)
    BY <2>1, FrontFacts
  <2> QED
    BY <1>2, <2>1, <2>2 DEF Pending
<1> QED
  BY <1>3, <1>4, <1>5, <1>6 DEF Next, Refuse, Select, Incompatible, vars

LEMMA InitPending ==
  Init => Pending
<1> SUFFICES ASSUME Init PROVE Pending
  OBVIOUS
<1>1. project \in Projects /\ Root \in DOMAIN project
  BY ProjectAssumption DEF Init
<1>2. Todo(project[Root], Active, TRUE) \in Seq(Asked(Root, Active) \X BOOLEAN)
  BY <1>1, TodoAsked
<1>3. /\ Len(stack) = 1 /\ stack[1].todo = Todo(project[Root], Active, TRUE)
      /\ Wanted(stack[1].of) = Asked(Root, Active)
  BY DEF Init, Candidate, Wanted
<1>4. \A i \in 1..Len(stack) : i = 1
  BY <1>3
<1> QED
  BY <1>2, <1>3, <1>4, Zenon DEF Pending

(* An error has its reason in a manifest that was reached: either something
   it may ask for is not acceptable, or two of one name differ in the major
   version.  Nothing else makes resolve_graph fail. *)
THEOREM FailureHasReason ==
  Spec => []FailsForAReason
<1>1. Init => Pending /\ FailsForAReason
  BY InitPending DEF Init, FailsForAReason
<1>2. IInv /\ Pending /\ FailsForAReason /\ [Next]_vars => FailsForAReason'
  <2> SUFFICES ASSUME IInv, Pending, FailsForAReason, [Next]_vars
               PROVE  FailsForAReason'
    OBVIOUS
  <2> DEFINE unacceptable ==
               \E m \in visited_manifests : \E p \in project[m].profiles \cup {0} :
                 \E d \in Asked(m, p) : ~Acceptable(d)
             incompatible ==
               \E m, n \in visited_manifests :
                 /\ project[m].name = project[n].name
                 /\ project[m].version[1] # project[n].version[1]
  <2>1. UNCHANGED <<project, visited_manifests>> /\ (unacceptable \/ incompatible)
        => FailsForAReason'
    BY DEF FailsForAReason, Asked, Acceptable
  <2>2. CASE Refuse
    <3>1. Dependency[1] \in AskedOf(Top.of.manifest) /\ ~Acceptable(Dependency[1])
      BY <2>2, PoppedPending, AskedInSome DEF Refuse, IInv, Wanted
    <3>2. Len(stack) \in Nat \ {0} /\ stack[Len(stack)] = Top
      BY <2>2, Running DEF Refuse, IInv
    <3>3. Top.of.manifest \in visited_manifests
      BY <3>2 DEF IInv, Guarded
    <3>4. unacceptable
      BY <3>1, <3>3 DEF AskedOf
    <3> QED
      BY <2>1, <2>2, <3>4 DEF Refuse, walk
  <2>3. CASE Incompatible
    <3>1. PICK c \in Named(NextName), d \in Named(NextName) : Version(c)[1] # Version(d)[1]
      BY <2>3 DEF Incompatible, SameMajor
    <3>2. c.manifest \in visited_manifests /\ d.manifest \in visited_manifests
      <4>1. DOMAIN discovered_projects = 1..Len(discovered_projects)
        BY DEF IInv, Types
      <4> QED
        BY <4>1 DEF Named, ToSet, IInv, Guarded
    <3>3. incompatible
      BY <3>1, <3>2 DEF Named, Name, Version
    <3> QED
      BY <2>1, <2>3, <3>3 DEF Incompatible, walk
  <2>4. CASE VisitAgain \/ Enter \/ Leave \/ Select
    BY <2>4 DEF VisitAgain, Enter, Leave, Select, Discovering, Selecting, FailsForAReason
  <2>5. CASE UNCHANGED vars
    BY <2>5 DEF vars, walk, FailsForAReason, Asked, Acceptable
  <2> QED
    BY <2>2, <2>3, <2>4, <2>5 DEF Next
<1>3. Init /\ [][Next]_vars /\ []IInv => []FailsForAReason
  BY <1>1, <1>2, PendingStep, PTL
<1> QED
  BY <1>3, Invariance, PTL DEF Spec

-----------------------------------------------------------------------------
(* What manifests lead to, in the middle of a discovery. *)

(* A request for the project of a candidate that is not for its profile. *)
Differ(c) ==
  \E n \in visited_manifests : \E d \in AskedOf(n) :
    d.to = c.manifest /\ d.profile # c.selected_profile

(* Settled, Followed and Followable, while manifests are being discovered. *)
Kept(c) == c.manifest = Root \/ ~c.explicit_profile \/ ~Differ(c)
Due(c) == Asked(c.manifest, IF Kept(c) THEN c.selected_profile ELSE 0)
Leads(c) == IF Kept(c) THEN Wanted(c) ELSE AskedOf(c.manifest)

(* What is being discovered and what has been. *)
Current == {stack[i].of : i \in 1..Len(stack)}
           \cup {discovered_projects[j] : j \in 1..Len(discovered_projects)}

(* Closed, Reaches and OnCycle, in the same way. *)
ClosedIn(Q) ==
  \A c \in Current : c.manifest \in Q =>
    \A d \in Leads(c) : d.to \in visited_manifests => d.to \in Q
Joined(m, n) == \A Q \in SUBSET visited_manifests : m \in Q /\ ClosedIn(Q) => n \in Q
Cyclic(m) == \E x \in Current : Joined(m, x.manifest) /\ \E d \in Leads(x) : d.to = m

(* Someone asked for the candidate, with its profile if it is explicit. *)
Requested(c) ==
  \/ c.manifest = Root
  \/ \E x \in Current : \E d \in Leads(x) :
       /\ d.to = c.manifest
       /\ IF c.explicit_profile THEN d.profile # 0 /\ d.profile = c.selected_profile
                                ELSE d.profile = 0

(* What an explicit request that was followed has achieved. *)
Heard(d) ==
  \/ d.to = Root \/ d.profile = 0 \/ Cyclic(d.to)
  \/ \A c \in Current : c.manifest = d.to => c.explicit_profile
Done(d) == d.to \in visited_manifests /\ Heard(d)

(* The stack grows from the root, along a path; every manifest that was visited
   is there. *)
Rooted ==
  /\ Root \in visited_manifests
  /\ stack # <<>> => stack[1].of.manifest = Root
  /\ \A m \in visited_manifests : \E c \in Current : c.manifest = m
  /\ outcome \in {"selecting", "resolved"} => stack = <<>>
Chain == \A i, k \in 1..Len(stack) :
           i < k => Joined(stack[i].of.manifest, stack[k].of.manifest)

AllRequested == \A c \in Current : Requested(c)

(* What is due was done, or is left to do. *)
Complete ==
  /\ \A j \in 1..Len(discovered_projects) : \A d \in Due(discovered_projects[j]) : Done(d)
  /\ \A i \in 1..Len(stack) : \A d \in Wanted(stack[i].of) :
       Done(d) \/ \E k \in 1..Len(stack[i].todo) : stack[i].todo[k][1] = d

(* Nothing was visited that no path from the root leads to. *)
Grounded == \A m \in visited_manifests : Joined(Root, m)

(* What a candidate follows was discovered before it, or leads back to it. *)
PostOrder ==
  \A j \in 1..Len(discovered_projects) : \A d \in Due(discovered_projects[j]) :
    \/ \E l \in 1..Len(discovered_projects) : l <= j /\ discovered_projects[l].manifest = d.to
    \/ Joined(d.to, discovered_projects[j].manifest)

Walked == Rooted /\ Chain /\ AllRequested /\ Complete /\ Grounded /\ PostOrder

-----------------------------------------------------------------------------
(* As more manifests are visited, more is asked for. *)
LEMMA AskedStays ==
  ASSUME project' = project
  PROVE  /\ \A m, profile : Asked(m, profile)' = Asked(m, profile)
         /\ \A m : AskedOf(m)' = AskedOf(m)
         /\ \A c : Wanted(c)' = Wanted(c)
  BY DEF AskedOf, Asked, Wanted

LEMMA LeadsAsked ==
  ASSUME NEW c
  PROVE  Wanted(c) \subseteq Leads(c) /\ Leads(c) \subseteq AskedOf(c.manifest)
  BY AskedInSome DEF Leads, Wanted

LEMMA Later ==
  ASSUME project' = project, visited_manifests \subseteq visited_manifests', NEW c
  PROVE  (Kept(c)' => Kept(c)) /\ Leads(c) \subseteq Leads(c)'
<1>1. \A m : AskedOf(m)' = AskedOf(m)
  BY AskedStays
<1>2. Wanted(c)' = Wanted(c)
  BY AskedStays
<1>4. Differ(c) => Differ(c)'
  BY <1>1 DEF Differ
<1>5. Kept(c)' => Kept(c)
  BY <1>4 DEF Kept
<1>6. Wanted(c) \subseteq AskedOf(c.manifest)
  BY AskedInSome DEF Wanted
<1>7. Leads(c) \subseteq Leads(c)'
  BY <1>1, <1>2, <1>5, <1>6 DEF Leads
<1> QED
  BY <1>5, <1>7

(* What is asked for in no profile is asked for in all. *)
LEMMA AlwaysAsked ==
  ASSUME project \in Projects, NEW m \in DOMAIN project, NEW profile
  PROVE  Asked(m, 0) \subseteq Asked(m, profile)
<1>1. 0 \notin project[m].profiles
  BY ProjectAssumption DEF Profile
<1> QED
  BY <1>1 DEF Asked

LEMMA DueLater ==
  ASSUME Types, project' = project, visited_manifests \subseteq visited_manifests',
         NEW c, c.manifest \in DOMAIN project
  PROVE  Due(c)' \subseteq Due(c)
<1>1. Kept(c)' => Kept(c)
  BY Later
<1>2. \A m, profile : Asked(m, profile)' = Asked(m, profile)
  BY AskedStays
<1>3. \A profile : Asked(c.manifest, 0) \subseteq Asked(c.manifest, profile)
  BY AlwaysAsked DEF Types
<1>4. CASE Kept(c)'
  BY <1>1, <1>2, <1>4 DEF Due
<1>5. CASE ~Kept(c)'
  BY <1>2, <1>3, <1>5 DEF Due
<1> QED
  BY <1>4, <1>5

(* The manifest of a candidate was visited. *)
LEMMA CurrentVisited ==
  ASSUME IInv, NEW c \in Current
  PROVE  c.manifest \in visited_manifests /\ c.manifest \in DOMAIN project
<1>1. c.manifest \in visited_manifests
  BY DEF Current, IInv, Guarded
<1> QED
  BY <1>1 DEF IInv, Types

(* A candidate that adopts a profile does not lose what is asked for it. *)
LEMMA AdoptedProfile ==
  ASSUME IInv, NEW c \in Current, NEW d, d.profile # 0, c.manifest = d.to,
         c.manifest # Root, Requested(c)
  PROVE  LET e == Candidate(d.to, d.profile, TRUE)
         IN  Leads(c) \subseteq Leads(e) /\ Due(e) \subseteq Due(c)
<1> DEFINE e == Candidate(d.to, d.profile, TRUE)
<1>1. e.manifest = c.manifest /\ e.selected_profile = d.profile /\ e.explicit_profile
  BY DEF Candidate
<1> HIDE DEF e
<1>2. \A profile : Asked(c.manifest, 0) \subseteq Asked(c.manifest, profile)
  BY AlwaysAsked, CurrentVisited DEF IInv, Types
<1>3. CASE c.explicit_profile /\ c.selected_profile = d.profile
  <2>1. Differ(e) = Differ(c)
    BY <1>1, <1>3 DEF Differ
  <2>2. Kept(e) <=> Kept(c)
    BY <1>1, <1>3, <2>1 DEF Kept
  <2>3. Wanted(e) = Wanted(c)
    BY <1>1, <1>3 DEF Wanted
  <2>4. Leads(c) = Leads(e)
    BY <1>1, <2>2, <2>3 DEF Leads
  <2>5. Due(c) = Due(e)
    BY <1>1, <1>3, <2>2 DEF Due
  <2> QED
    BY <2>4, <2>5 DEF e
<1>4. CASE ~(c.explicit_profile /\ c.selected_profile = d.profile)
  <2>1. PICK x \in Current : \E r \in Leads(x) :
          /\ r.to = c.manifest
          /\ IF c.explicit_profile THEN r.profile # 0 /\ r.profile = c.selected_profile
                                   ELSE r.profile = 0
    BY DEF Requested
  <2>2. x.manifest \in visited_manifests /\ Leads(x) \subseteq AskedOf(x.manifest)
    BY CurrentVisited, LeadsAsked
  <2>3. Differ(e)
    BY <1>1, <1>4, <2>1, <2>2 DEF Differ
  <2>4. ~Kept(e)
    BY <1>1, <2>3 DEF Kept
  <2>5. Leads(c) \subseteq Leads(e)
    BY <1>1, <2>4, LeadsAsked DEF Leads
  <2>6. Due(e) \subseteq Due(c)
    BY <1>1, <1>2, <2>4 DEF Due
  <2> QED
    BY <2>5, <2>6 DEF e
<1> QED
  BY <1>3, <1>4

-----------------------------------------------------------------------------
(* Paths. *)

LEMMA JoinedSelf ==
  ASSUME NEW m PROVE Joined(m, m)
  BY DEF Joined

LEMMA JoinedTransitive ==
  ASSUME NEW l, NEW m, NEW n, Joined(l, m), Joined(m, n)
  PROVE  Joined(l, n)
  BY DEF Joined

LEMMA JoinedStep ==
  ASSUME NEW l, NEW x \in Current, Joined(l, x.manifest),
         NEW d \in Leads(x), d.to \in visited_manifests
  PROVE  Joined(l, d.to)
  BY DEF Joined, ClosedIn

(* A step of discovery adds manifests and what they ask for. *)
Grows ==
  /\ project' = project /\ visited_manifests \subseteq visited_manifests'
  /\ \A c \in Current :
       /\ c.manifest \in visited_manifests
       /\ \E e \in Current' : e.manifest = c.manifest /\ Leads(c) \subseteq Leads(e)'
  /\ \A e \in Current' : e.manifest \in visited_manifests =>
       \E c \in Current : c.manifest = e.manifest /\ (c.explicit_profile => e.explicit_profile)

LEMMA JoinedStays ==
  ASSUME Grows, NEW m \in visited_manifests, NEW n, Joined(m, n)
  PROVE  Joined(m, n)'
<1> SUFFICES ASSUME NEW Q \in SUBSET visited_manifests', m \in Q, ClosedIn(Q)'
             PROVE  n \in Q
  BY DEF Joined
<1>1. \A e \in Current' : e.manifest \in Q =>
        \A d \in Leads(e)' : d.to \in visited_manifests' => d.to \in Q
  BY DEF ClosedIn
<1>2. \A c \in Current : c.manifest \in Q =>
        \A d \in Leads(c) : d.to \in visited_manifests => d.to \in Q
  BY <1>1 DEF Grows
<1>3. ClosedIn(Q \cap visited_manifests)
  BY <1>2 DEF ClosedIn
<1> QED
  BY <1>3 DEF Joined

LEMMA CyclicStays ==
  ASSUME Grows, NEW m \in visited_manifests, Cyclic(m)
  PROVE  Cyclic(m)'
<1>1. PICK x \in Current : Joined(m, x.manifest) /\ \E d \in Leads(x) : d.to = m
  BY DEF Cyclic
<1>2. PICK e \in Current' : e.manifest = x.manifest /\ Leads(x) \subseteq Leads(e)'
  BY DEF Grows
<1>3. PICK n : n = x.manifest
  OBVIOUS
<1>4. Joined(m, n)'
  BY <1>1, <1>3, JoinedStays
<1> QED
  BY <1>1, <1>2, <1>3, <1>4 DEF Cyclic

LEMMA DoneStays ==
  ASSUME Grows, NEW d, Done(d)
  PROVE  Done(d)'
<1>1. d.to \in visited_manifests /\ d.to \in visited_manifests'
  BY DEF Done, Grows
<1>2. CASE d.to = Root \/ d.profile = 0
  BY <1>1, <1>2 DEF Done, Heard
<1>3. CASE Cyclic(d.to)
  <2>1. PICK m \in visited_manifests : m = d.to
    BY <1>1
  <2>2. Cyclic(m)'
    BY <1>3, <2>1, CyclicStays
  <2> QED
    BY <1>1, <2>1, <2>2 DEF Done, Heard
<1>4. CASE \A c \in Current : c.manifest = d.to => c.explicit_profile
  BY <1>1, <1>4 DEF Done, Heard, Grows
<1> QED
  BY <1>2, <1>3, <1>4 DEF Done, Heard

LEMMA RequestedStays ==
  ASSUME Grows, NEW c, Requested(c)
  PROVE  Requested(c)'
<1>1. CASE c.manifest = Root
  BY <1>1 DEF Requested
<1>2. CASE c.manifest # Root
  <2>1. PICK x \in Current : \E d \in Leads(x) :
          /\ d.to = c.manifest
          /\ IF c.explicit_profile THEN d.profile # 0 /\ d.profile = c.selected_profile
                                   ELSE d.profile = 0
    BY <1>2 DEF Requested
  <2>2. PICK e \in Current' : Leads(x) \subseteq Leads(e)'
    BY DEF Grows
  <2> QED
    BY <2>1, <2>2 DEF Requested
<1> QED
  BY <1>1, <1>2

-----------------------------------------------------------------------------
(* What is left to do. *)

LEMMA TodoComplete ==
  ASSUME NEW m, project \in Projects, m \in DOMAIN project,
         NEW profile, NEW override \in BOOLEAN, NEW d \in Asked(m, profile)
  PROVE  LET todo == Todo(project[m], profile, override)
         IN  \E k \in 1..Len(todo) : todo[k][1] = d
<1> DEFINE more == IF profile \in project[m].profiles
                     THEN Marked(project[m].additional[profile], override) ELSE <<>>
           own == Marked(project[m].dependencies, FALSE)
           T == Requirements \X BOOLEAN
<1>1. /\ project[m].dependencies \in Seq(Requirements)
      /\ profile \in project[m].profiles => project[m].additional[profile] \in Seq(Requirements)
  BY ProjectAssumption DEF Requirements
<1>2. \A ds \in Seq(Requirements), b \in BOOLEAN :
        /\ Marked(ds, b) \in Seq(T) /\ Len(Marked(ds, b)) = Len(ds)
        /\ \A k \in 1..Len(ds) : Marked(ds, b)[k][1] = ds[k]
  BY DEF Marked
<1>3. \A ds \in Seq(Requirements) : ToSet(ds) = {ds[k] : k \in 1..Len(ds)} /\ Len(ds) \in Nat
  BY DEF ToSet
<1>10. ASSUME NEW ds \in Seq(Requirements), d \in ToSet(ds), NEW b \in BOOLEAN
       PROVE  \E k \in 1..Len(Marked(ds, b)) : Marked(ds, b)[k][1] = d
  <2>1. PICK k \in 1..Len(ds) : ds[k] = d
    BY <1>3, <1>10
  <2> QED
    BY <1>2, <2>1
<1>4. \/ \E k \in 1..Len(own) : own[k][1] = d
      \/ \E k \in 1..Len(more) : more[k][1] = d
  <2>1. CASE d \in ToSet(project[m].dependencies)
    BY <1>1, <1>10, <2>1
  <2>2. CASE profile \in project[m].profiles /\ d \in ToSet(project[m].additional[profile])
    <3>1. project[m].additional[profile] \in Seq(Requirements)
      BY <1>1, <2>2
    <3>2. more = Marked(project[m].additional[profile], override)
      BY <2>2
    <3> HIDE DEF more
    <3> QED
      BY <1>10, <2>2, <3>1, <3>2
  <2> QED
    BY <2>1, <2>2 DEF Asked
<1>5. own \in Seq(T) /\ more \in Seq(T)
  <2> HIDE DEF T
  <2>1. <<>> \in Seq(T)
    OBVIOUS
  <2> QED
    BY <1>1, <1>2, <2>1
<1>6. Todo(project[m], profile, override) = own \o more
  BY DEF Todo
<1> HIDE DEF own, more, T
<1>7. /\ Len(own) \in Nat /\ Len(more) \in Nat /\ Len(own \o more) = Len(own) + Len(more)
      /\ \A k \in 1..(Len(own) + Len(more)) :
           (own \o more)[k] = IF k <= Len(own) THEN own[k] ELSE more[k - Len(own)]
  BY <1>5, ConcatProperties, LenProperties
<1>8. CASE \E k \in 1..Len(own) : own[k][1] = d
  <2>1. PICK k \in 1..Len(own) : own[k][1] = d
    BY <1>8
  <2>2. k \in 1..(Len(own) + Len(more)) /\ k <= Len(own)
    BY <1>7
  <2> QED
    BY <1>6, <1>7, <2>1, <2>2
<1>9. CASE \E k \in 1..Len(more) : more[k][1] = d
  <2>1. PICK k \in 1..Len(more) : more[k][1] = d
    BY <1>9
  <2>2. /\ k + Len(own) \in 1..(Len(own) + Len(more)) /\ ~(k + Len(own) <= Len(own))
        /\ k + Len(own) - Len(own) = k
    BY <1>7
  <2>3. (own \o more)[k + Len(own)] = more[k]
    BY <1>7, <2>2
  <2> QED
    BY <1>6, <1>7, <2>1, <2>2, <2>3
<1> QED
  BY <1>4, <1>8, <1>9

LEMMA TailKeeps ==
  ASSUME NEW T, NEW s \in Seq(T), s # <<>>, NEW k \in 1..Len(s)
  PROVE  s[k] = Head(s) \/ \E l \in 1..Len(Tail(s)) : Tail(s)[l] = s[k]
<1>1. Len(Tail(s)) = Len(s) - 1 /\ Len(s) \in Nat
      /\ \A l \in 1..Len(Tail(s)) : Tail(s)[l] = s[l + 1]
  BY HeadTailProperties
<1>2. CASE k = 1
  BY <1>2
<1>3. CASE k # 1
  <2>1. k - 1 \in 1..Len(Tail(s)) /\ k - 1 + 1 = k
    BY <1>1, <1>3
  <2> QED
    BY <1>1, <2>1
<1> QED
  BY <1>2, <1>3

(* Popping leaves all to do but the first. *)
LEMMA PoppedKeeps ==
  ASSUME Types, Discovering, NEW i \in 1..Len(stack), NEW r,
         \E k \in 1..Len(stack[i].todo) : stack[i].todo[k][1] = r
  PROVE  \/ r = Dependency[1]
         \/ \E k \in 1..Len(Popped(stack)[i].todo) : Popped(stack)[i].todo[k][1] = r
<1> DEFINE n == Len(stack)
<1>1. n \in Nat \ {0} /\ stack[n] = Top /\ stack \in Seq(Activations) /\ Top \in Activations
  BY Running DEF Types
<1>2. Top.todo \in Seq(Requirements \X BOOLEAN) /\ Top.todo # <<>>
  BY <1>1 DEF Activations, Discovering
<1>3. /\ Popped(stack)[n].todo = Tail(Top.todo)
      /\ \A l \in 1..n : l # n => Popped(stack)[l] = stack[l]
  BY <1>1 DEF Popped, Activations
<1>4. CASE i # n
  BY <1>3, <1>4
<1>5. CASE i = n
  <2>1. PICK k \in 1..Len(Top.todo) : Top.todo[k][1] = r
    BY <1>1, <1>5
  <2>2. \/ Top.todo[k] = Head(Top.todo)
        \/ \E l \in 1..Len(Tail(Top.todo)) : Tail(Top.todo)[l] = Top.todo[k]
    BY <1>2, TailKeeps
  <2> QED
    BY <1>3, <1>5, <2>1, <2>2 DEF Dependency
<1> QED
  BY <1>4, <1>5

LEMMA InitWalked ==
  Init => Walked
<1> SUFFICES ASSUME Init PROVE Walked
  OBVIOUS
<1>1. project \in Projects /\ Root \in DOMAIN project
  BY ProjectAssumption DEF Init
<1>2. PICK c : c = Candidate(Root, Active, TRUE)
  OBVIOUS
<1>3. c.manifest = Root /\ c.selected_profile = Active
  BY <1>2 DEF Candidate
<1>4. /\ Len(stack) = 1 /\ stack[1].of = c /\ Len(discovered_projects) = 0
      /\ stack[1].todo = Todo(project[Root], Active, TRUE)
      /\ visited_manifests = {Root} /\ outcome = "discovering"
  BY <1>2 DEF Init
<1>5. Current = {c}
  BY <1>4 DEF Current
<1>6. Rooted
  BY <1>3, <1>4, <1>5 DEF Rooted
<1>7. AllRequested
  BY <1>3, <1>5 DEF AllRequested, Requested
<1>8. /\ \A i \in 1..Len(stack) : i = 1
      /\ \A j \in 1..Len(discovered_projects) : FALSE
  BY <1>4
<1>9. Complete
  <2> DEFINE todo == Todo(project[Root], Active, TRUE)
  <2>1. \A d \in Asked(Root, Active) : \E k \in 1..Len(todo) : todo[k][1] = d
    <3>1. \A b \in BOOLEAN : \A d \in Asked(Root, Active) :
            \E k \in 1..Len(Todo(project[Root], Active, b)) :
              Todo(project[Root], Active, b)[k][1] = d
      BY <1>1, TodoComplete
    <3> QED
      BY <3>1, Zenon
  <2>2. stack[1].todo = todo
    BY <1>4
  <2> HIDE DEF todo
  <2>3. \A d \in Asked(Root, Active) :
          \E k \in 1..Len(stack[1].todo) : stack[1].todo[k][1] = d
    BY <2>1, <2>2
  <2>4. Wanted(stack[1].of) = Asked(Root, Active)
    BY <1>3, <1>4 DEF Wanted
  <2>5. \A i \in 1..Len(stack) : \A d \in Wanted(stack[i].of) :
          \E k \in 1..Len(stack[i].todo) : stack[i].todo[k][1] = d
    BY <1>8, <2>3, <2>4
  <2> QED
    BY <1>8, <2>5 DEF Complete
<1>10. Grounded
  BY <1>4, JoinedSelf DEF Grounded
<1>11. Chain
  <2>1. \A i, k \in 1..Len(stack) : ~(i < k)
    BY <1>4
  <2> QED
    BY <2>1 DEF Chain
<1>12. PostOrder
  BY <1>8 DEF PostOrder
<1> QED
  BY <1>6, <1>7, <1>9, <1>10, <1>11, <1>12 DEF Walked

-----------------------------------------------------------------------------
(* One lemma for each action that discovers. *)

(* The running activation asks for the dependency. *)
LEMMA TopAsks ==
  ASSUME IInv, Pending, Discovering
  PROVE  \E x, d : /\ x \in Current /\ x = Top.of /\ d = Dependency[1]
                   /\ d \in Wanted(x) /\ d \in Leads(x)
                   /\ x.manifest \in visited_manifests
<1>1. Len(stack) \in Nat \ {0} /\ stack[Len(stack)] = Top
  BY Running DEF IInv
<1>2. Len(stack) \in 1..Len(stack)
  BY <1>1
<1>3. PICK x, d : x = Top.of /\ d = Dependency[1]
  OBVIOUS
<1>4. x \in Current
  BY <1>1, <1>2, <1>3 DEF Current
<1>5. Dependency[1] \in Wanted(Top.of)
  BY PoppedPending DEF IInv
<1>6. d \in Wanted(x)
  BY <1>3, <1>5 DEF Wanted
<1> QED
  BY <1>3, <1>4, <1>6, LeadsAsked, CurrentVisited

(* A candidate stays, or adopts the profile of the dependency. *)
LEMMA VisitAgainMoves ==
  ASSUME IInv, VisitAgain
  PROVE  /\ Len(stack') = Len(stack) /\ \A i \in 1..Len(stack) : stack'[i].of = stack[i].of
         /\ Len(discovered_projects') = Len(discovered_projects)
         /\ \A j \in 1..Len(discovered_projects) :
              \/ /\ discovered_projects'[j] = discovered_projects[j]
                 /\ \/ discovered_projects[j].manifest # Dependency[1].to
                    \/ Dependency[1].profile = 0
                    \/ discovered_projects[j].explicit_profile /\ ~Dependency[2]
              \/ /\ discovered_projects[j].manifest = Dependency[1].to
                 /\ Dependency[1].profile # 0
                 /\ Dependency[2] \/ ~discovered_projects[j].explicit_profile
                 /\ discovered_projects'[j] = Candidate(Dependency[1].to, Dependency[1].profile, TRUE)
<1> DEFINE d == Dependency[1]
           N == 1..Len(discovered_projects)
<1>1. Types /\ Discovering
  BY DEF IInv, VisitAgain
<1>2. Len(stack') = Len(stack) /\ \A i \in 1..Len(stack) : stack'[i].of = stack[i].of
  BY <1>1, Running DEF VisitAgain
<1>3. discovered_projects \in Seq(Candidates) /\ DOMAIN discovered_projects = N
  BY <1>1 DEF Types
<1>4. DOMAIN discovered_projects' = N
  BY <1>3 DEF VisitAgain
<1>5. ASSUME NEW j \in N
      PROVE  \/ /\ discovered_projects'[j] = discovered_projects[j]
                /\ \/ discovered_projects[j].manifest # d.to
                   \/ d.profile = 0
                   \/ discovered_projects[j].explicit_profile /\ ~Dependency[2]
             \/ /\ discovered_projects[j].manifest = d.to
                /\ d.profile # 0
                /\ Dependency[2] \/ ~discovered_projects[j].explicit_profile
                /\ discovered_projects'[j] = Candidate(d.to, d.profile, TRUE)
  <2>1. discovered_projects'[j] =
          IF d.profile # 0 /\ Adopts(discovered_projects[j], d, Dependency[2])
            THEN Candidate(d.to, d.profile, TRUE) ELSE discovered_projects[j]
    BY <1>3 DEF VisitAgain
  <2> QED
    BY <2>1, Zenon DEF Adopts
<1>6. Len(discovered_projects') = Len(discovered_projects)
  <2>1. discovered_projects' \in Seq(Candidates')
    BY VisitAgainGuarded DEF IInv, Types
  <2>2. Len(discovered_projects') \in Nat /\ DOMAIN discovered_projects' = 1..Len(discovered_projects')
    BY <2>1
  <2>3. Len(discovered_projects) \in Nat
    BY <1>3
  <2> QED
    BY <1>4, <2>2, <2>3
<1> QED
  BY <1>2, <1>5, <1>6

(* What adopting does to one candidate. *)
LEMMA AdoptingMatches ==
  ASSUME IInv, Pending, Walked, VisitAgain, NEW j \in 1..Len(discovered_projects)
  PROVE  \E c, e :
           /\ c \in Current
           /\ c = discovered_projects[j] /\ e = discovered_projects'[j]
           /\ e.manifest = c.manifest /\ Leads(c) \subseteq Leads(e) /\ Due(e) \subseteq Due(c)
           /\ \/ e = c
              \/ /\ Dependency[1].profile # 0
                 /\ e = Candidate(Dependency[1].to, Dependency[1].profile, TRUE)
<1>1. Types /\ Discovering
  BY DEF IInv, VisitAgain
<1>2. PICK c, e : c = discovered_projects[j] /\ e = discovered_projects'[j]
  OBVIOUS
<1>3. c \in Current
  BY <1>2 DEF Current
<1>4. Requested(c)
  BY <1>3 DEF Walked, AllRequested
<1>5. CASE e = c
  BY <1>2, <1>3, <1>5
<1>6. CASE e # c
  <2>1. PICK d : d = Dependency[1]
    OBVIOUS
  <2>2. c.manifest = d.to /\ d.profile # 0 /\ e = Candidate(d.to, d.profile, TRUE)
    BY <1>2, <1>6, <2>1, VisitAgainMoves
  <2>3. c.manifest # Root
    <3>1. Len(stack) \in Nat \ {0} /\ stack # <<>>
      BY <1>1, Running DEF Discovering
    <3>2. stack[1].of.manifest = Root /\ 1 \in 1..Len(stack)
      BY <3>1 DEF Walked, Rooted
    <3> QED
      BY <1>2, <3>2 DEF IInv, Guarded
  <2>4. Leads(c) \subseteq Leads(e) /\ Due(e) \subseteq Due(c)
    BY <1>3, <1>4, <2>2, <2>3, AdoptedProfile
  <2>5. e.manifest = c.manifest
    BY <2>2 DEF Candidate
  <2> QED
    BY <1>2, <1>3, <2>1, <2>2, <2>4, <2>5
<1> QED
  BY <1>5, <1>6

LEMMA VisitAgainGrows ==
  ASSUME IInv, Pending, Walked, VisitAgain
  PROVE  Grows
<1> DEFINE n == Len(stack)
           N == 1..Len(discovered_projects)
<1>1. project' = project /\ visited_manifests' = visited_manifests
  BY DEF VisitAgain
<1>2. /\ Len(stack') = n /\ \A i \in 1..n : stack'[i].of = stack[i].of
      /\ Len(discovered_projects') = Len(discovered_projects)
  BY VisitAgainMoves
<1>3. ASSUME NEW c \in Current
      PROVE  \E e \in Current' : e.manifest = c.manifest /\ Leads(c) \subseteq Leads(e)'
  <2>1. CASE \E i \in 1..n : c = stack[i].of
    <3>1. c \in Current'
      BY <1>2, <2>1 DEF Current
    <3>2. Leads(c) \subseteq Leads(c)'
      BY <1>1, Later
    <3> QED
      BY <3>1, <3>2
  <2>2. CASE \E j \in N : c = discovered_projects[j]
    <3>1. PICK j \in N : c = discovered_projects[j]
      BY <2>2
    <3>2. PICK e : e = discovered_projects'[j] /\ e.manifest = c.manifest
                   /\ Leads(c) \subseteq Leads(e)
      BY <3>1, AdoptingMatches
    <3>3. e \in Current'
      BY <1>2, <3>2 DEF Current
    <3>4. Leads(e) \subseteq Leads(e)'
      BY <1>1, Later
    <3> QED
      BY <3>2, <3>3, <3>4
  <2> QED
    BY <2>1, <2>2 DEF Current
<1>4. ASSUME NEW e \in Current'
      PROVE  \E c \in Current : c.manifest = e.manifest /\ (c.explicit_profile => e.explicit_profile)
  <2>1. CASE \E i \in 1..n : e = stack'[i].of
    <3>1. e \in Current
      BY <1>2, <2>1 DEF Current
    <3> QED
      BY <3>1
  <2>2. CASE \E j \in N : e = discovered_projects'[j]
    <3>1. PICK j \in N : e = discovered_projects'[j]
      BY <2>2
    <3>2. PICK c \in Current : /\ e.manifest = c.manifest
                               /\ \/ e = c
                                  \/ e = Candidate(Dependency[1].to, Dependency[1].profile, TRUE)
      BY <3>1, AdoptingMatches
    <3>3. c.explicit_profile => e.explicit_profile
      BY <3>2 DEF Candidate
    <3> QED
      BY <3>2, <3>3
  <2> QED
    BY <1>2, <2>1, <2>2 DEF Current
<1>5. \A c \in Current : c.manifest \in visited_manifests
  BY CurrentVisited
<1> QED
  BY <1>1, <1>3, <1>4, <1>5 DEF Grows

(* The dependency was heard: a candidate has a profile now, unless it is an
   activation, which leads to this one. *)
LEMMA VisitAgainHeard ==
  ASSUME IInv, Pending, Walked, VisitAgain
  PROVE  \E d : d = Dependency[1] /\ Done(d)'
<1> DEFINE n == Len(stack)
<1>1. Types /\ Discovering /\ n \in Nat \ {0} /\ stack[n] = Top
  BY Running DEF IInv, VisitAgain
<1>2. PICK x, d : x \in Current /\ x = Top.of /\ d = Dependency[1] /\ d \in Leads(x)
  BY <1>1, TopAsks
<1>3. d.to \in visited_manifests /\ visited_manifests' = visited_manifests
  BY <1>2 DEF VisitAgain
<1>4. CASE \E i \in 1..n : stack[i].of.manifest = d.to
  <2>1. PICK i \in 1..n : stack[i].of.manifest = d.to
    BY <1>4
  <2>2. Joined(d.to, x.manifest)
    <3>1. CASE i = n
      BY <1>1, <1>2, <2>1, <3>1, JoinedSelf
    <3>2. CASE i # n
      <4>1. i < n /\ n \in 1..n
        BY <1>1, <3>2
      <4>2. Joined(stack[i].of.manifest, stack[n].of.manifest)
        BY <4>1 DEF Walked, Chain
      <4> QED
        BY <1>1, <1>2, <2>1, <4>2 DEF Joined
    <3> QED
      BY <3>1, <3>2
  <2>3. PICK m \in visited_manifests : m = d.to
    BY <1>3
  <2>4. Cyclic(m)
    BY <1>2, <2>2, <2>3 DEF Cyclic
  <2>5. Cyclic(m)'
    BY <2>4, VisitAgainGrows, CyclicStays
  <2> QED
    BY <1>2, <1>3, <2>3, <2>5 DEF Done, Heard
<1>5. CASE \A i \in 1..n : stack[i].of.manifest # d.to
  <2>1. ASSUME d.profile # 0, NEW e \in Current', e.manifest = d.to
        PROVE  e.explicit_profile
    <3>1. /\ Len(stack') = n /\ \A i \in 1..n : stack'[i].of = stack[i].of
          /\ Len(discovered_projects') = Len(discovered_projects)
      BY VisitAgainMoves
    <3>2. PICK j \in 1..Len(discovered_projects) : e = discovered_projects'[j]
      BY <1>5, <2>1, <3>1 DEF Current
    <3>3. discovered_projects[j].manifest = d.to
      BY <1>2, <2>1, <3>2, AdoptingMatches
    <3> QED
      BY <1>2, <2>1, <3>2, <3>3, VisitAgainMoves DEF Candidate
  <2> QED
    BY <1>2, <1>3, <2>1 DEF Done, Heard
<1> QED
  BY <1>4, <1>5

LEMMA VisitAgainWalked ==
  IInv /\ Pending /\ Walked /\ VisitAgain => Walked'
<1> SUFFICES ASSUME IInv, Pending, Walked, VisitAgain PROVE Walked'
  OBVIOUS
<1> DEFINE n == Len(stack)
           N == 1..Len(discovered_projects)
<1>1. Types /\ Discovering
  BY DEF IInv, VisitAgain
<1>2. project' = project /\ visited_manifests' = visited_manifests /\ outcome' = outcome
      /\ stack' = Popped(stack)
  BY DEF VisitAgain
<1>3. /\ Len(stack') = n /\ n \in Nat \ {0}
      /\ \A i \in 1..n : stack'[i].of = stack[i].of
      /\ Len(discovered_projects') = Len(discovered_projects)
  BY <1>1, VisitAgainMoves, Running
<1>4. Grows
  BY VisitAgainGrows
<1>5. Rooted'
  <2>1. stack'[1].of.manifest = Root
    BY <1>3 DEF Walked, Rooted
  <2>2. \A m \in visited_manifests' : \E e \in Current' : e.manifest = m
    BY <1>2, <1>4 DEF Walked, Rooted, Grows
  <2>3. outcome' = "discovering" /\ Root \in visited_manifests'
    BY <1>1, <1>2 DEF Discovering, Walked, Rooted
  <2> QED
    BY <2>1, <2>2, <2>3 DEF Rooted
<1>6. AllRequested'
  <2> SUFFICES ASSUME NEW e \in Current' PROVE Requested(e)'
    BY DEF AllRequested
  <2>1. CASE e \in Current
    BY <1>4, <2>1, RequestedStays DEF Walked, AllRequested
  <2>2. CASE \E j \in N : e = discovered_projects'[j] /\ e \notin Current
    <3>1. PICK j \in N : e = discovered_projects'[j]
      BY <2>2
    <3>2. PICK x, d : x \in Current /\ x = Top.of /\ d = Dependency[1] /\ d \in Leads(x)
      BY <1>1, TopAsks
    <3>3. d.profile # 0 /\ e = Candidate(d.to, d.profile, TRUE)
      BY <2>2, <3>1, <3>2, AdoptingMatches
    <3>4. PICK y \in Current' : Leads(x) \subseteq Leads(y)'
      BY <1>4, <3>2 DEF Grows
    <3> QED
      BY <3>2, <3>3, <3>4 DEF Requested, Candidate
  <2>3. CASE \E i \in 1..n : e = stack'[i].of
    BY <1>3, <2>1, <2>3 DEF Current
  <2> QED
    BY <1>3, <2>1, <2>2, <2>3 DEF Current
<1>7. ASSUME NEW j \in N
      PROVE  \E c, e :
               /\ c \in Current
               /\ c = discovered_projects[j] /\ e = discovered_projects'[j]
               /\ e.manifest = c.manifest /\ Due(discovered_projects[j])' \subseteq Due(c)
               /\ Due(c) = Due(discovered_projects[j])
  <2>1. PICK c, e : /\ c \in Current /\ c = discovered_projects[j] /\ e = discovered_projects'[j]
                                /\ e.manifest = c.manifest /\ Due(e) \subseteq Due(c)
    BY AdoptingMatches
  <2>2. e.manifest \in DOMAIN project
    BY <2>1, CurrentVisited
  <2>3. Due(e)' \subseteq Due(e)
    BY <1>1, <1>2, <2>2, DueLater
  <2>4. Due(discovered_projects[j])' = Due(e)' /\ Due(c) = Due(discovered_projects[j])
    BY <2>1 DEF Due, Kept, Differ
  <2> QED
    BY <2>1, <2>3, <2>4
<1>8. Complete'
  <2>1. ASSUME NEW j \in N, NEW r \in Due(discovered_projects[j])'
        PROVE  Done(r)'
    <3>1. r \in Due(discovered_projects[j])
      BY <1>7, <2>1
    <3>2. Done(r)
      BY <3>1 DEF Walked, Complete
    <3> QED
      BY <1>4, <3>2, DoneStays
  <2>2. ASSUME NEW i \in 1..n, NEW r \in Wanted(stack[i].of)'
        PROVE  Done(r)' \/ \E k \in 1..Len(stack'[i].todo) : stack'[i].todo[k][1] = r
    <3>1. r \in Wanted(stack[i].of)
      BY <1>2, <1>3, <2>2 DEF Wanted, Asked
    <3>2. \/ Done(r)
          \/ \E k \in 1..Len(stack[i].todo) : stack[i].todo[k][1] = r
      BY <3>1 DEF Walked, Complete
    <3>3. CASE Done(r)
      BY <1>4, <3>3, DoneStays
    <3>4. CASE \E k \in 1..Len(stack[i].todo) : stack[i].todo[k][1] = r
      <4>1. \/ r = Dependency[1]
            \/ \E k \in 1..Len(Popped(stack)[i].todo) : Popped(stack)[i].todo[k][1] = r
        BY <1>1, <3>4, PoppedKeeps
      <4>2. PICK d : d = Dependency[1] /\ Done(d)'
        BY VisitAgainHeard
      <4> QED
        BY <1>2, <4>1, <4>2
    <3> QED
      BY <3>2, <3>3, <3>4
  <2> QED
    BY <1>3, <2>1, <2>2 DEF Complete
<1>9. Grounded'
  BY <1>2, <1>4, JoinedStays DEF Walked, Grounded, Rooted
<1>10. Chain'
  <2> SUFFICES ASSUME NEW i \in 1..n, NEW k \in 1..n, i < k
               PROVE  Joined(stack[i].of.manifest, stack[k].of.manifest)'
    BY <1>3 DEF Chain
  <2>1. PICK a, b : a = stack[i].of.manifest /\ b = stack[k].of.manifest
    OBVIOUS
  <2>2. Joined(a, b)
    <3>1. Joined(stack[i].of.manifest, stack[k].of.manifest)
      BY DEF Walked, Chain
    <3> QED
      BY <2>1, <3>1 DEF Joined
  <2>3. a \in visited_manifests
    BY <2>1 DEF IInv, Guarded
  <2>4. Joined(a, b)'
    BY <1>4, <2>2, <2>3, JoinedStays
  <2> QED
    BY <1>3, <2>1, <2>4 DEF Joined
<1>11. PostOrder'
  <2> SUFFICES ASSUME NEW j \in N, NEW r \in Due(discovered_projects[j])'
               PROVE  \/ \E l \in N : l <= j /\ discovered_projects'[l].manifest = r.to
                      \/ Joined(r.to, discovered_projects[j].manifest)'
    BY <1>3 DEF PostOrder
  <2>1. PICK c, e :
               /\ c \in Current
               /\ c = discovered_projects[j] /\ e = discovered_projects'[j]
               /\ e.manifest = c.manifest /\ r \in Due(discovered_projects[j])
    BY <1>7
  <2>2. CASE \E l \in N : l <= j /\ discovered_projects[l].manifest = r.to
    <3>1. PICK l \in N : l <= j /\ discovered_projects[l].manifest = r.to
      BY <2>2
    <3>2. discovered_projects'[l].manifest = r.to
      BY <3>1, AdoptingMatches
    <3> QED
      BY <3>1, <3>2
  <2>3. CASE Joined(r.to, discovered_projects[j].manifest)
    <3>1. PICK a, b : a = r.to /\ b = c.manifest
      OBVIOUS
    <3>2. Joined(a, b)
      BY <2>1, <2>3, <3>1 DEF Joined
    <3>3. a \in visited_manifests
      BY <2>1, <3>1 DEF Walked, Complete, Done
    <3>4. Joined(a, b)'
      BY <1>4, <3>2, <3>3, JoinedStays
    <3> QED
      BY <2>1, <3>1, <3>4 DEF Joined
  <2> QED
    BY <2>1, <2>2, <2>3 DEF Walked, PostOrder
<1> QED
  BY <1>5, <1>6, <1>8, <1>9, <1>10, <1>11 DEF Walked

-----------------------------------------------------------------------------
(* A candidate is added, on top of the stack. *)
LEMMA EnterMoves ==
  ASSUME IInv, Enter
  PROVE  \E d, c, profile :
           /\ d = Dependency[1] /\ c = Candidate(d.to, profile, d.profile # 0)
           /\ d.profile # 0 => profile = d.profile
           /\ d.to \in DOMAIN project /\ d.to \notin visited_manifests
           /\ visited_manifests' = visited_manifests \cup {d.to}
           /\ Len(stack') = Len(stack) + 1
           /\ \A i \in 1..Len(stack) : stack'[i] = Popped(stack)[i] /\ stack'[i].of = stack[i].of
           /\ stack'[Len(stack) + 1].of = c
           /\ stack'[Len(stack) + 1].todo = Todo(project[d.to], profile, FALSE)
           /\ Current' = Current \cup {c}
<1> DEFINE n == Len(stack)
<1>1. Types /\ Discovering
  BY DEF IInv, Enter
<1>2. PICK d : d = Dependency[1]
  OBVIOUS
<1>3. PICK c, profile :
        /\ c = Candidate(d.to, profile, d.profile # 0)
        /\ d.profile # 0 => profile = d.profile
        /\ stack' = Append(Popped(stack), [of |-> c, todo |-> Todo(project[d.to], profile, FALSE)])
  BY <1>2 DEF Enter
<1>4. /\ d.to \in DOMAIN project /\ d.to \notin visited_manifests
      /\ visited_manifests' = visited_manifests \cup {d.to}
      /\ discovered_projects' = discovered_projects
  BY <1>1, <1>2, Running DEF Enter, Acceptable, Types, Requirements, Visited, Discovering
<1>6. /\ n \in Nat \ {0} /\ Len(stack') = n + 1
      /\ \A i \in 1..n : stack'[i] = Popped(stack)[i] /\ stack'[i].of = stack[i].of
      /\ stack'[n + 1].of = c /\ stack'[n + 1].todo = Todo(project[d.to], profile, FALSE)
  <2> DEFINE new == [of |-> c, todo |-> Todo(project[d.to], profile, FALSE)]
  <2>1. /\ n \in Nat \ {0} /\ Popped(stack) \in Seq(Activations) /\ Len(Popped(stack)) = n
        /\ \A i \in 1..n : Popped(stack)[i].of = stack[i].of
    BY <1>1, Running
  <2>2. stack' = Append(Popped(stack), new) /\ new.of = c
        /\ new.todo = Todo(project[d.to], profile, FALSE)
    BY <1>3
  <2> HIDE DEF new
  <2>3. /\ Len(stack') = n + 1 /\ stack'[n + 1] = new
        /\ \A i \in 1..n : stack'[i] = Popped(stack)[i]
    BY <2>1, <2>2
  <2> QED
    BY <2>1, <2>2, <2>3
<1>7. \A i \in 1..(n + 1) : i \in 1..n \/ i = n + 1
  BY <1>6
<1>8. n + 1 \in 1..(n + 1) /\ 1..n \subseteq 1..(n + 1)
  BY <1>6
<1>9. Current' = Current \cup {c}
  <2>1. {stack'[i].of : i \in 1..(n + 1)} = {stack[i].of : i \in 1..n} \cup {c}
    BY <1>6, <1>7, <1>8
  <2> QED
    BY <1>4, <1>6, <2>1 DEF Current
<1> QED
  BY <1>2, <1>3, <1>4, <1>6, <1>9

LEMMA EnterWalked ==
  IInv /\ Pending /\ Walked /\ Enter => Walked'
<1> SUFFICES ASSUME IInv, Pending, Walked, Enter PROVE Walked'
  OBVIOUS
<1> DEFINE n == Len(stack)
           N == 1..Len(discovered_projects)
<1>1. Types /\ Discovering
  BY DEF IInv, Enter
<1>2. PICK x, d : /\ x \in Current /\ x = Top.of /\ d = Dependency[1]
                  /\ d \in Wanted(x) /\ d \in Leads(x)
                  /\ x.manifest \in visited_manifests
  BY <1>1, TopAsks
<1>3. PICK c, profile :
        /\ c = Candidate(d.to, profile, d.profile # 0)
        /\ d.profile # 0 => profile = d.profile
        /\ d.to \in DOMAIN project /\ d.to \notin visited_manifests
        /\ visited_manifests' = visited_manifests \cup {d.to}
        /\ Len(stack') = n + 1
        /\ \A i \in 1..n : stack'[i] = Popped(stack)[i] /\ stack'[i].of = stack[i].of
        /\ stack'[n + 1].of = c /\ stack'[n + 1].todo = Todo(project[d.to], profile, FALSE)
        /\ Current' = Current \cup {c}
  BY <1>2, EnterMoves
<1>4. /\ d.to \in DOMAIN project /\ d.to \notin visited_manifests /\ project' = project
      /\ visited_manifests' = visited_manifests \cup {d.to}
      /\ discovered_projects' = discovered_projects /\ outcome' = "discovering"
  BY <1>1, <1>3 DEF Enter, Discovering
<1>5. c.manifest = d.to /\ c.selected_profile = profile /\ c.explicit_profile = (d.profile # 0)
  BY <1>3 DEF Candidate
<1>6. /\ n \in Nat \ {0} /\ Len(stack') = n + 1
      /\ \A i \in 1..n : stack'[i] = Popped(stack)[i] /\ stack'[i].of = stack[i].of
      /\ stack'[n + 1].of = c /\ stack'[n + 1].todo = Todo(project[d.to], profile, FALSE)
  BY <1>1, <1>3, Running
<1>7. \A i \in 1..(n + 1) : i \in 1..n \/ i = n + 1
  BY <1>6
<1>8. n \in 1..n /\ n + 1 \in 1..(n + 1) /\ 1 \in 1..n /\ 1..n \subseteq 1..(n + 1)
  BY <1>6
<1>9. Current' = Current \cup {c}
  BY <1>3
<1>10. \A e \in Current : e.manifest \in visited_manifests /\ e \in Current'
  BY <1>9, CurrentVisited
<1>11. Grows
  <2>1. visited_manifests \subseteq visited_manifests'
    BY <1>4
  <2>2. \A e \in Current : Leads(e) \subseteq Leads(e)'
    BY <1>4, <2>1, Later
  <2>3. \A e \in Current' : e.manifest \in visited_manifests => e \in Current
    BY <1>4, <1>5, <1>9
  <2> QED
    BY <1>4, <1>10, <2>1, <2>2, <2>3 DEF Grows
<1>12. x \in Current' /\ d \in Leads(x)' /\ d.to \in visited_manifests'
  <2>1. Leads(x) \subseteq Leads(x)'
    BY <1>4, Later
  <2> QED
    BY <1>2, <1>4, <1>10, <2>1
<1>13. ASSUME NEW m \in visited_manifests, Joined(m, x.manifest)
       PROVE  Joined(m, d.to)'
  <2>1. PICK y : y = x.manifest
    OBVIOUS
  <2>2. Joined(m, y)'
    BY <1>11, <1>13, <2>1, JoinedStays
  <2> QED
    BY <1>12, <2>1, <2>2 DEF Joined, ClosedIn
<1>14. Rooted'
  <2>1. stack'[1].of.manifest = Root
    BY <1>6, <1>8 DEF Walked, Rooted
  <2>2. \A m \in visited_manifests' : \E e \in Current' : e.manifest = m
    BY <1>4, <1>5, <1>9 DEF Walked, Rooted
  <2>3. outcome' = "discovering" /\ Root \in visited_manifests'
    BY <1>4 DEF Walked, Rooted
  <2> QED
    BY <2>1, <2>2, <2>3 DEF Rooted
<1>15. AllRequested'
  <2>1. \A e \in Current : Requested(e)'
    BY <1>11, RequestedStays DEF Walked, AllRequested
  <2>2. IF c.explicit_profile THEN d.profile # 0 /\ d.profile = c.selected_profile
                              ELSE d.profile = 0
    BY <1>3, <1>5
  <2>3. Requested(c)'
    BY <1>5, <1>12, <2>2 DEF Requested
  <2> QED
    BY <1>9, <2>1, <2>3 DEF AllRequested
<1>16. Done(d)'
  <2>1. \A e \in Current' : e.manifest = d.to => e = c
    BY <1>4, <1>9, <1>10
  <2> QED
    BY <1>5, <1>12, <2>1 DEF Done, Heard
<1>17. ASSUME NEW j \in N
       PROVE  \E e : /\ e = discovered_projects[j] /\ e \in Current
                     /\ Due(discovered_projects[j])' \subseteq Due(discovered_projects[j])
  <2>1. PICK e : e = discovered_projects[j]
    OBVIOUS
  <2>2. e \in Current
    BY <2>1 DEF Current
  <2>3. e.manifest \in DOMAIN project
    BY <2>2, CurrentVisited
  <2>4. Due(e)' \subseteq Due(e)
    BY <1>1, <1>4, <1>11, <2>3, DueLater DEF Grows
  <2>5. Due(discovered_projects[j])' = Due(e)'
    BY <1>4, <2>1 DEF Due, Kept, Differ
  <2>6. Due(discovered_projects[j]) = Due(e)
    BY <2>1 DEF Due, Kept, Differ
  <2> QED
    BY <2>1, <2>2, <2>4, <2>5, <2>6
<1>18. Complete'
  <2>1. ASSUME NEW j \in N, NEW r \in Due(discovered_projects[j])'
        PROVE  Done(r)'
    <3>1. r \in Due(discovered_projects[j])
      BY <1>17, <2>1
    <3>2. Done(r)
      BY <3>1 DEF Walked, Complete
    <3> QED
      BY <1>11, <3>2, DoneStays
  <2>2. ASSUME NEW i \in 1..n, NEW r \in Wanted(stack[i].of)
        PROVE  Done(r)' \/ \E k \in 1..Len(stack'[i].todo) : stack'[i].todo[k][1] = r
    <3>1. Done(r) \/ \E k \in 1..Len(stack[i].todo) : stack[i].todo[k][1] = r
      BY DEF Walked, Complete
    <3>2. CASE Done(r)
      BY <1>11, <3>2, DoneStays
    <3>3. CASE \E k \in 1..Len(stack[i].todo) : stack[i].todo[k][1] = r
      <4>1. \/ r = Dependency[1]
            \/ \E k \in 1..Len(Popped(stack)[i].todo) : Popped(stack)[i].todo[k][1] = r
        BY <1>1, <3>3, PoppedKeeps
      <4>2. CASE r = Dependency[1]
        BY <1>2, <1>16, <4>2
      <4>3. CASE \E k \in 1..Len(Popped(stack)[i].todo) : Popped(stack)[i].todo[k][1] = r
        BY <1>6, <4>3
      <4> QED
        BY <4>1, <4>2, <4>3
    <3> QED
      BY <3>1, <3>2, <3>3
  <2>3. ASSUME NEW r \in Wanted(c)
        PROVE  \E k \in 1..Len(stack'[n + 1].todo) : stack'[n + 1].todo[k][1] = r
    <3>1. r \in Asked(d.to, profile) /\ project \in Projects
      BY <1>1, <1>5, <2>3 DEF Wanted, Types
    <3>2. PICK b \in BOOLEAN : b = FALSE
      OBVIOUS
    <3>3. \E k \in 1..Len(Todo(project[d.to], profile, b)) : Todo(project[d.to], profile, b)[k][1] = r
      BY <1>4, <3>1, TodoComplete
    <3>4. stack'[n + 1].todo = Todo(project[d.to], profile, b)
      BY <1>6, <3>2
    <3> QED
      BY <3>3, <3>4
  <2>4. ASSUME NEW i \in 1..(n + 1), NEW r \in Wanted(stack[i].of)'
        PROVE  Done(r)' \/ \E k \in 1..Len(stack'[i].todo) : stack'[i].todo[k][1] = r
    <3>1. r \in Wanted(stack'[i].of)
      BY <1>4, <2>4 DEF Wanted, Asked
    <3>2. CASE i \in 1..n
      <4>1. r \in Wanted(stack[i].of)
        BY <1>6, <3>1, <3>2
      <4> QED
        BY <2>2, <3>2, <4>1
    <3>3. CASE i = n + 1
      <4>1. r \in Wanted(c)
        BY <1>6, <3>1, <3>3
      <4> QED
        BY <2>3, <3>3, <4>1
    <3> QED
      BY <1>7, <3>2, <3>3
  <2> HIDE DEF n
  <2> QED
    BY <1>4, <1>6, <2>1, <2>4 DEF Complete
<1>19. Grounded'
  <2>1. \A m \in visited_manifests : Joined(Root, m)'
    BY <1>11, JoinedStays DEF Walked, Grounded, Rooted
  <2>2. Joined(Root, d.to)'
    BY <1>2, <1>13 DEF Walked, Grounded, Rooted
  <2> QED
    BY <1>4, <2>1, <2>2 DEF Grounded
<1>20. Chain'
  <2>6. PICK q : q = n + 1
    OBVIOUS
  <2>1. ASSUME NEW i \in 1..n
        PROVE  \E a : /\ a \in visited_manifests /\ a = stack[i].of.manifest
                      /\ a = stack'[i].of.manifest
    BY <1>6 DEF IInv, Guarded
  <2>2. ASSUME NEW i \in 1..n, NEW k \in 1..n, i < k
        PROVE  Joined(stack[i].of.manifest, stack[k].of.manifest)'
    <3>1. PICK a, b : a = stack[i].of.manifest /\ b = stack[k].of.manifest
      OBVIOUS
    <3>2. Joined(a, b)
      <4>1. Joined(stack[i].of.manifest, stack[k].of.manifest)
        BY <2>2 DEF Walked, Chain
      <4> QED
        BY <3>1, <4>1 DEF Joined
    <3>3. Joined(a, b)'
      BY <1>11, <2>1, <3>1, <3>2, JoinedStays
    <3> QED
      BY <1>6, <3>1, <3>3 DEF Joined
  <2>3. ASSUME NEW i \in 1..n
        PROVE  Joined(stack[i].of.manifest, stack[q].of.manifest)'
    <3>1. PICK a : a = stack[i].of.manifest
      OBVIOUS
    <3>2. stack[n].of = x
      BY <1>1, <1>2, Running
    <3>3. Joined(a, x.manifest)
      <4>1. CASE i = n
        BY <3>1, <3>2, <4>1, JoinedSelf
      <4>2. CASE i # n
        <5>1. i < n
          BY <1>6, <4>2
        <5>2. Joined(stack[i].of.manifest, stack[n].of.manifest)
          BY <1>8, <5>1 DEF Walked, Chain
        <5> QED
          BY <3>1, <3>2, <5>2 DEF Joined
      <4> QED
        BY <4>1, <4>2
    <3>4. Joined(a, d.to)'
      BY <1>13, <2>1, <3>1, <3>3
    <3>5. stack'[q].of.manifest = d.to /\ stack'[i].of.manifest = a
      BY <1>5, <1>6, <2>6, <3>1
    <3> QED
      BY <3>4, <3>5 DEF Joined
  <2>4. ASSUME NEW i \in 1..(n + 1), NEW k \in 1..(n + 1), i < k
        PROVE  i \in 1..n /\ (k \in 1..n \/ k = n + 1)
    BY <1>6, <2>4
  <2> HIDE DEF n
  <2>5. ASSUME NEW i \in 1..(n + 1), NEW k \in 1..(n + 1), i < k
        PROVE  Joined(stack[i].of.manifest, stack[k].of.manifest)'
    <3>1. CASE k \in 1..n
      BY <2>2, <2>4, <2>5, <3>1
    <3>2. CASE k = n + 1
      <4>1. Joined(stack[i].of.manifest, stack[q].of.manifest)'
        BY <2>3, <2>4, <2>5
      <4> QED
        BY <2>6, <3>2, <4>1
    <3> QED
      BY <2>4, <2>5, <3>1, <3>2
  <2> QED
    BY <1>6, <2>5 DEF Chain
<1>21. PostOrder'
  <2> SUFFICES ASSUME NEW j \in N, NEW r \in Due(discovered_projects[j])'
               PROVE  \/ \E l \in N : l <= j /\ discovered_projects[l].manifest = r.to
                      \/ Joined(r.to, discovered_projects[j].manifest)'
    BY <1>4 DEF PostOrder
  <2>1. PICK e : e = discovered_projects[j] /\ r \in Due(discovered_projects[j])
    BY <1>17
  <2>2. CASE Joined(r.to, discovered_projects[j].manifest)
    <3>1. PICK a, b : a = r.to /\ b = e.manifest
      OBVIOUS
    <3>2. Joined(a, b)
      BY <2>1, <2>2, <3>1 DEF Joined
    <3>3. a \in visited_manifests
      BY <2>1, <3>1 DEF Walked, Complete, Done
    <3>4. Joined(a, b)'
      BY <1>11, <3>2, <3>3, JoinedStays
    <3> QED
      BY <1>4, <2>1, <3>1, <3>4 DEF Joined
  <2> QED
    BY <2>1, <2>2 DEF Walked, PostOrder
<1> QED
  BY <1>14, <1>15, <1>18, <1>19, <1>20, <1>21 DEF Walked

(* The candidate on top of the stack is now a discovered one. *)
LEMMA LeaveMoves ==
  ASSUME IInv, Leave
  PROVE  LET n == Len(stack)
             k == Len(discovered_projects)
         IN  /\ n \in Nat \ {0} /\ k \in Nat /\ stack[n] = Top /\ Len(stack') = n - 1
             /\ \A i \in 1..(n - 1) : stack'[i] = stack[i]
             /\ Len(discovered_projects') = k + 1 /\ discovered_projects'[k + 1] = Top.of
             /\ \A j \in 1..k : discovered_projects'[j] = discovered_projects[j]
             /\ Current' = Current
<1> DEFINE n == Len(stack)
           k == Len(discovered_projects)
<1>1. Types /\ stack # <<>>
  BY DEF IInv, Leave
<1>2. /\ n \in Nat \ {0} /\ k \in Nat /\ stack[n] = Top /\ Len(stack') = n - 1
      /\ \A i \in 1..(n - 1) : stack'[i] = stack[i]
      /\ Len(discovered_projects') = k + 1 /\ discovered_projects'[k + 1] = Top.of
      /\ \A j \in 1..k : discovered_projects'[j] = discovered_projects[j]
  <2>1. stack \in Seq(Activations) /\ stack' = Front(stack)
    BY <1>1 DEF Types, Leave
  <2>2. n \in Nat \ {0} /\ stack[n] = Top
    BY <1>1, <2>1 DEF Top, Last
  <2>3. Len(stack') = n - 1 /\ \A i \in 1..(n - 1) : stack'[i] = stack[i]
    BY <1>1, <2>1, FrontFacts
  <2>4. discovered_projects \in Seq(Candidates)
        /\ discovered_projects' = Append(discovered_projects, Top.of)
    BY <1>1 DEF Types, Leave
  <2>5. Top.of \in Candidates
    <3>1. stack[n] \in Activations
      BY <2>1, <2>2
    <3> QED
      BY <2>2, <3>1 DEF Activations
  <2> HIDE DEF n
  <2> QED
    BY <2>2, <2>3, <2>4, <2>5, AppendProperties
<1>3. /\ \A i \in 1..n : i \in 1..(n - 1) \/ i = n
      /\ \A j \in 1..(k + 1) : j \in 1..k \/ j = k + 1
      /\ 1..(n - 1) \subseteq 1..n /\ n \in 1..n /\ 1..k \subseteq 1..(k + 1)
      /\ k + 1 \in 1..(k + 1) /\ 1 \in 1..n
  BY <1>2
<1>4. Current' = Current
  <2>1. {stack[i].of : i \in 1..n} = {stack'[i].of : i \in 1..(n - 1)} \cup {Top.of}
    <3>1. /\ \A i \in 1..(n - 1) : stack'[i].of = stack[i].of /\ i \in 1..n
          /\ stack[n].of = Top.of
      BY <1>2, <1>3
    <3> HIDE DEF n
    <3>2. {stack[i].of : i \in 1..n} \subseteq {stack'[i].of : i \in 1..(n - 1)} \cup {Top.of}
      BY <1>3, <3>1
    <3>3. {stack'[i].of : i \in 1..(n - 1)} \cup {Top.of} \subseteq {stack[i].of : i \in 1..n}
      BY <1>3, <3>1
    <3> QED
      BY <3>2, <3>3
  <2>2. {discovered_projects'[j] : j \in 1..(k + 1)}
        = {discovered_projects[j] : j \in 1..k} \cup {Top.of}
    BY <1>2, <1>3
  <2> HIDE DEF n, k
  <2>3. Current = {stack[i].of : i \in 1..n} \cup {discovered_projects[j] : j \in 1..k}
    BY DEF Current, n, k
  <2>4. Current' = {stack'[i].of : i \in 1..(n - 1)}
                   \cup {discovered_projects'[j] : j \in 1..(k + 1)}
    BY <1>2 DEF Current
  <2> QED
    BY <2>1, <2>2, <2>3, <2>4
<1> QED
  BY <1>2, <1>4

LEMMA LeaveWalked ==
  IInv /\ Pending /\ Walked /\ Leave => Walked'
<1> SUFFICES ASSUME IInv, Pending, Walked, Leave PROVE Walked'
  OBVIOUS
<1> DEFINE n == Len(stack)
           k == Len(discovered_projects)
<1>1. Types /\ stack # <<>>
  BY DEF IInv, Leave
<1>2. /\ n \in Nat \ {0} /\ k \in Nat /\ stack[n] = Top /\ Len(stack') = n - 1
      /\ \A i \in 1..(n - 1) : stack'[i] = stack[i]
      /\ Len(discovered_projects') = k + 1 /\ discovered_projects'[k + 1] = Top.of
      /\ \A j \in 1..k : discovered_projects'[j] = discovered_projects[j]
  BY LeaveMoves
<1>3. /\ \A i \in 1..n : i \in 1..(n - 1) \/ i = n
      /\ \A j \in 1..(k + 1) : j \in 1..k \/ j = k + 1
      /\ 1..(n - 1) \subseteq 1..n /\ n \in 1..n /\ 1..k \subseteq 1..(k + 1)
      /\ k + 1 \in 1..(k + 1) /\ 1 \in 1..n
  BY <1>2
<1>4. Current' = Current
  BY LeaveMoves
<1>5. project' = project /\ visited_manifests' = visited_manifests
  BY DEF Leave
<1>6. Grows
  <2>1. \A c \in Current : Leads(c) \subseteq Leads(c)'
    BY <1>5, Later
  <2>2. \A c \in Current : c.manifest \in visited_manifests
    BY CurrentVisited
  <2> QED
    BY <1>4, <1>5, <2>1, <2>2 DEF Grows
<1>7. Rooted'
  <2>1. Root \in visited_manifests' /\ \A m \in visited_manifests' : \E c \in Current' : c.manifest = m
    BY <1>4, <1>5 DEF Walked, Rooted
  <2>2. stack' # <<>> => stack'[1].of.manifest = Root
    <3>1. stack' \in Seq(Activations)
      BY <1>1, FrontFacts DEF Types, Leave
    <3>2. stack' # <<>> => 1 \in 1..(n - 1)
      BY <1>2, <3>1
    <3> QED
      BY <1>1, <1>2, <3>2 DEF Walked, Rooted
  <2>3. outcome' \in {"selecting", "resolved"} => stack' = <<>>
    <3>1. stack' \in Seq(Activations)
      BY <1>1, FrontFacts DEF Types, Leave
    <3>2. n = 1 => stack' = <<>>
      BY <1>2, <3>1
    <3>3. outcome = "discovering" /\ outcome' = IF n = 1 THEN "selecting" ELSE outcome
      BY DEF Leave
    <3> QED
      BY <3>2, <3>3
  <2> QED
    BY <2>1, <2>2, <2>3 DEF Rooted
<1>8. AllRequested'
  BY <1>4, <1>6, RequestedStays DEF Walked, AllRequested
<1>9. PICK c : c = Top.of /\ c \in Current
  <2>1. Top.of \in Current
    BY <1>2, <1>3 DEF Current
  <2> QED
    BY <2>1
<1>10. \A r \in Due(c) : Done(r)
  <2>1. \A r \in Wanted(stack[n].of) :
          \/ Done(r)
          \/ \E l \in 1..Len(stack[n].todo) : stack[n].todo[l][1] = r
    BY <1>3 DEF Walked, Complete
  <2>2. stack[n].todo = <<>>
    BY <1>2 DEF Leave
  <2>3. \A r \in Wanted(stack[n].of) : Done(r)
    BY <2>1, <2>2
  <2>4. Wanted(stack[n].of) = Wanted(c)
    BY <1>2, <1>9 DEF Wanted
  <2>5. Asked(c.manifest, 0) \subseteq Asked(c.manifest, c.selected_profile)
    BY <1>1, <1>9, CurrentVisited, AlwaysAsked DEF Types
  <2>6. Due(c) \subseteq Wanted(c)
    BY <2>5 DEF Due, Wanted
  <2> QED
    BY <2>3, <2>4, <2>6
<1>11. ASSUME NEW j \in 1..(k + 1)
       PROVE  \E e : /\ e = discovered_projects'[j] /\ e \in Current
                     /\ Due(discovered_projects[j])' \subseteq Due(e)
                     /\ j = k + 1 => e = c
                     /\ j \in 1..k => e = discovered_projects[j]
  <2>1. PICK e : e = discovered_projects'[j]
    OBVIOUS
  <2>2. e \in Current
    <3>1. e \in Current'
      BY <1>2, <2>1 DEF Current
    <3> QED
      BY <1>4, <3>1
  <2>3. Due(e)' \subseteq Due(e)
    BY <1>1, <1>5, <2>2, CurrentVisited, DueLater
  <2>4. Due(discovered_projects[j])' = Due(e)'
    BY <2>1 DEF Due, Kept, Differ
  <2>5. j = k + 1 => e = c
    BY <1>2, <1>9, <2>1
  <2>6. j \in 1..k => e = discovered_projects[j]
    BY <1>2, <2>1
  <2> QED
    BY <2>1, <2>2, <2>3, <2>4, <2>5, <2>6
<1>12. ASSUME NEW j \in 1..k, NEW e, e = discovered_projects[j]
       PROVE  /\ \A r \in Due(e) : Done(r)
              /\ \A r \in Due(e) :
                   \/ \E l \in 1..k : l <= j /\ discovered_projects[l].manifest = r.to
                   \/ Joined(r.to, e.manifest)
  <2>1. Due(e) = Due(discovered_projects[j])
    BY <1>12 DEF Due, Kept, Differ
  <2>2. \A r : Joined(r.to, e.manifest) = Joined(r.to, discovered_projects[j].manifest)
    BY <1>12 DEF Joined
  <2> QED
    BY <2>1, <2>2 DEF Walked, Complete, PostOrder
<1>13. Complete'
  <2>1. ASSUME NEW j \in 1..(k + 1), NEW r \in Due(discovered_projects[j])'
        PROVE  Done(r)'
    <3>1. PICK e : /\ e = discovered_projects'[j] /\ r \in Due(e)
                   /\ j = k + 1 => e = c
                   /\ j \in 1..k => e = discovered_projects[j]
      BY <1>11, <2>1
    <3>2. CASE j = k + 1
      BY <1>6, <1>10, <3>1, <3>2, DoneStays
    <3>3. CASE j \in 1..k
      BY <1>6, <1>12, <3>1, <3>3, DoneStays
    <3> QED
      BY <1>3, <3>2, <3>3
  <2>2. ASSUME NEW i \in 1..(n - 1), NEW r \in Wanted(stack[i].of)'
        PROVE  \/ Done(r)'
               \/ \E l \in 1..Len(stack'[i].todo) : stack'[i].todo[l][1] = r
    <3>1. stack'[i] = stack[i] /\ i \in 1..n
      BY <1>2, <1>3
    <3>2. r \in Wanted(stack[i].of)
      BY <1>5, <2>2, <3>1 DEF Wanted, Asked
    <3>3. Done(r) \/ \E l \in 1..Len(stack[i].todo) : stack[i].todo[l][1] = r
      BY <3>1, <3>2 DEF Walked, Complete
    <3>4. Done(r) => Done(r)'
      BY <1>6, DoneStays
    <3> QED
      BY <3>1, <3>3, <3>4
  <2> HIDE DEF n, k
  <2> QED
    BY <1>2, <2>1, <2>2 DEF Complete
<1>14. Grounded'
  BY <1>5, <1>6, JoinedStays DEF Walked, Grounded, Rooted
<1>15. Chain'
  <2>1. ASSUME NEW i \in 1..(n - 1), NEW l \in 1..(n - 1), i < l
        PROVE  Joined(stack[i].of.manifest, stack[l].of.manifest)'
    <3>1. i \in 1..n /\ l \in 1..n /\ stack'[i] = stack[i] /\ stack'[l] = stack[l]
      BY <1>2, <1>3
    <3>2. PICK a, b : a = stack[i].of.manifest /\ b = stack[l].of.manifest
      OBVIOUS
    <3>3. Joined(a, b)
      <4>1. Joined(stack[i].of.manifest, stack[l].of.manifest)
        BY <2>1, <3>1 DEF Walked, Chain
      <4> QED
        BY <3>2, <4>1 DEF Joined
    <3>4. a \in visited_manifests
      BY <3>1, <3>2 DEF IInv, Guarded
    <3>5. Joined(a, b)'
      BY <1>6, <3>3, <3>4, JoinedStays
    <3> QED
      BY <3>1, <3>2, <3>5 DEF Joined
  <2> HIDE DEF n
  <2> QED
    BY <1>2, <2>1 DEF Chain
<1>16. PostOrder'
  <2>1. ASSUME NEW j \in 1..(k + 1), NEW r \in Due(discovered_projects[j])'
        PROVE  \/ \E l \in 1..(k + 1) : l <= j /\ discovered_projects'[l].manifest = r.to
               \/ Joined(r.to, discovered_projects[j].manifest)'
    <3>1. PICK e : /\ e = discovered_projects'[j] /\ e \in Current /\ r \in Due(e)
                   /\ j = k + 1 => e = c
                   /\ j \in 1..k => e = discovered_projects[j]
      BY <1>11, <2>1
    <3>2. Done(r)
      <4>1. CASE j = k + 1
        BY <1>10, <3>1, <4>1
      <4>2. CASE j \in 1..k
        BY <1>12, <3>1, <4>2
      <4> QED
        BY <1>3, <4>1, <4>2
    <3>3. \/ \E l \in 1..k : l <= j /\ discovered_projects[l].manifest = r.to
          \/ Joined(r.to, e.manifest)
      <4>1. CASE j \in 1..k
        BY <1>12, <3>1, <4>1
      <4>2. CASE j = k + 1
        <5>1. PICK x \in Current : x.manifest = r.to
          BY <3>2 DEF Done, Walked, Rooted
        <5>2. CASE \E l \in 1..k : x = discovered_projects[l]
          <6>1. \A l \in 1..k : l <= j
            BY <1>2, <4>2
          <6> QED
            BY <5>1, <5>2, <6>1
        <5>3. CASE \E i \in 1..n : x = stack[i].of
          <6>1. PICK i \in 1..n : x = stack[i].of
            BY <5>3
          <6>2. e = stack[n].of
            BY <1>2, <1>9, <3>1, <4>2
          <6>3. CASE i = n
            <7>1. r.to = e.manifest
              BY <5>1, <6>1, <6>2, <6>3
            <7> QED
              BY <7>1, JoinedSelf
          <6>4. CASE i # n
            <7>1. i < n
              BY <1>2, <6>4
            <7>2. Joined(stack[i].of.manifest, stack[n].of.manifest)
              BY <1>3, <7>1 DEF Walked, Chain
            <7> QED
              BY <5>1, <6>1, <6>2, <7>2 DEF Joined
          <6> QED
            BY <6>3, <6>4
        <5> QED
          BY <5>2, <5>3 DEF Current
      <4> QED
        BY <1>3, <4>1, <4>2
    <3>4. CASE \E l \in 1..k : l <= j /\ discovered_projects[l].manifest = r.to
      <4>1. PICK l \in 1..k : l <= j /\ discovered_projects[l].manifest = r.to
        BY <3>4
      <4>2. l \in 1..(k + 1) /\ discovered_projects'[l].manifest = r.to
        BY <1>2, <1>3, <4>1
      <4> QED
        BY <4>1, <4>2
    <3>5. CASE Joined(r.to, e.manifest)
      <4>1. PICK a, b : a = r.to /\ b = e.manifest
        OBVIOUS
      <4>2. Joined(a, b) /\ a \in visited_manifests
        BY <3>2, <3>5, <4>1 DEF Joined, Done
      <4>3. Joined(a, b)'
        BY <1>6, <4>2, JoinedStays
      <4>4. Joined(r.to, discovered_projects[j].manifest)'
        BY <3>1, <4>1, <4>3 DEF Joined
      <4> QED
        BY <4>4
    <3> QED
      BY <3>3, <3>4, <3>5
  <2> HIDE DEF k
  <2> QED
    BY <1>2, <2>1 DEF PostOrder
<1> QED
  BY <1>7, <1>8, <1>13, <1>14, <1>15, <1>16 DEF Walked

LEMMA WalkedStep ==
  IInv /\ Pending /\ Walked /\ [Next]_vars => Walked'
<1> SUFFICES ASSUME IInv, Pending, Walked, [Next]_vars PROVE Walked'
  OBVIOUS
<1>1. ASSUME UNCHANGED <<project, walk>>,
             outcome' \in {"selecting", "resolved"} => outcome \in {"selecting", "resolved"}
      PROVE  Walked'
  <2>1. project' = project /\ stack' = stack /\ visited_manifests' = visited_manifests
        /\ discovered_projects' = discovered_projects
    BY <1>1 DEF walk
  <2>2. Current' = Current
    BY <2>1 DEF Current
  <2>3. Rooted'
    BY <1>1, <2>1, <2>2 DEF Walked, Rooted
  <2>4. /\ \A m, profile : Asked(m, profile)' = Asked(m, profile)
        /\ \A m : AskedOf(m)' = AskedOf(m) /\ \A c : Wanted(c)' = Wanted(c)
    BY <2>1, AskedStays
  <2>5. \A c : Kept(c)' = Kept(c)
    BY <2>1, <2>4 DEF Kept, Differ
  <2>6. \A c : Leads(c)' = Leads(c) /\ Due(c)' = Due(c)
    BY <2>4, <2>5 DEF Leads, Due
  <2>7. \A Q : ClosedIn(Q)' = ClosedIn(Q)
    BY <2>1, <2>2, <2>6 DEF ClosedIn
  <2>8. \A m, n : Joined(m, n)' = Joined(m, n)
    BY <2>1, <2>7 DEF Joined
  <2>9. \A m : Cyclic(m)' = Cyclic(m)
    BY <2>2, <2>6, <2>8 DEF Cyclic
  <2>10. \A d : Done(d)' = Done(d)
    BY <2>1, <2>2, <2>9 DEF Done, Heard
  <2>11. AllRequested'
    BY <2>2, <2>6 DEF Walked, AllRequested, Requested
  <2>12. /\ \A j : Due(discovered_projects[j])' = Due(discovered_projects[j])
         /\ \A i : Wanted(stack[i].of)' = Wanted(stack[i].of)
    BY <2>1, <2>4, <2>5 DEF Due, Wanted, Kept, Differ
  <2>13. Complete'
    BY <2>1, <2>10, <2>12 DEF Walked, Complete
  <2>14. Grounded'
    BY <2>1, <2>8 DEF Walked, Grounded
  <2>15. Chain'
    <3>1. \A i, k : Joined(stack[i].of.manifest, stack[k].of.manifest)'
                  = Joined(stack[i].of.manifest, stack[k].of.manifest)
      BY <2>1, <2>7 DEF Joined
    <3> QED
      BY <2>1, <3>1 DEF Walked, Chain
  <2>16. PostOrder'
    <3>1. \A d, j : Joined(d.to, discovered_projects[j].manifest)'
                  = Joined(d.to, discovered_projects[j].manifest)
      BY <2>1, <2>7 DEF Joined
    <3> QED
      BY <2>1, <2>12, <3>1 DEF Walked, PostOrder
  <2> QED
    BY <2>3, <2>11, <2>13, <2>14, <2>15, <2>16 DEF Walked
<1>2. CASE VisitAgain
  BY <1>2, VisitAgainWalked
<1>3. CASE Enter
  BY <1>3, EnterWalked
<1>4. CASE Leave
  BY <1>4, LeaveWalked
<1>5. CASE Refuse \/ Incompatible
  <2>1. UNCHANGED <<project, walk>> /\ outcome' = "failed"
    BY <1>5 DEF Refuse, Incompatible
  <2> QED
    BY <1>1, <2>1
<1>6. CASE Select
  <2>1. UNCHANGED <<project, walk>> /\ outcome = "selecting"
    BY <1>6 DEF Select, Selecting
  <2> QED
    BY <1>1, <2>1
<1>7. CASE UNCHANGED vars
  <2>1. UNCHANGED <<project, walk>> /\ outcome' = outcome
    BY <1>7 DEF vars
  <2> QED
    BY <1>1, <2>1
<1> QED
  BY <1>2, <1>3, <1>4, <1>5, <1>6, <1>7 DEF Next

(* When discovery has ended, what was visited is what was found. *)
LEMMA AllFound ==
  ASSUME IInv, Rooted, stack = <<>>
  PROVE  Current = ToSet(discovered_projects) /\ Found = visited_manifests
<1>1. DOMAIN discovered_projects = 1..Len(discovered_projects)
  BY DEF IInv, Types
<1>2. Len(stack) = 0
  OBVIOUS
<1>3. Current = ToSet(discovered_projects)
  BY <1>1, <1>2 DEF Current, ToSet
<1>4. \A c \in Current : c.manifest \in visited_manifests
  BY CurrentVisited
<1> QED
  BY <1>3, <1>4 DEF Found, Rooted

(* The operators of the properties are then those of the walk. *)
LEMMA WhenFound ==
  ASSUME IInv, Walked, stack = <<>>
  PROVE  /\ Current = ToSet(discovered_projects) /\ Found = visited_manifests
         /\ \A c : Followed(c) = Due(c) /\ Followable(c) = Leads(c)
         /\ \A m, n : Reaches(m, n) = Joined(m, n)
         /\ \A m : OnCycle(m) = Cyclic(m)
<1>1. Current = ToSet(discovered_projects) /\ Found = visited_manifests
  BY AllFound DEF Walked
<1>2. \A c : Settled(c) <=> Kept(c)
  BY <1>1 DEF Settled, Kept, Differ
<1>3. \A c : Followed(c) = Due(c) /\ Followable(c) = Leads(c)
  BY <1>2 DEF Followed, Due, Followable, Leads, Wanted
<1>4. \A Q : Closed(Q) <=> ClosedIn(Q)
  BY <1>1, <1>3 DEF Closed, ClosedIn
<1>5. \A m, n : Reaches(m, n) <=> Joined(m, n)
  BY <1>1, <1>4 DEF Reaches, Joined
<1>6. \A m : OnCycle(m) <=> Cyclic(m)
  BY <1>1, <1>3, <1>5 DEF OnCycle, Cyclic
<1>7. \A m, n : Reaches(m, n) = Joined(m, n)
  BY <1>5 DEF Reaches, Joined
<1>8. \A m : OnCycle(m) = Cyclic(m)
  BY <1>6 DEF OnCycle, Cyclic
<1> QED
  BY <1>1, <1>3, <1>7, <1>8

LEMMA FollowedDone ==
  ASSUME IInv, Walked, stack = <<>>,
         NEW c \in ToSet(discovered_projects), NEW d \in Followed(c)
  PROVE  Done(d)
<1>1. PICK j \in 1..Len(discovered_projects) : c = discovered_projects[j]
  BY DEF IInv, Types, ToSet
<1>2. d \in Due(c)
  BY WhenFound
<1>3. d \in Due(discovered_projects[j])
  BY <1>1, <1>2 DEF Due, Kept, Differ
<1> QED
  BY <1>3 DEF Walked, Complete

LEMMA WalkedDiscovers ==
  IInv /\ Walked => DiscoversReachable
<1> SUFFICES ASSUME IInv, Walked, outcome = "resolved"
             PROVE  /\ Root \in Found
                    /\ \A c \in ToSet(discovered_projects) : \A d \in Followed(c) : d.to \in Found
                    /\ \A m \in Found : Reaches(Root, m)
  BY DEF DiscoversReachable
<1>1. stack = <<>>
  BY DEF Walked, Rooted
<1>2. Found = visited_manifests /\ \A m, n : Reaches(m, n) = Joined(m, n)
  BY <1>1, WhenFound
<1>3. Root \in Found
  BY <1>2 DEF Walked, Rooted
<1>4. \A c \in ToSet(discovered_projects) : \A d \in Followed(c) : d.to \in Found
  BY <1>1, <1>2, FollowedDone DEF Done
<1>5. \A m \in Found : Reaches(Root, m)
  BY <1>2 DEF Walked, Grounded
<1> QED
  BY <1>3, <1>4, <1>5

THEOREM WalkInvariance ==
  Spec => [](IInv /\ Pending /\ Walked)
<1>1. Init => Pending
  BY InitPending
<1>2. Init /\ [][Next]_vars /\ []IInv => [](Pending /\ Walked)
  BY <1>1, InitWalked, PendingStep, WalkedStep, PTL
<1> QED
  BY <1>2, Invariance, PTL DEF Spec

(* Resolution leaves nothing out and makes nothing up: of any set of
   manifests, whatever a candidate follows is a candidate, and every
   candidate is reached from the root. *)
THEOREM DiscoveryIsExact ==
  Spec => []DiscoversReachable
<1>1. IInv /\ Pending /\ Walked => DiscoversReachable
  BY WalkedDiscovers
<1> QED
  BY <1>1, WalkInvariance, PTL

-----------------------------------------------------------------------------
(* Selection. *)

Names == {project[m].name : m \in DOMAIN project}

(* Each name that was discovered is listed, and is so once. *)
Listed ==
  /\ discovery_order \in Seq(Names)
  /\ \A i, j \in 1..Len(discovery_order) : discovery_order[i] = discovery_order[j] => i = j
  /\ \A j \in 1..Len(discovered_projects) : \E i \in 1..Len(discovery_order) :
       discovery_order[i] = Name(discovered_projects[j])
  /\ \A i \in 1..Len(discovery_order) : \E j \in 1..Len(discovered_projects) :
       discovery_order[i] = Name(discovered_projects[j])

(* The names are selected in their order, each in its highest version. *)
Highest(c) ==
  /\ \E j \in 1..Len(discovered_projects) : discovered_projects[j].manifest = c.manifest
  /\ \A j \in 1..Len(discovered_projects) :
       Name(discovered_projects[j]) = Name(c) => ~Less(Version(c), Version(discovered_projects[j]))
Chosen ==
  /\ final_selected_projects \in Seq(Candidates)
  /\ Len(final_selected_projects) <= Len(discovery_order)
  /\ outcome \in {"discovering", "selecting", "resolved", "failed"}
  /\ outcome = "discovering" => final_selected_projects = <<>>
  /\ outcome = "resolved" => Len(final_selected_projects) = Len(discovery_order)
  /\ \A i \in 1..Len(final_selected_projects) :
       /\ Name(final_selected_projects[i]) = discovery_order[i]
       /\ Highest(final_selected_projects[i])

(* The last position that is in a set. *)
LEMMA LastPosition ==
  ASSUME NEW n \in Nat, NEW S \in SUBSET (1..n), S # {}
  PROVE  Max(S) \in S /\ \A j \in S : j <= Max(S)
<1> DEFINE D == {n - i : i \in S}
<1>1. D \in SUBSET Nat /\ D # {}
  <2>1. \A i \in 1..n : n - i \in Nat
    OBVIOUS
  <2>2. \A i \in S : i \in 1..n
    OBVIOUS
  <2> QED
    BY <2>1, <2>2
<1>2. Min(D) \in D /\ \A y \in D : Min(D) <= y
  <2>1. PICK x \in D : \A y \in D : x <= y
    <3> DEFINE R == {ss \in Nat \X Nat : ss[1] < ss[2]}
    <3>1. IsWellFoundedOn(R, Nat)
      BY NatLessThanWellFounded DEF OpToRel
    <3>2. \A x \in Nat, y \in Nat : <<y, x>> \notin R => x <= y
      OBVIOUS
    <3> HIDE DEF R, D
    <3>3. PICK x \in D : \A y \in D : <<y, x>> \notin R
      BY <1>1, <3>1, WFMin
    <3>4. x \in Nat /\ \A y \in D : y \in Nat
      BY <1>1
    <3> QED
      BY <3>2, <3>3, <3>4
  <2> HIDE DEF D
  <2> QED
    BY <2>1 DEF Min
<1>3. PICK i \in S : Min(D) = n - i
  BY <1>2
<1>4. ASSUME NEW j \in S PROVE i >= j
  <2>1. Min(D) <= n - j
    BY <1>2
  <2>2. i \in Int /\ j \in Int
    OBVIOUS
  <2> HIDE DEF D
  <2> QED
    BY <1>3, <2>1, <2>2
<1>5. Max(S) \in S /\ \A j \in S : Max(S) >= j
  <2> HIDE DEF D
  <2> QED
    BY <1>3, <1>4 DEF Max
<1> QED
  BY <1>5

(* A sequence of a set has all its elements. *)
LEMMA SequenceOfSet ==
  ASSUME NEW S, IsFiniteSet(S), S # {}, NEW s \in SetToSeqs(S)
  PROVE  /\ s \in Seq(S) /\ Len(s) \in Nat \ {0}
         /\ \A x \in S : \E i \in 1..Len(s) : s[i] = x
<1>1. PICK n \in Nat : n = Cardinality(S)
  BY FS_CardinalityType
<1>2. s \in [1..n -> S] /\ \A i, j \in 1..n : i # j => s[i] # s[j]
  BY <1>1 DEF SetToSeqs
<1>3. n # 0
  BY <1>1, FS_EmptySet
<1>4. s \in Seq(S) /\ Len(s) = n
  BY <1>2
<1>5. s \in Injection(1..n, S)
  BY <1>2, Fun_IsInj
<1>6. Cardinality(1..n) = n
  BY <1>3, FS_Interval
<1>7. s \in Surjection(1..n, S)
  BY <1>1, <1>5, <1>6, FS_Injection
<1>8. \A x \in S : \E i \in 1..n : s[i] = x
  BY <1>7, Fun_SurjectionProperties
<1> QED
  BY <1>3, <1>4, <1>8

(* What is selected has the last manifest. *)
LEMMA AdoptedType ==
  ASSUME NEW S, S \subseteq Candidates, NEW s \in Seq(S), Len(s) \in Nat \ {0}
  PROVE  /\ Adopted(s) \in Candidates
         /\ Adopted(s).manifest = s[Len(s)].manifest
<1> DEFINE explicit == {i \in DOMAIN s : s[i].explicit_profile}
<1>1. DOMAIN s = 1..Len(s) /\ Len(s) \in 1..Len(s) /\ Last(s) = s[Len(s)]
  BY DEF Last
<1>2. \A i \in 1..Len(s) : s[i] \in Candidates
  BY <1>1
<1>3. CASE explicit = {}
  <2>1. Adopted(s) = Last(s)
    BY <1>3 DEF Adopted
  <2> QED
    BY <1>1, <1>2, <2>1
<1>4. CASE explicit # {}
  <2>1. Max(explicit) \in explicit
    BY <1>1, <1>4, LastPosition
  <2>2. PICK k \in 1..Len(s) : k = Max(explicit)
    BY <1>1, <2>1
  <2> HIDE DEF explicit
  <2>3. Adopted(s) = Candidate(Last(s).manifest, s[k].selected_profile, TRUE)
    BY <1>4, <2>2 DEF Adopted, explicit
  <2>4. Last(s).manifest \in DOMAIN project /\ s[k].selected_profile \in Nat
    BY <1>1, <1>2 DEF Candidates
  <2> QED
    BY <1>1, <2>3, <2>4 DEF Candidate, Candidates
<1> QED
  BY <1>3, <1>4

LEMMA InitChosen ==
  Init => Listed /\ Chosen
<1> SUFFICES ASSUME Init PROVE Listed /\ Chosen
  OBVIOUS
<1>1. /\ Len(discovered_projects) = 0 /\ discovery_order = <<>> /\ Len(discovery_order) = 0
      /\ final_selected_projects = <<>> /\ Len(final_selected_projects) = 0
      /\ outcome = "discovering"
  BY DEF Init
<1>2. 1..0 = {}
  OBVIOUS
<1> QED
  BY <1>1, <1>2 DEF Listed, Chosen

LEMMA ListedLater ==
  ASSUME project' = project, discovery_order' \in Seq(Names),
         \A i, j \in 1..Len(discovery_order') : discovery_order'[i] = discovery_order'[j] => i = j,
         \A j \in 1..Len(discovered_projects') : \E i \in 1..Len(discovery_order') :
           discovery_order'[i] = Name(discovered_projects'[j]),
         \A i \in 1..Len(discovery_order') : \E j \in 1..Len(discovered_projects') :
           discovery_order'[i] = Name(discovered_projects'[j])
  PROVE  Listed'
<1>1. Names' = Names
  BY DEF Names
<1>2. \A j \in 1..Len(discovered_projects') : \E i \in 1..Len(discovery_order') :
        discovery_order'[i] = Name(discovered_projects[j])'
  BY DEF Name
<1>3. \A i \in 1..Len(discovery_order') : \E j \in 1..Len(discovered_projects') :
        discovery_order'[i] = Name(discovered_projects[j])'
  BY DEF Name
<1> QED
  BY <1>1, <1>2, <1>3 DEF Listed

(* Discovery that does not return changes no name. *)
LEMMA SameNamesListed ==
  ASSUME Listed, UNCHANGED <<project, discovery_order>>,
         Len(discovered_projects') = Len(discovered_projects),
         \A j \in 1..Len(discovered_projects) :
           discovered_projects'[j].manifest = discovered_projects[j].manifest
  PROVE  Listed'
<1>1. \A j \in 1..Len(discovered_projects) :
        Name(discovered_projects'[j]) = Name(discovered_projects[j])
  BY DEF Name
<1>2. \A j \in 1..Len(discovered_projects) : \E i \in 1..Len(discovery_order) :
        discovery_order[i] = Name(discovered_projects'[j])
  BY <1>1 DEF Listed
<1>3. \A i \in 1..Len(discovery_order) : \E j \in 1..Len(discovered_projects) :
        discovery_order[i] = Name(discovered_projects'[j])
  BY <1>1 DEF Listed
<1>4. /\ discovery_order \in Seq(Names)
      /\ \A i, j \in 1..Len(discovery_order) : discovery_order[i] = discovery_order[j] => i = j
  BY DEF Listed
<1> QED
  BY <1>2, <1>3, <1>4, ListedLater

LEMMA LeaveListed ==
  ASSUME IInv, Listed, Leave
  PROVE  Listed'
<1> DEFINE k == Len(discovered_projects)
           l == Len(discovery_order)
<1>1. stack \in Seq(Activations) /\ stack # <<>> /\ Top.of \in Candidates
  <2>1. stack \in Seq(Activations) /\ stack # <<>>
    BY DEF IInv, Types, Leave
  <2>2. stack[Len(stack)] \in Activations
    BY <2>1
  <2> QED
    BY <2>1, <2>2 DEF Top, Last, Activations
<1>2. PICK c : c = Top.of
  OBVIOUS
<1>3. PICK name : name = Name(c)
  OBVIOUS
<1>4. name \in Names
  BY <1>1, <1>2, <1>3 DEF Names, Name, Candidates
<1>5. /\ k \in Nat /\ Len(discovered_projects') = k + 1 /\ discovered_projects'[k + 1] = c
      /\ \A j \in 1..k : discovered_projects'[j] = discovered_projects[j]
  <2>1. discovered_projects \in Seq(Candidates)
        /\ discovered_projects' = Append(discovered_projects, c) /\ c \in Candidates
    BY <1>1, <1>2 DEF IInv, Types, Leave
  <2> QED
    BY <2>1, AppendProperties
<1>6. project' = project
  BY DEF Leave
<1>7. \A j \in 1..(k + 1) : j \in 1..k \/ j = k + 1
  BY <1>5
<1>9. \A j \in 1..k : j \in 1..(k + 1)
  BY <1>5
<1>10. \A j \in 1..(k + 1) : IF j \in 1..k THEN Name(discovered_projects[j]) = Name(discovered_projects'[j])
                                             ELSE Name(discovered_projects'[j]) = name
  BY <1>3, <1>5, <1>7 DEF Name
<1>12. CASE Contains(discovery_order, name)
  <2>1. discovery_order' = discovery_order
    BY <1>2, <1>3, <1>12 DEF Leave, Ordered
  <2>2. PICK i \in 1..l : discovery_order[i] = name
    BY <1>12 DEF Contains
  <2>3. \A j \in 1..(k + 1) : \E x \in 1..l : discovery_order[x] = Name(discovered_projects'[j])
    BY <1>7, <1>10, <2>2 DEF Listed
  <2>4. \A x \in 1..l : \E j \in 1..(k + 1) : discovery_order[x] = Name(discovered_projects'[j])
    BY <1>9, <1>10 DEF Listed
  <2>5. /\ discovery_order \in Seq(Names)
        /\ \A x, y \in 1..l : discovery_order[x] = discovery_order[y] => x = y
    BY DEF Listed
  <2> HIDE DEF k, l
  <2> QED
    BY <1>5, <1>6, <2>1, <2>3, <2>4, <2>5, ListedLater DEF l
<1>13. CASE ~Contains(discovery_order, name)
  <2>1. discovery_order' = Append(discovery_order, name)
    BY <1>2, <1>3, <1>13 DEF Leave, Ordered
  <2>2. discovery_order \in Seq(Names) /\ l \in Nat
    BY DEF Listed
  <2>3. /\ discovery_order' \in Seq(Names) /\ Len(discovery_order') = l + 1
        /\ discovery_order'[l + 1] = name
        /\ \A i \in 1..l : discovery_order'[i] = discovery_order[i]
    BY <1>4, <2>1, <2>2, AppendProperties
  <2>4. \A i \in 1..(l + 1) : i \in 1..l \/ i = l + 1
    BY <2>2
  <2>5. \A i \in 1..l : i \in 1..(l + 1) /\ l + 1 \in 1..(l + 1) /\ k + 1 \in 1..(k + 1)
    BY <1>5, <2>2
  <2>6. \A i \in 1..l : discovery_order[i] # name
    BY <1>13 DEF Contains
  <2>7. \A i, j \in 1..(l + 1) : discovery_order'[i] = discovery_order'[j] => i = j
    <3>1. \A i, j \in 1..l : discovery_order[i] = discovery_order[j] => i = j
      BY DEF Listed
    <3> HIDE DEF l
    <3> QED
      BY <2>3, <2>4, <2>6, <3>1
  <2>8. l + 1 \in 1..(l + 1) /\ k + 1 \in 1..(k + 1) /\ k + 1 \notin 1..k
    BY <1>5, <2>2
  <2>9. \A j \in 1..(k + 1) : \E x \in 1..(l + 1) :
          discovery_order'[x] = Name(discovered_projects'[j])
    <3>1. \A j \in 1..k : \E x \in 1..l : discovery_order[x] = Name(discovered_projects[j])
      BY DEF Listed
    <3> HIDE DEF k, l
    <3> QED
      BY <1>7, <1>10, <2>3, <2>5, <2>8, <3>1
  <2>10. \A x \in 1..(l + 1) : \E j \in 1..(k + 1) :
          discovery_order'[x] = Name(discovered_projects'[j])
    <3>1. \A x \in 1..l : \E j \in 1..k : discovery_order[x] = Name(discovered_projects[j])
      BY DEF Listed
    <3> HIDE DEF k, l
    <3> QED
      BY <1>9, <1>10, <2>3, <2>4, <2>8, <3>1
  <2> HIDE DEF k, l
  <2> QED
    BY <1>5, <1>6, <2>3, <2>7, <2>9, <2>10, ListedLater
<1> QED
  BY <1>12, <1>13

LEMMA ListedStep ==
  ASSUME IInv, Listed, [Next]_vars
  PROVE  Listed'
<1>1. CASE UNCHANGED <<project, discovered_projects, discovery_order>>
  <2>1. \A j \in 1..Len(discovered_projects) :
          discovered_projects'[j].manifest = discovered_projects[j].manifest
    BY <1>1
  <2> QED
    BY <1>1, <2>1, SameNamesListed
<1>2. CASE VisitAgain
  <2>1. UNCHANGED <<project, discovery_order>>
    BY <1>2 DEF VisitAgain
  <2>2. /\ Len(discovered_projects') = Len(discovered_projects)
        /\ \A j \in 1..Len(discovered_projects) :
             discovered_projects'[j].manifest = discovered_projects[j].manifest
    BY <1>2, VisitAgainMoves DEF Candidate
  <2> QED
    BY <2>1, <2>2, SameNamesListed
<1>3. CASE Leave
  BY <1>3, LeaveListed
<1>4. CASE Enter \/ Refuse \/ Select \/ Incompatible \/ UNCHANGED vars
  BY <1>1, <1>4 DEF Enter, Refuse, Select, Incompatible, vars, walk
<1> QED
  BY <1>2, <1>3, <1>4 DEF Next

(* The candidates of the next name are there, and what is selected of them is
   one that none of them exceeds. *)
LEMMA SelectedHighest ==
  ASSUME IInv, Listed, Selecting, final_selected_projects \in Seq(Candidates),
         NEW s \in Sorted(Named(NextName))
  PROVE  /\ Adopted(s) \in Candidates
         /\ Name(Adopted(s)) = NextName
         /\ Highest(Adopted(s))
<1> DEFINE N == 1..Len(discovered_projects)
<1>1. DOMAIN discovered_projects = N /\ \A j \in N : discovered_projects[j] \in Candidates
  BY DEF IInv, Types
<1>2. PICK S : S = Named(NextName)
  OBVIOUS
<1>3. \A c : c \in S <=> \E j \in N : c = discovered_projects[j] /\ Name(c) = NextName
  BY <1>1, <1>2 DEF Named, ToSet
<1>4. S \subseteq Candidates
  BY <1>1, <1>3
<1>5. S # {}
  <2>1. Len(final_selected_projects) \in Nat /\ Len(discovery_order) \in Nat
        /\ Len(final_selected_projects) < Len(discovery_order)
    BY DEF Selecting, Listed
  <2>2. PICK i \in 1..Len(discovery_order) : i = Len(final_selected_projects) + 1
    BY <2>1
  <2>3. PICK j \in N : discovery_order[i] = Name(discovered_projects[j])
    BY DEF Listed
  <2>4. PICK c : c = discovered_projects[j]
    OBVIOUS
  <2>5. Name(c) = NextName
    BY <2>2, <2>3, <2>4 DEF NextName, Name
  <2> QED
    BY <1>3, <2>4, <2>5
<1>6. IsFiniteSet(S)
  <2>1. Len(discovered_projects) \in Nat
    BY DEF IInv, Types
  <2>2. IsFiniteSet(N)
    BY <2>1, FS_Interval
  <2>3. ToSet(discovered_projects) = Range(discovered_projects)
    BY DEF ToSet, Range
  <2>4. discovered_projects \in [N -> Candidates]
    BY DEF IInv, Types
  <2>5. IsFiniteSet(Range(discovered_projects))
    <3> HIDE DEF N
    <3> QED
      BY <2>2, <2>4, Fun_RangeProperties, FS_Surjection
  <2>6. S \in SUBSET ToSet(discovered_projects)
    BY <1>2 DEF Named
  <2> QED
    BY <2>3, <2>5, <2>6, FS_Subset
<1>7. /\ s \in Seq(S) /\ Len(s) \in Nat \ {0}
      /\ \A x \in S : \E i \in 1..Len(s) : s[i] = x
  <2>1. s \in SetToSeqs(S)
    BY <1>2 DEF Sorted
  <2> QED
    BY <1>5, <1>6, <2>1, SequenceOfSet
<1>8. Adopted(s) \in Candidates /\ Adopted(s).manifest = s[Len(s)].manifest
  BY <1>4, <1>7, AdoptedType
<1>9. PICK last : last = s[Len(s)] /\ last \in S
  BY <1>7
<1>10. Name(Adopted(s)) = Name(last) /\ Version(Adopted(s)) = Version(last)
  BY <1>8, <1>9 DEF Name, Version
<1>11. Name(last) = NextName
  BY <1>3, <1>9
<1>12. \A x \in S : x # last => ~Less(Version(last), Version(x))
  <2> SUFFICES ASSUME NEW x \in S, x # last PROVE ~Less(Version(last), Version(x))
    OBVIOUS
  <2>1. PICK i \in 1..Len(s) : s[i] = x
    BY <1>7
  <2>2. i < Len(s) /\ Len(s) \in DOMAIN s /\ i \in DOMAIN s
    <3>1. DOMAIN s = 1..Len(s)
      BY <1>7
    <3>2. i # Len(s)
      BY <1>9, <2>1
    <3>3. PICK q \in Nat \ {0} : q = Len(s)
      BY <1>7
    <3>4. i \in 1..q /\ i # q /\ q \in 1..q
      BY <3>2, <3>3
    <3>5. i < q
      BY <3>4
    <3> QED
      BY <3>1, <3>3, <3>4, <3>5
  <2>3. ~Less(Version(s[Len(s)]), Version(s[i]))
    BY <2>2 DEF Sorted
  <2> QED
    BY <1>9, <2>1, <2>3 DEF Version
<1>13. ~Less(Version(last), Version(last))
  <2>1. project \in Projects /\ last.manifest \in DOMAIN project
    BY <1>4, <1>9 DEF IInv, Types, Candidates
  <2>2. PICK v \in Int \X Int : v = Version(last)
    BY <2>1, ProjectAssumption DEF Version
  <2>3. ~Less(v, v)
    BY DEF Less
  <2> QED
    BY <2>2, <2>3
<1>14. Highest(Adopted(s))
  <2>1. \E j \in N : discovered_projects[j].manifest = Adopted(s).manifest
    BY <1>3, <1>8, <1>9
  <2>2. \A j \in N : Name(discovered_projects[j]) = Name(Adopted(s)) =>
                   ~Less(Version(Adopted(s)), Version(discovered_projects[j]))
    BY <1>3, <1>10, <1>11, <1>12, <1>13 DEF Name, Version
  <2> QED
    BY <2>1, <2>2 DEF Highest
<1> QED
  BY <1>8, <1>10, <1>11, <1>14

LEMMA ChosenStep ==
  ASSUME IInv, Listed, Chosen, [Next]_vars
  PROVE  Chosen'
<1>1. CASE VisitAgain \/ Enter \/ Refuse \/ Leave
  <2>1. project' = project /\ outcome = "discovering"
    BY <1>1 DEF VisitAgain, Enter, Refuse, Leave, Discovering
  <2>2. final_selected_projects' = final_selected_projects /\ final_selected_projects = <<>>
    BY <1>1, <2>1 DEF VisitAgain, Enter, Refuse, Leave, Chosen
  <2>3. outcome' \in {"discovering", "selecting", "failed"}
    BY <1>1, <2>1 DEF VisitAgain, Enter, Refuse, Leave
  <2>4. Len(discovery_order') \in Nat
    BY ListedStep DEF Listed
  <2>5. final_selected_projects' \in Seq(Candidates') /\ Len(final_selected_projects') = 0
    BY <2>2
  <2> QED
    BY <2>2, <2>3, <2>4, <2>5 DEF Chosen
<1>2. CASE Select
  <2> DEFINE l == Len(final_selected_projects)
             o == Len(discovery_order)
  <2>1. PICK s \in Sorted(Named(NextName)) :
          final_selected_projects' = Append(final_selected_projects, Adopted(s))
    BY <1>2 DEF Select
  <2>2. /\ project' = project /\ discovered_projects' = discovered_projects
        /\ discovery_order' = discovery_order
        /\ outcome' = IF Len(final_selected_projects') = Len(discovery_order)
                        THEN "resolved" ELSE outcome
        /\ Selecting
    BY <1>2 DEF Select, walk
  <2>3. PICK c : c = Adopted(s)
    OBVIOUS
  <2>4. c \in Candidates /\ Name(c) = NextName /\ Highest(c)
    BY <2>1, <2>2, <2>3, SelectedHighest DEF Chosen
  <2>5. l \in Nat /\ o \in Nat /\ l < o
    BY <2>2 DEF Selecting, Listed, Chosen
  <2>6. /\ final_selected_projects' \in Seq(Candidates) /\ Len(final_selected_projects') = l + 1
        /\ final_selected_projects'[l + 1] = c
        /\ \A i \in 1..l : final_selected_projects'[i] = final_selected_projects[i]
    <3>1. final_selected_projects \in Seq(Candidates)
          /\ final_selected_projects' = Append(final_selected_projects, c)
      BY <2>1, <2>3 DEF Chosen
    <3> QED
      BY <2>4, <3>1, AppendProperties
  <2>7. \A x : Name(x)' = Name(x) /\ Highest(x)' = Highest(x)
    BY <2>2 DEF Name, Highest, Version
  <2>8. ASSUME NEW i \in 1..(l + 1)
        PROVE  /\ Name(final_selected_projects[i])' = discovery_order[i]
               /\ Highest(final_selected_projects[i])'
    <3>1. PICK x : x = final_selected_projects'[i]
      OBVIOUS
    <3>2. Name(x) = discovery_order[i] /\ Highest(x)
      <4>1. CASE i \in 1..l
        <5>1. x = final_selected_projects[i]
          BY <2>6, <3>1, <4>1
        <5>2. Name(final_selected_projects[i]) = discovery_order[i]
              /\ Highest(final_selected_projects[i])
          BY <4>1 DEF Chosen
        <5> QED
          BY <5>1, <5>2 DEF Name, Highest, Version
      <4>2. CASE i = l + 1
        BY <2>4, <2>6, <3>1, <4>2 DEF NextName
      <4> QED
        BY <2>5, <4>1, <4>2
    <3>3. Name(x)' = discovery_order[i] /\ Highest(x)'
      BY <2>7, <3>2
    <3> QED
      BY <3>1, <3>3 DEF Name, Highest, Version
  <2>9. outcome' \in {"selecting", "resolved"}
        /\ (outcome' = "resolved" => l + 1 = o)
    BY <2>2, <2>6 DEF Selecting
  <2>10. Candidates' = Candidates
    BY <2>2 DEF Candidates
  <2>11. l + 1 <= o
    BY <2>5
  <2> HIDE DEF l
  <2> QED
    BY <2>2, <2>6, <2>8, <2>9, <2>10, <2>11 DEF Chosen
<1>3. CASE Incompatible \/ UNCHANGED vars
  <2>1. UNCHANGED <<project, discovered_projects, discovery_order, final_selected_projects>>
        /\ (outcome' = outcome \/ outcome' = "failed")
    BY <1>3 DEF Incompatible, vars, walk
  <2>2. \A i : Name(final_selected_projects[i])' = Name(final_selected_projects[i])
               /\ Highest(final_selected_projects[i])' = Highest(final_selected_projects[i])
    BY <2>1 DEF Name, Highest, Version
  <2>3. Candidates' = Candidates
    BY <2>1 DEF Candidates
  <2> QED
    BY <2>1, <2>2, <2>3 DEF Chosen
<1> QED
  BY <1>1, <1>2, <1>3 DEF Next

THEOREM SelectionInvariance ==
  Spec => [](IInv /\ Pending /\ Walked /\ Listed /\ Chosen)
<1>1. Init /\ [][Next]_vars /\ []IInv => [](Listed /\ Chosen)
  BY InitChosen, ListedStep, ChosenStep, PTL
<1> QED
  BY <1>1, WalkInvariance, PTL DEF Spec

(* Of each name that is discovered, and of no other, exactly one project is
   selected, and no candidate of that name has a higher version: for any set
   of manifests and however std::sort orders candidates of one version. *)
THEOREM SelectsHighest ==
  Spec => []HighestSelected
<1>1. IInv /\ Walked /\ Listed /\ Chosen => HighestSelected
  <2> SUFFICES ASSUME IInv, Listed, Chosen, outcome = "resolved"
               PROVE  /\ {Name(c) : c \in ToSet(final_selected_projects)}
                           = {project[m].name : m \in Found}
                      /\ IsInjective([i \in DOMAIN final_selected_projects |->
                                        Name(final_selected_projects[i])])
                      /\ \A c \in ToSet(final_selected_projects), m \in Found :
                           project[m].name = Name(c) => ~Less(Version(c), project[m].version)
    BY DEF HighestSelected
  <2> DEFINE l == Len(final_selected_projects)
             N == 1..Len(discovered_projects)
  <2>1. /\ DOMAIN final_selected_projects = 1..l /\ l = Len(discovery_order)
        /\ \A i \in 1..l : Name(final_selected_projects[i]) = discovery_order[i]
                           /\ Highest(final_selected_projects[i])
    BY DEF Chosen
  <2>2. \A c : c \in ToSet(final_selected_projects)
               <=> \E i \in 1..l : c = final_selected_projects[i]
    BY <2>1 DEF ToSet
  <2>3. \A m : m \in Found <=> \E j \in N : m = discovered_projects[j].manifest
    BY DEF IInv, Types, Found, ToSet
  <2>4. {Name(c) : c \in ToSet(final_selected_projects)}
          = {discovery_order[i] : i \in 1..l}
    <3>1. \A c \in ToSet(final_selected_projects) : \E i \in 1..l : Name(c) = discovery_order[i]
      BY <2>1, <2>2
    <3>2. \A i \in 1..l : \E c \in ToSet(final_selected_projects) : Name(c) = discovery_order[i]
      BY <2>1, <2>2
    <3> QED
      BY <3>1, <3>2
  <2>5. {project[m].name : m \in Found} = {Name(discovered_projects[j]) : j \in N}
    BY <2>3 DEF Name
  <2>6. {discovery_order[i] : i \in 1..l} = {Name(discovered_projects[j]) : j \in N}
    BY <2>1 DEF Listed
  <2>7. IsInjective([i \in DOMAIN final_selected_projects |-> Name(final_selected_projects[i])])
    BY <2>1 DEF Listed, IsInjective
  <2>8. ASSUME NEW c \in ToSet(final_selected_projects), NEW m \in Found,
               project[m].name = Name(c)
        PROVE  ~Less(Version(c), project[m].version)
    <3>1. PICK i \in 1..l : c = final_selected_projects[i]
      BY <2>2
    <3>2. PICK j \in N : m = discovered_projects[j].manifest
      BY <2>3
    <3>3. Highest(c)
      BY <2>1, <3>1 DEF Highest, Name, Version
    <3> QED
      BY <2>8, <3>2, <3>3 DEF Highest, Name, Version
  <2> QED
    BY <2>4, <2>5, <2>6, <2>7, <2>8
<1> QED
  BY <1>1, SelectionInvariance, PTL

(* Every variable has its type. *)
THEOREM TypeCorrect ==
  Spec => []TypeOK
<1>1. IInv /\ Listed /\ Chosen => TypeOK
  <2> SUFFICES ASSUME IInv, Listed, Chosen PROVE TypeOK
    OBVIOUS
  <2>1. \A i \in DOMAIN stack : stack[i].of \in Candidates
    <3>1. stack \in Seq(Activations) /\ DOMAIN stack = 1..Len(stack)
      BY DEF IInv, Types
    <3>2. \A i \in 1..Len(stack) : stack[i] \in Activations
      BY <3>1
    <3> QED
      BY <3>1, <3>2 DEF Activations
  <2>2. visited_manifests \subseteq DOMAIN project /\ discovered_projects \in Seq(Candidates)
    BY DEF IInv, Types
  <2>3. ToSet(discovery_order) \subseteq {project[m].name : m \in DOMAIN project}
    <3>1. discovery_order \in Seq(Names) /\ DOMAIN discovery_order = 1..Len(discovery_order)
      BY DEF Listed
    <3>2. \A i \in 1..Len(discovery_order) : discovery_order[i] \in Names
      BY <3>1
    <3> QED
      BY <3>1, <3>2 DEF ToSet, Names
  <2>4. IsInjective(discovery_order)
    BY DEF Listed, IsInjective
  <2> QED
    BY <2>1, <2>2, <2>3, <2>4 DEF TypeOK, Chosen
<1> QED
  BY <1>1, SelectionInvariance, PTL

-----------------------------------------------------------------------------
(* The order. *)

(* A name stands before another only if it was discovered before it. *)
InOrder ==
  \A x, y \in 1..Len(discovery_order) : x < y =>
    \A j \in 1..Len(discovered_projects) : Name(discovered_projects[j]) = discovery_order[y] =>
      \E i \in 1..Len(discovered_projects) :
        i < j /\ Name(discovered_projects[i]) = discovery_order[x]

LEMMA InitInOrder ==
  Init => InOrder
<1>1. Init => Len(discovery_order) = 0 /\ 1..0 = {}
  BY DEF Init
<1> QED
  BY <1>1 DEF InOrder

LEMMA SameNamesInOrder ==
  ASSUME InOrder, UNCHANGED <<project, discovery_order>>,
         Len(discovered_projects') = Len(discovered_projects),
         \A j \in 1..Len(discovered_projects) :
           discovered_projects'[j].manifest = discovered_projects[j].manifest
  PROVE  InOrder'
<1>1. \A j \in 1..Len(discovered_projects) :
        Name(discovered_projects[j])' = Name(discovered_projects[j])
  BY DEF Name
<1> QED
  BY <1>1 DEF InOrder

LEMMA LeaveInOrder ==
  ASSUME IInv, Listed, InOrder, Leave
  PROVE  InOrder'
<1> DEFINE k == Len(discovered_projects)
           l == Len(discovery_order)
<1>1. stack \in Seq(Activations) /\ stack # <<>> /\ Top.of \in Candidates
  <2>1. stack \in Seq(Activations) /\ stack # <<>>
    BY DEF IInv, Types, Leave
  <2>2. stack[Len(stack)] \in Activations
    BY <2>1
  <2> QED
    BY <2>1, <2>2 DEF Top, Last, Activations
<1>2. PICK c, name : c = Top.of /\ name = Name(c)
  OBVIOUS
<1>3. /\ k \in Nat /\ Len(discovered_projects') = k + 1 /\ discovered_projects'[k + 1] = c
      /\ \A j \in 1..k : discovered_projects'[j] = discovered_projects[j]
  <2>1. discovered_projects \in Seq(Candidates)
        /\ discovered_projects' = Append(discovered_projects, c) /\ c \in Candidates
    BY <1>1, <1>2 DEF IInv, Types, Leave
  <2> QED
    BY <2>1, AppendProperties
<1>4. project' = project
  BY DEF Leave
<1>5. discovery_order \in Seq(Names) /\ l \in Nat
  BY DEF Listed
<1>6. /\ \A j \in 1..(k + 1) : j \in 1..k \/ j = k + 1
      /\ \A j \in 1..k : j \in 1..(k + 1) /\ j < k + 1
  BY <1>3
<1>7. /\ \A j \in 1..k : Name(discovered_projects[j])' = Name(discovered_projects[j])
      /\ \A j \in 1..(k + 1) : j \notin 1..k => Name(discovered_projects[j])' = name
  BY <1>2, <1>3, <1>4, <1>6 DEF Name
<1>8. \A x \in 1..l : \E j \in 1..k : discovery_order[x] = Name(discovered_projects[j])
  BY DEF Listed
<1>9. \A j \in 1..k : \E x \in 1..l : discovery_order[x] = Name(discovered_projects[j])
  BY DEF Listed
<1>10. \A x, y \in 1..l : x < y =>
         \A j \in 1..k : Name(discovered_projects[j]) = discovery_order[y] =>
           \E i \in 1..k : i < j /\ Name(discovered_projects[i]) = discovery_order[x]
  BY DEF InOrder
<1>11. ASSUME NEW x \in 1..l, NEW y \in 1..l, x < y, NEW j \in 1..(k + 1),
              Name(discovered_projects[j])' = discovery_order[y]
       PROVE  \E i \in 1..(k + 1) : i < j /\ Name(discovered_projects[i])' = discovery_order[x]
  <2>1. CASE j \in 1..k
    <3>1. PICK i \in 1..k : i < j /\ Name(discovered_projects[i]) = discovery_order[x]
      BY <1>7, <1>10, <1>11, <2>1
    <3> QED
      BY <1>6, <1>7, <3>1
  <2>2. CASE j = k + 1
    <3>1. PICK i \in 1..k : discovery_order[x] = Name(discovered_projects[i])
      BY <1>8
    <3> QED
      BY <1>6, <1>7, <2>2, <3>1
  <2> QED
    BY <1>6, <2>1, <2>2
<1>12. CASE Contains(discovery_order, name)
  <2>1. discovery_order' = discovery_order
    BY <1>2, <1>12 DEF Leave, Ordered
  <2> HIDE DEF k, l
  <2> QED
    BY <1>3, <1>11, <2>1 DEF InOrder, l
<1>13. CASE ~Contains(discovery_order, name)
  <2>1. discovery_order' = Append(discovery_order, name)
    BY <1>2, <1>13 DEF Leave, Ordered
  <2>2. name \in Names
    BY <1>1, <1>2 DEF Names, Name, Candidates
  <2>3. /\ Len(discovery_order') = l + 1
        /\ discovery_order'[l + 1] = name
        /\ \A i \in 1..l : discovery_order'[i] = discovery_order[i]
    BY <1>5, <2>1, <2>2, AppendProperties
  <2>4. \A i \in 1..l : discovery_order[i] # name
    BY <1>13 DEF Contains
  <2>5. ASSUME NEW x \in 1..(l + 1), NEW y \in 1..(l + 1), x < y
        PROVE  x \in 1..l /\ (y \in 1..l \/ y = l + 1)
    BY <1>5, <2>5
  <2>6. ASSUME NEW x \in 1..(l + 1), NEW y \in 1..(l + 1), x < y, NEW j \in 1..(k + 1),
               Name(discovered_projects[j])' = discovery_order'[y]
        PROVE  \E i \in 1..(k + 1) : i < j /\ Name(discovered_projects[i])' = discovery_order'[x]
    <3> HIDE DEF k, l
    <3>1. CASE y \in 1..l
      BY <1>11, <2>3, <2>5, <2>6, <3>1
    <3>2. CASE y = l + 1
      <4>1. j \notin 1..k
        BY <1>7, <1>9, <2>3, <2>4, <2>6, <3>2
      <4>2. PICK i \in 1..k : discovery_order[x] = Name(discovered_projects[i])
        BY <1>8, <2>5, <2>6
      <4> QED
        BY <1>6, <1>7, <2>3, <2>5, <2>6, <4>1, <4>2
    <3> QED
      BY <2>5, <2>6, <3>1, <3>2
  <2> HIDE DEF k, l
  <2> QED
    BY <1>3, <2>3, <2>6 DEF InOrder
<1> QED
  BY <1>12, <1>13

LEMMA InOrderStep ==
  ASSUME IInv, Listed, InOrder, [Next]_vars
  PROVE  InOrder'
<1>1. CASE UNCHANGED <<project, discovered_projects, discovery_order>>
  <2>1. \A j \in 1..Len(discovered_projects) :
          discovered_projects'[j].manifest = discovered_projects[j].manifest
    BY <1>1
  <2> QED
    BY <1>1, <2>1, SameNamesInOrder
<1>2. CASE VisitAgain
  <2>1. UNCHANGED <<project, discovery_order>>
    BY <1>2 DEF VisitAgain
  <2>2. /\ Len(discovered_projects') = Len(discovered_projects)
        /\ \A j \in 1..Len(discovered_projects) :
             discovered_projects'[j].manifest = discovered_projects[j].manifest
    BY <1>2, VisitAgainMoves DEF Candidate
  <2> QED
    BY <2>1, <2>2, SameNamesInOrder
<1>3. CASE Leave
  BY <1>3, LeaveInOrder
<1>4. CASE Enter \/ Refuse \/ Select \/ Incompatible \/ UNCHANGED vars
  BY <1>1, <1>4 DEF Enter, Refuse, Select, Incompatible, vars, walk
<1> QED
  BY <1>2, <1>3, <1>4 DEF Next

(* Where no name has two versions, a project that is selected before one it
   depends on is one the other leads back to: projects that do not depend on
   each other are built in topological order, deepest dependency first. *)
THEOREM SelectsInOrder ==
  Spec => []TopologicalPerVersion
<1>1. IInv /\ Walked /\ Listed /\ Chosen /\ InOrder => TopologicalPerVersion
  <2> SUFFICES ASSUME IInv, Walked, Listed, Chosen, InOrder, OneVersion, outcome = "resolved",
                      NEW i \in DOMAIN final_selected_projects,
                      NEW j \in DOMAIN final_selected_projects, i < j,
                      NEW c \in ToSet(discovered_projects),
                      c.manifest = final_selected_projects[i].manifest,
                      NEW d \in Followed(c), d.to = final_selected_projects[j].manifest
               PROVE  Reaches(d.to, c.manifest)
    BY DEF TopologicalPerVersion, Topological
  <2> DEFINE N == 1..Len(discovered_projects)
             L == 1..Len(discovery_order)
  <2>1. stack = <<>>
    BY DEF Walked, Rooted
  <2>2. /\ i \in L /\ j \in L
        /\ Name(final_selected_projects[i]) = discovery_order[i]
        /\ Name(final_selected_projects[j]) = discovery_order[j]
    BY DEF Chosen
  <2>3. PICK p \in N : c = discovered_projects[p]
    BY DEF IInv, Types, ToSet
  <2>4. d \in Due(discovered_projects[p])
    <3>1. d \in Due(c)
      BY <2>1, WhenFound
    <3> QED
      BY <2>3, <3>1 DEF Due, Kept, Differ
  <2>5. CASE Joined(d.to, discovered_projects[p].manifest)
    <3>1. Joined(d.to, c.manifest)
      BY <2>3, <2>5 DEF Joined
    <3> QED
      BY <2>1, <3>1, WhenFound
  <2>6. CASE \E q \in N : q <= p /\ discovered_projects[q].manifest = d.to
    <3>1. PICK q \in N : q <= p /\ discovered_projects[q].manifest = d.to
      BY <2>6
    <3>2. Name(discovered_projects[q]) = discovery_order[j]
          /\ Name(discovered_projects[p]) = discovery_order[i]
      BY <2>2, <2>3, <3>1 DEF Name
    <3>3. PICK r \in N : r < q /\ Name(discovered_projects[r]) = discovery_order[i]
      BY <2>2, <3>2 DEF InOrder
    <3>4. discovered_projects[r] = discovered_projects[p]
      <4>1. discovered_projects[r] \in ToSet(discovered_projects)
            /\ discovered_projects[p] \in ToSet(discovered_projects)
        BY DEF IInv, Types, ToSet
      <4>2. PICK a, b : a = discovered_projects[r] /\ b = discovered_projects[p]
        OBVIOUS
      <4>3. Name(a) = Name(b)
        BY <3>2, <3>3, <4>2 DEF Name
      <4> QED
        BY <4>1, <4>2, <4>3 DEF OneVersion
    <3>5. r = p
      BY <3>4 DEF IInv, Guarded
    <3>6. r < p
      BY <3>1, <3>3
    <3> QED
      BY <3>5, <3>6
  <2> QED
    BY <2>4, <2>5, <2>6 DEF Walked, PostOrder
<1>2. Init /\ [][Next]_vars /\ [](IInv /\ Listed) => []InOrder
  BY InitInOrder, InOrderStep, PTL
<1> QED
  BY <1>1, <1>2, SelectionInvariance, PTL DEF Spec

-----------------------------------------------------------------------------
-----------------------------------------------------------------------------
(* The requests that override. *)

(* The requests of the root's active profile, and how many have been followed
   (less than none while its own dependencies are left to do). *)
Orders == IF Active \in project[Root].profiles THEN Overriding ELSE <<>>
Left == IF stack = <<>> THEN 0 ELSE Len(stack[1].todo)
Given == Len(Orders) - Left

(* Only the root has requests that override, and these are its last. *)
Ahead ==
  stack # <<>> => \A k \in 1..Len(stack[1].todo) :
    IF 1 <= Given + k THEN stack[1].todo[k] = <<Orders[Given + k], TRUE>>
                      ELSE ~stack[1].todo[k][2]
Quiet ==
  \A i \in 1..Len(stack) : i # 1 => \A k \in 1..Len(stack[i].todo) : ~stack[i].todo[k][2]

(* The last of them that was followed for a project decides. *)
Decides(i, given) ==
  /\ i <= given /\ Orders[i].to # Root /\ Orders[i].profile # 0
  /\ \A j \in 1..Len(Orders) :
       i < j /\ j <= given /\ Orders[j].to = Orders[i].to => Orders[j].profile = 0
Built(m, profile) ==
  /\ m \in visited_manifests
  /\ \A c \in Current : c.manifest = m => c.explicit_profile /\ c.selected_profile = profile
Overridden ==
  \A i \in 1..Len(Orders) : Decides(i, Given) => Built(Orders[i].to, Orders[i].profile)

LEMMA OrdersType ==
  ASSUME project \in Projects
  PROVE  Orders \in Seq(Requirements) /\ Len(Orders) \in Nat
<1>1. Root \in DOMAIN project
  BY ProjectAssumption
<1>2. Active \in project[Root].profiles => Overriding \in Seq(Requirements)
  BY <1>1, ProjectAssumption DEF Overriding, Requirements
<1> QED
  BY <1>2 DEF Orders

LEMMA GivenType ==
  ASSUME Types
  PROVE  Left \in Nat /\ Given \in Int /\ Len(Orders) \in Nat
<1>1. Len(Orders) \in Nat
  BY OrdersType DEF Types
<1>2. stack \in Seq(Activations)
  BY DEF Types
<1>3. Left \in Nat
  <2>1. CASE stack = <<>>
    BY <2>1 DEF Left
  <2>2. CASE stack # <<>>
    <3>1. stack[1] \in Activations
      BY <1>2, <2>2
    <3>2. stack[1].todo \in Seq(Requirements \X BOOLEAN)
      BY <3>1 DEF Activations
    <3> QED
      BY <2>2, <3>2 DEF Left
  <2> QED
    BY <2>1, <2>2
<1> QED
  BY <1>1, <1>3 DEF Given

(* The marks of what is left to do. *)
LEMMA TodoMarks ==
  ASSUME NEW m, project \in Projects, m \in DOMAIN project, NEW profile, NEW override \in BOOLEAN
  PROVE  LET todo == Todo(project[m], profile, override)
             orders == IF profile \in project[m].profiles THEN project[m].additional[profile]
                                                          ELSE <<>>
             p(k) == Len(orders) - Len(todo) + k
         IN  /\ Len(orders) <= Len(todo) /\ Len(todo) \in Nat /\ Len(orders) \in Nat
             /\ \A k \in 1..Len(todo) :
                  IF 1 <= p(k) THEN todo[k] = <<orders[p(k)], override>> ELSE ~todo[k][2]
<1> DEFINE orders == IF profile \in project[m].profiles THEN project[m].additional[profile]
                                                        ELSE <<>>
           own == Marked(project[m].dependencies, FALSE)
           more == Marked(orders, override)
           todo == Todo(project[m], profile, override)
           T == Requirements \X BOOLEAN
<1>1. project[m].dependencies \in Seq(Requirements) /\ orders \in Seq(Requirements)
  <2>1. profile \in project[m].profiles => project[m].additional[profile] \in Seq(Requirements)
    BY ProjectAssumption DEF Requirements
  <2> QED
    BY <2>1, ProjectAssumption DEF Requirements
<1>2. \A ds \in Seq(Requirements), b \in BOOLEAN :
        /\ Marked(ds, b) \in Seq(T) /\ Len(Marked(ds, b)) = Len(ds)
        /\ \A k \in 1..Len(ds) : Marked(ds, b)[k] = <<ds[k], b>>
  BY DEF Marked
<1>3. todo = own \o more
  <2>1. profile \notin project[m].profiles => more = <<>>
    BY DEF Marked
  <2> QED
    BY <2>1 DEF Todo
<1>4. /\ own \in Seq(T) /\ Len(own) \in Nat
      /\ \A k \in 1..Len(own) : ~own[k][2]
  <2>1. PICK b \in BOOLEAN : b = FALSE
    OBVIOUS
  <2>2. PICK ds \in Seq(Requirements) : ds = project[m].dependencies
    BY <1>1
  <2>3. own = Marked(ds, b)
    BY <2>1, <2>2
  <2> HIDE DEF own, T
  <2>4. own \in Seq(T) /\ Len(own) = Len(ds) /\ Len(ds) \in Nat
        /\ \A k \in 1..Len(ds) : own[k] = <<ds[k], b>>
    BY <1>2, <2>3
  <2>5. \A k \in 1..Len(own) : own[k] = <<ds[k], b>> /\ own[k][2] = b
    BY <2>4
  <2>6. \A k \in 1..Len(own) : ~own[k][2]
    BY <2>1, <2>5, Zenon
  <2> QED
    BY <2>4, <2>6
<1>5. /\ more \in Seq(T) /\ Len(more) = Len(orders) /\ Len(more) \in Nat
      /\ \A k \in 1..Len(more) : more[k] = <<orders[k], override>>
  <2> HIDE DEF orders, T
  <2> QED
    BY <1>1, <1>2
<1> HIDE DEF orders, own, more, todo, T
<1>6. /\ Len(todo) = Len(own) + Len(more)
      /\ \A k \in 1..(Len(own) + Len(more)) :
           todo[k] = IF k <= Len(own) THEN own[k] ELSE more[k - Len(own)]
  BY <1>3, <1>4, <1>5, ConcatProperties
<1>7. ASSUME NEW k \in 1..Len(todo)
      PROVE  LET p == Len(orders) - Len(todo) + k
             IN  IF 1 <= p THEN todo[k] = <<orders[p], override>> ELSE ~todo[k][2]
  <2> DEFINE p == Len(orders) - Len(todo) + k
  <2>1. p = k - Len(own) /\ k \in 1..(Len(own) + Len(more)) /\ k \in Nat
    BY <1>4, <1>5, <1>6
  <2>2. CASE k <= Len(own)
    <3>1. ~(1 <= p) /\ k \in 1..Len(own)
      BY <1>4, <2>1, <2>2
    <3>2. todo[k] = own[k]
      BY <1>6, <2>1, <2>2
    <3> QED
      BY <1>4, <3>1, <3>2
  <2>3. CASE ~(k <= Len(own))
    <3>1. 1 <= p /\ p \in 1..Len(more)
      BY <1>4, <1>5, <2>1, <2>3
    <3>2. todo[k] = more[p]
      BY <1>6, <2>1, <2>3
    <3> QED
      BY <1>5, <3>1, <3>2
  <2> QED
    BY <2>2, <2>3
<1>8. Len(orders) <= Len(todo) /\ Len(todo) \in Nat /\ Len(orders) \in Nat
  BY <1>4, <1>5, <1>6
<1> QED
  BY <1>7, <1>8 DEF orders, todo

LEMMA TodoQuiet ==
  ASSUME NEW m, project \in Projects, m \in DOMAIN project, NEW profile,
         NEW todo, todo = Todo(project[m], profile, FALSE)
  PROVE  \A k \in 1..Len(todo) : ~todo[k][2]
<1>1. PICK b \in BOOLEAN : b = FALSE
  OBVIOUS
<1>2. todo = Todo(project[m], profile, b)
  BY <1>1
<1>3. PICK orders : orders = IF profile \in project[m].profiles THEN project[m].additional[profile]
                                                               ELSE <<>>
  OBVIOUS
<1>4. \A k \in 1..Len(todo) :
        IF 1 <= Len(orders) - Len(todo) + k
          THEN todo[k] = <<orders[Len(orders) - Len(todo) + k], b>> ELSE ~todo[k][2]
  BY <1>2, <1>3, TodoMarks
<1>5. ASSUME NEW k \in 1..Len(todo) PROVE ~todo[k][2]
  <2>1. CASE ~todo[k][2]
    BY <2>1
  <2>2. CASE todo[k][2]
    <3>1. IF 1 <= Len(orders) - Len(todo) + k
            THEN todo[k] = <<orders[Len(orders) - Len(todo) + k], b>> ELSE ~todo[k][2]
      BY <1>4, Zenon
    <3>2. PICK r : r = orders[Len(orders) - Len(todo) + k]
      OBVIOUS
    <3>3. todo[k] = <<r, b>>
      BY <2>2, <3>1, <3>2, Zenon
    <3>4. todo[k][2] = b
      <4>1. \A x, y : <<x, y>>[2] = y
        OBVIOUS
      <4>2. <<r, b>>[2] = b
        BY <4>1, Zenon
      <4> QED
        BY <3>3, <4>2, Zenon
    <3> QED
      BY <1>1, <2>2, <3>4, Zenon
  <2> QED
    BY <2>1, <2>2
<1> QED
  BY <1>5

LEMMA InitOverridden ==
  Init => Ahead /\ Quiet /\ Overridden
<1> SUFFICES ASSUME Init PROVE Ahead /\ Quiet /\ Overridden
  OBVIOUS
<1>1. project \in Projects /\ Root \in DOMAIN project
  BY ProjectAssumption DEF Init
<1>2. PICK b \in BOOLEAN : b = TRUE
  OBVIOUS
<1>3. PICK todo : todo = Todo(project[Root], Active, b)
  OBVIOUS
<1>4. stack # <<>> /\ Len(stack) = 1 /\ stack[1].todo = todo
  BY <1>2, <1>3 DEF Init
<1>5. Left = Len(todo) /\ Given = Len(Orders) - Len(todo)
  BY <1>4 DEF Left, Given
<1>6. Orders = IF Active \in project[Root].profiles THEN project[Root].additional[Active] ELSE <<>>
  BY DEF Orders, Overriding
<1>7. /\ Len(Orders) <= Len(todo) /\ Len(todo) \in Nat /\ Len(Orders) \in Nat
      /\ \A k \in 1..Len(todo) :
           IF 1 <= Len(Orders) - Len(todo) + k
             THEN todo[k] = <<Orders[Len(Orders) - Len(todo) + k], b>> ELSE ~todo[k][2]
  BY <1>1, <1>3, <1>6, TodoMarks
<1>8. Ahead
  BY <1>2, <1>4, <1>5, <1>7 DEF Ahead
<1>9. Quiet
  BY <1>4 DEF Quiet
<1>10. Given <= 0 /\ Given \in Int
  <2>1. PICK x \in Nat, y \in Nat : x = Len(Orders) /\ y = Len(todo)
    BY <1>7
  <2>2. x <= y /\ Given = x - y
    BY <1>5, <1>7, <2>1
  <2> QED
    BY <2>2
<1>11. Overridden
  <2>1. \A i \in 1..Len(Orders) : ~(i <= Given)
    BY <1>7, <1>10
  <2> QED
    BY <2>1 DEF Overridden, Decides
<1> QED
  BY <1>8, <1>9, <1>11

(* Following a dependency: one of the root's active profile, or one that
   overrides nothing. *)
LEMMA PoppedAhead ==
  ASSUME Types, Discovering, Ahead, Quiet, project' = project,
         stack' # <<>>, stack'[1].todo = Popped(stack)[1].todo
  PROVE  /\ Ahead' /\ Given' \in Int
         /\ \/ /\ Dependency[2] /\ Len(stack) = 1
               /\ Given' = Given + 1 /\ Given + 1 \in 1..Len(Orders)
               /\ Dependency[1] = Orders[Given + 1]
            \/ /\ ~Dependency[2] /\ Given <= Given'
               /\ \A i \in 1..Len(Orders) : i <= Given' => i <= Given
<1> DEFINE n == Len(stack)
<1>1. n \in Nat \ {0} /\ stack[n] = Top /\ stack \in Seq(Activations) /\ Top \in Activations
  BY Running DEF Types
<1>2. PICK todo : todo = Top.todo
  OBVIOUS
<1>3. /\ todo \in Seq(Requirements \X BOOLEAN) /\ todo # <<>>
      /\ Dependency = todo[1] /\ Len(todo) \in Nat \ {0}
      /\ Len(Tail(todo)) = Len(todo) - 1
      /\ \A k \in 1..(Len(todo) - 1) : Tail(todo)[k] = todo[k + 1]
  <2>1. todo \in Seq(Requirements \X BOOLEAN) /\ todo # <<>> /\ Dependency = Head(todo)
    BY <1>1, <1>2 DEF Activations, Discovering, Dependency
  <2> QED
    BY <2>1, HeadTailProperties
<1>4. /\ Popped(stack)[n].todo = Tail(todo)
      /\ \A l \in 1..n : l # n => Popped(stack)[l] = stack[l]
  BY <1>1, <1>2 DEF Popped, Activations
<1>5. PICK q \in Nat, l \in Nat, g \in Int : q = Len(Orders) /\ l = Left /\ g = Given
  BY GivenType
<1>6. stack # <<>> /\ g = q - l /\ l = Len(stack[1].todo)
  BY <1>1, <1>5 DEF Discovering, Given, Left
<1>7. Orders' = Orders
  BY DEF Orders, Overriding
<1>8. \A k \in 1..l : IF 1 <= g + k THEN stack[1].todo[k] = <<Orders[g + k], TRUE>>
                                   ELSE ~stack[1].todo[k][2]
  BY <1>5, <1>6 DEF Ahead
<1>9. CASE n = 1
  <2>1. stack[1].todo = todo /\ l = Len(todo) /\ l \in Nat \ {0}
    BY <1>1, <1>2, <1>3, <1>6, <1>9
  <2>2. stack'[1].todo = Tail(todo)
    BY <1>4, <1>9
  <2>3. Left' = l - 1
    BY <1>3, <2>1, <2>2 DEF Left
  <2>4. Given' = g + 1
    BY <1>5, <1>6, <1>7, <2>3 DEF Given
  <2>5. ASSUME NEW k \in 1..(l - 1)
        PROVE  IF 1 <= g + 1 + k THEN Tail(todo)[k] = <<Orders[g + 1 + k], TRUE>>
                                 ELSE ~Tail(todo)[k][2]
    <3>1. k + 1 \in 1..l /\ g + (k + 1) = g + 1 + k /\ k \in 1..(Len(todo) - 1)
      BY <2>1
    <3>2. Tail(todo)[k] = todo[k + 1]
      BY <1>3, <3>1
    <3>3. PICK r : r = g + 1 + k
      OBVIOUS
    <3>4. IF 1 <= r THEN todo[k + 1] = <<Orders[r], TRUE>> ELSE ~todo[k + 1][2]
      BY <1>8, <2>1, <3>1, <3>3, Zenon
    <3> QED
      BY <3>2, <3>3, <3>4, Zenon
  <2>6. Ahead'
    <3>1. Len(Tail(todo)) = l - 1
      BY <1>3, <2>1
    <3>2. \A k \in 1..Len(stack'[1].todo) :
            IF 1 <= Given' + k THEN stack'[1].todo[k] = <<Orders'[Given' + k], TRUE>>
                               ELSE ~stack'[1].todo[k][2]
      BY <1>7, <2>2, <2>4, <2>5, <3>1, Zenon
    <3> QED
      BY <3>2, Zenon DEF Ahead
  <2>7. 1 \in 1..l
    BY <2>1
  <2>8. CASE 1 <= g + 1
    <3>1. Dependency = <<Orders[g + 1], TRUE>>
      BY <1>3, <1>8, <2>1, <2>7, <2>8, Zenon
    <3>2. \A x, y : <<x, y>>[2] = y /\ <<x, y>>[1] = x
      OBVIOUS
    <3>3. Dependency[1] = Orders[g + 1] /\ Dependency[2]
      BY <3>1, <3>2, Zenon
    <3>4. g + 1 \in 1..q /\ g + 1 \in Int
      BY <1>6, <2>1, <2>8
    <3> QED
      BY <1>5, <1>9, <2>4, <2>6, <3>3, <3>4
  <2>9. CASE ~(1 <= g + 1)
    <3>1. ~Dependency[2]
      BY <1>3, <1>8, <2>1, <2>7, <2>9, Zenon
    <3>2. \A i \in 1..q : ~(i <= g + 1)
      BY <2>9
    <3>3. g <= g + 1 /\ g + 1 \in Int
      OBVIOUS
    <3> QED
      BY <1>5, <2>4, <2>6, <3>1, <3>2, <3>3
  <2> QED
    BY <2>8, <2>9
<1>10. CASE n # 1
  <2>1. 1 \in 1..n
    BY <1>1
  <2>2. stack'[1].todo = stack[1].todo
    BY <1>4, <1>10, <2>1
  <2>3. Left' = l
    BY <1>6, <2>2 DEF Left
  <2>4. Given' = g
    BY <1>5, <1>6, <1>7, <2>3 DEF Given
  <2>5. Ahead'
    BY <1>6, <1>7, <1>8, <2>2, <2>4, Zenon DEF Ahead
  <2>6. ~Dependency[2]
    <3>1. n \in 1..n /\ 1 \in 1..Len(todo)
      BY <1>1, <1>3
    <3>2. stack[n].todo = todo
      BY <1>1, <1>2
    <3> QED
      BY <1>3, <1>10, <3>1, <3>2, Zenon DEF Quiet
  <2>7. g <= g
    OBVIOUS
  <2> QED
    BY <1>5, <2>4, <2>5, <2>6, <2>7
<1> QED
  BY <1>9, <1>10

LEMMA PoppedQuiet ==
  ASSUME Types, Discovering, Quiet, NEW i \in 1..Len(stack), i # 1
  PROVE  \A k \in 1..Len(Popped(stack)[i].todo) : ~Popped(stack)[i].todo[k][2]
<1> DEFINE n == Len(stack)
<1>1. n \in Nat \ {0} /\ stack[n] = Top /\ stack \in Seq(Activations) /\ Top \in Activations
  BY Running DEF Types
<1>2. PICK todo : todo = Top.todo
  OBVIOUS
<1>3. /\ Len(todo) \in Nat \ {0} /\ Len(Tail(todo)) = Len(todo) - 1
      /\ \A k \in 1..(Len(todo) - 1) : Tail(todo)[k] = todo[k + 1]
  <2>1. todo \in Seq(Requirements \X BOOLEAN) /\ todo # <<>>
    BY <1>1, <1>2 DEF Activations, Discovering
  <2> QED
    BY <2>1, HeadTailProperties
<1>4. /\ Popped(stack)[n].todo = Tail(todo)
      /\ \A l \in 1..n : l # n => Popped(stack)[l] = stack[l]
  BY <1>1, <1>2 DEF Popped, Activations
<1>5. \A k \in 1..Len(stack[i].todo) : ~stack[i].todo[k][2]
  BY DEF Quiet
<1>6. CASE i # n
  BY <1>4, <1>5, <1>6
<1>7. CASE i = n
  <2>1. ASSUME NEW k \in 1..(Len(todo) - 1) PROVE ~Tail(todo)[k][2]
    <3>1. k + 1 \in 1..Len(todo)
      BY <1>3
    <3>2. stack[i].todo = todo
      BY <1>1, <1>2, <1>7
    <3>3. ~todo[k + 1][2]
      BY <1>5, <3>1, <3>2, Zenon
    <3> QED
      BY <1>3, <3>3, Zenon
  <2> QED
    BY <1>3, <1>4, <1>7, <2>1, Zenon
<1> QED
  BY <1>6, <1>7

(* Whoever overrides last decides, if candidates change only as requested. *)
LEMMA LastDecides ==
  ASSUME Types, Overridden, project' = project, visited_manifests \subseteq visited_manifests',
         NEW d, NEW override \in BOOLEAN, Given' \in Int,
         \/ /\ override /\ Given' = Given + 1 /\ Given + 1 \in 1..Len(Orders)
            /\ d = Orders[Given + 1]
         \/ /\ ~override /\ Given <= Given'
            /\ \A i \in 1..Len(Orders) : i <= Given' => i <= Given,
         \A e \in Current' : e.manifest \in visited_manifests =>
           \/ e \in Current
           \/ override /\ e.manifest = d.to /\ d.profile # 0
           \/ ~override /\ \E c \in Current : c.manifest = e.manifest /\ ~c.explicit_profile,
         override /\ d.to # Root /\ d.profile # 0 => Built(d.to, d.profile)'
  PROVE  Overridden'
<1>1. PICK q \in Nat, g \in Int, h \in Int : q = Len(Orders) /\ g = Given /\ h = Given'
  BY GivenType
<1>2. Orders' = Orders
  BY DEF Orders, Overriding
<1>3. ASSUME NEW i \in 1..q, Decides(i, h), NEW o, o = Orders[i]
      PROVE  Built(o.to, o.profile)'
  <2>1. /\ i <= h /\ o.to # Root /\ o.profile # 0
        /\ \A j \in 1..q : i < j /\ j <= h /\ Orders[j].to = o.to => Orders[j].profile = 0
    BY <1>1, <1>3 DEF Decides
  <2>2. ASSUME Decides(i, g), ~(override /\ d.to = o.to /\ d.profile # 0)
        PROVE  Built(o.to, o.profile)'
    <3>1. Built(o.to, o.profile)
      BY <1>1, <1>3, <2>2 DEF Overridden, Built
    <3>2. o.to \in visited_manifests
      BY <3>1 DEF Built
    <3>3. ASSUME NEW e \in Current', e.manifest = o.to
          PROVE  e \in Current
      BY <2>2, <3>1, <3>2, <3>3 DEF Built
    <3> QED
      BY <3>1, <3>2, <3>3 DEF Built
  <2>3. CASE override
    <3>1. h = g + 1 /\ g + 1 \in 1..q /\ d = Orders[g + 1]
      BY <1>1, <2>3
    <3>2. CASE d.to = o.to /\ d.profile # 0
      <4>1. ~(i < g + 1)
        BY <2>1, <3>1, <3>2
      <4>2. i = g + 1
        BY <2>1, <3>1, <4>1
      <4> QED
        BY <1>3, <2>1, <2>3, <3>1, <4>2
    <3>3. CASE ~(d.to = o.to /\ d.profile # 0)
      <4>1. i # g + 1
        BY <1>3, <2>1, <3>1, <3>3
      <4>2. i <= g
        BY <2>1, <3>1, <4>1
      <4>3. \A j \in 1..q : j <= g => j <= h
        BY <3>1
      <4>4. Decides(i, g)
        BY <1>1, <1>3, <2>1, <4>2, <4>3 DEF Decides
      <4> QED
        BY <2>2, <3>3, <4>4
    <3> QED
      BY <3>2, <3>3
  <2>4. CASE ~override
    <3>1. g <= h /\ i <= g
      BY <1>1, <2>1, <2>4
    <3>2. \A j \in 1..q : j <= g => j <= h
      BY <3>1
    <3>3. Decides(i, g)
      BY <1>1, <1>3, <2>1, <3>1, <3>2 DEF Decides
    <3> QED
      BY <2>2, <2>4, <3>3
  <2> QED
    BY <2>3, <2>4
<1>4. ASSUME NEW i \in 1..Len(Orders'), Decides(i, Given)'
      PROVE  Built(Orders[i].to, Orders[i].profile)'
  <2>1. PICK o : o = Orders[i]
    OBVIOUS
  <2>2. Decides(i, h)
    BY <1>1, <1>2, <1>4 DEF Decides
  <2>3. Built(o.to, o.profile)'
    BY <1>1, <1>2, <1>3, <1>4, <2>1, <2>2
  <2> QED
    BY <1>2, <2>1, <2>3 DEF Built
<1> QED
  BY <1>4 DEF Overridden

(* The actions. *)

LEMMA VisitAgainOverridden ==
  ASSUME IInv, Pending, Walked, Ahead, Quiet, Overridden, VisitAgain
  PROVE  Ahead' /\ Quiet' /\ Overridden'
<1> DEFINE n == Len(stack)
           N == 1..Len(discovered_projects)
<1>1. Types /\ Discovering
  BY DEF IInv, VisitAgain
<1>2. PICK d : d = Dependency[1] /\ \E override \in BOOLEAN : override = Dependency[2]
  BY <1>1, Running
<1>12. PICK override \in BOOLEAN : override = Dependency[2]
  BY <1>2
<1>3. /\ n \in Nat \ {0} /\ Len(stack') = n /\ \A i \in 1..n : stack'[i].of = stack[i].of
      /\ Len(discovered_projects') = Len(discovered_projects) /\ stack' = Popped(stack)
      /\ project' = project /\ visited_manifests' = visited_manifests
  BY <1>1, VisitAgainMoves, Running DEF VisitAgain
<1>4. stack' # <<>> /\ stack'[1].todo = Popped(stack)[1].todo
  <2>1. Popped(stack) \in Seq(Activations) /\ Len(Popped(stack)) = n
    BY <1>1, Running
  <2> QED
    BY <1>3, <2>1
<1>5. /\ Ahead' /\ Given' \in Int
      /\ \/ /\ override /\ n = 1
            /\ Given' = Given + 1 /\ Given + 1 \in 1..Len(Orders) /\ d = Orders[Given + 1]
         \/ /\ ~override /\ Given <= Given'
            /\ \A i \in 1..Len(Orders) : i <= Given' => i <= Given
  BY <1>1, <1>2, <1>3, <1>4, <1>12, PoppedAhead
<1>6. Quiet'
  <2>1. \A i \in 1..n : i # 1 => \A k \in 1..Len(stack'[i].todo) : ~stack'[i].todo[k][2]
    BY <1>1, <1>3, PoppedQuiet
  <2> QED
    BY <1>3, <2>1, Zenon DEF Quiet
<1>7. ASSUME NEW j \in N
      PROVE  LET c == discovered_projects[j]
             IN  \/ /\ discovered_projects'[j] = c
                    /\ c.manifest # d.to \/ d.profile = 0 \/ (c.explicit_profile /\ ~override)
                 \/ /\ c.manifest = d.to /\ d.profile # 0 /\ (override \/ ~c.explicit_profile)
                    /\ discovered_projects'[j] = Candidate(d.to, d.profile, TRUE)
  BY <1>2, <1>12, VisitAgainMoves, Zenon
<1>8. ASSUME NEW e \in Current'
      PROVE  \/ \E i \in 1..n : e = stack[i].of
             \/ \E j \in N : e = discovered_projects'[j]
  BY <1>3 DEF Current
<1>9. ASSUME NEW e \in Current'
      PROVE  \/ e \in Current
             \/ override /\ e.manifest = d.to /\ d.profile # 0
             \/ ~override /\ \E c \in Current : c.manifest = e.manifest /\ ~c.explicit_profile
  <2>1. CASE \E i \in 1..n : e = stack[i].of
    BY <2>1 DEF Current
  <2>2. CASE \E j \in N : e = discovered_projects'[j]
    <3>1. PICK j \in N : e = discovered_projects'[j]
      BY <2>2
    <3>2. PICK c \in Current : c = discovered_projects[j]
      BY DEF Current
    <3>3. \/ e = c
          \/ /\ c.manifest = d.to /\ d.profile # 0 /\ (override \/ ~c.explicit_profile)
             /\ e = Candidate(d.to, d.profile, TRUE)
      BY <1>7, <3>1, <3>2
    <3>4. e = Candidate(d.to, d.profile, TRUE) => e.manifest = d.to
      BY DEF Candidate
    <3> QED
      BY <3>2, <3>3, <3>4
  <2> QED
    BY <1>8, <2>1, <2>2
<1>10. ASSUME override, d.to # Root, d.profile # 0
       PROVE  Built(d.to, d.profile)'
  <2>1. d.to \in visited_manifests'
    BY <1>2, <1>3 DEF VisitAgain
  <2>2. ASSUME NEW e \in Current', e.manifest = d.to
        PROVE  e.explicit_profile /\ e.selected_profile = d.profile
    <3>1. ~\E i \in 1..n : e = stack[i].of
      <4>1. n = 1 /\ stack[1].of.manifest = Root
        BY <1>4, <1>5, <1>10, <1>1 DEF Walked, Rooted, Discovering
      <4>2. \A i \in 1..n : stack[i].of.manifest = Root
        BY <4>1
      <4> QED
        BY <1>10, <2>2, <4>2
    <3>2. PICK j \in N : e = discovered_projects'[j]
      BY <1>8, <3>1
    <3>3. PICK c : c = discovered_projects[j]
      OBVIOUS
    <3>4. \/ e = c /\ c.manifest # d.to
          \/ e = Candidate(d.to, d.profile, TRUE)
      BY <1>7, <1>10, <3>2, <3>3
    <3> QED
      BY <2>2, <3>4 DEF Candidate
  <2> QED
    BY <2>1, <2>2 DEF Built
<1>11. Overridden'
  <2>1. visited_manifests \subseteq visited_manifests'
    BY <1>3
  <2>2. \/ /\ override /\ Given' = Given + 1 /\ Given + 1 \in 1..Len(Orders)
           /\ d = Orders[Given + 1]
        \/ /\ ~override /\ Given <= Given'
           /\ \A i \in 1..Len(Orders) : i <= Given' => i <= Given
    BY <1>5
  <2> QED
    BY <1>1, <1>3, <1>5, <1>9, <1>10, <2>1, <2>2, LastDecides
<1> QED
  BY <1>5, <1>6, <1>11

LEMMA EnterOverridden ==
  ASSUME IInv, Pending, Walked, Ahead, Quiet, Overridden, Enter
  PROVE  Ahead' /\ Quiet' /\ Overridden'
<1> DEFINE n == Len(stack)
<1>1. Types /\ Discovering /\ project \in Projects
  BY DEF IInv, Types, Enter
<1>2. PICK d, c, profile :
        /\ d = Dependency[1] /\ c = Candidate(d.to, profile, d.profile # 0)
        /\ d.profile # 0 => profile = d.profile
        /\ d.to \in DOMAIN project /\ d.to \notin visited_manifests
        /\ visited_manifests' = visited_manifests \cup {d.to}
        /\ Len(stack') = n + 1
        /\ \A i \in 1..n : stack'[i] = Popped(stack)[i] /\ stack'[i].of = stack[i].of
        /\ stack'[n + 1].of = c /\ stack'[n + 1].todo = Todo(project[d.to], profile, FALSE)
        /\ Current' = Current \cup {c}
  BY EnterMoves
<1>3. PICK override \in BOOLEAN : override = Dependency[2]
  BY <1>1, Running
<1>4. project' = project /\ n \in Nat \ {0}
  BY <1>1, Running DEF Enter
<1>5. stack' # <<>> /\ stack'[1].todo = Popped(stack)[1].todo
  <2>1. 1 \in 1..n
    BY <1>4
  <2>2. stack' # <<>>
    <3>1. Len(<<>>) = 0
      OBVIOUS
    <3> QED
      BY <1>2, <1>4, <3>1
  <2> QED
    BY <1>2, <2>1, <2>2
<1>6. /\ Ahead' /\ Given' \in Int
      /\ \/ /\ override /\ n = 1
            /\ Given' = Given + 1 /\ Given + 1 \in 1..Len(Orders) /\ d = Orders[Given + 1]
         \/ /\ ~override /\ Given <= Given'
            /\ \A i \in 1..Len(Orders) : i <= Given' => i <= Given
  BY <1>1, <1>2, <1>3, <1>4, <1>5, PoppedAhead
<1>7. Quiet'
  <2>1. PICK todo : todo = stack'[n + 1].todo
    OBVIOUS
  <2>2. \A k \in 1..Len(todo) : ~todo[k][2]
    <3>1. todo = Todo(project[d.to], profile, FALSE)
      BY <1>2, <2>1
    <3> QED
      BY <1>1, <1>2, <3>1, TodoQuiet
  <2>3. ASSUME NEW i \in 1..(n + 1), i # 1
        PROVE  \A k \in 1..Len(stack'[i].todo) : ~stack'[i].todo[k][2]
    <3>1. CASE i \in 1..n
      <4>1. \A k \in 1..Len(Popped(stack)[i].todo) : ~Popped(stack)[i].todo[k][2]
        BY <1>1, <2>3, <3>1, PoppedQuiet
      <4>2. stack'[i] = Popped(stack)[i]
        BY <1>2, <3>1
      <4> QED
        BY <4>1, <4>2, Zenon
    <3>2. CASE i = n + 1
      BY <2>1, <2>2, <3>2, Zenon
    <3>3. i \in 1..n \/ i = n + 1
      BY <1>4
    <3> QED
      BY <3>1, <3>2, <3>3
  <2> HIDE DEF n
  <2>4. Len(stack') = n + 1
    BY <1>2
  <2> QED
    BY <2>3, <2>4, Zenon DEF Quiet
<1>8. c.manifest = d.to /\ c.selected_profile = profile /\ c.explicit_profile = (d.profile # 0)
  BY <1>2 DEF Candidate
<1>9. \A e \in Current : e.manifest \in visited_manifests
  BY CurrentVisited
<1>10. d.profile # 0 => Built(d.to, d.profile)'
  <2>1. \A e \in Current' : e.manifest = d.to => e = c
    BY <1>2, <1>9
  <2>2. d.to \in visited_manifests'
    BY <1>2
  <2> QED
    BY <1>2, <1>8, <2>1, <2>2 DEF Built
<1>11. Overridden'
  <2>1. visited_manifests \subseteq visited_manifests'
    BY <1>2
  <2>2. \/ /\ override /\ Given' = Given + 1 /\ Given + 1 \in 1..Len(Orders)
           /\ d = Orders[Given + 1]
        \/ /\ ~override /\ Given <= Given'
           /\ \A i \in 1..Len(Orders) : i <= Given' => i <= Given
    BY <1>6
  <2>3. \A e \in Current' : e.manifest \in visited_manifests => e \in Current
    BY <1>2, <1>8
  <2> QED
    BY <1>1, <1>4, <1>6, <1>10, <2>1, <2>2, <2>3, LastDecides
<1> QED
  BY <1>6, <1>7, <1>11

LEMMA LeaveOverridden ==
  ASSUME IInv, Ahead, Quiet, Overridden, Leave
  PROVE  Ahead' /\ Quiet' /\ Overridden'
<1> DEFINE n == Len(stack)
<1>1. Types /\ stack # <<>> /\ Top.todo = <<>>
  BY DEF IInv, Leave
<1>2. /\ n \in Nat \ {0} /\ stack[n] = Top /\ Len(stack') = n - 1
      /\ \A i \in 1..(n - 1) : stack'[i] = stack[i]
      /\ Current' = Current
  BY LeaveMoves
<1>3. project' = project /\ visited_manifests' = visited_manifests
  BY DEF Leave
<1>4. Orders' = Orders
  BY <1>3 DEF Orders, Overriding
<1>5. stack' # <<>> => stack'[1] = stack[1]
  <2>1. stack' \in Seq(Activations)
    BY <1>1, FrontFacts DEF Types, Leave
  <2>2. stack' # <<>> => 1 \in 1..(n - 1)
    BY <1>2, <2>1
  <2> QED
    BY <1>2, <2>2
<1>6. Left' = Left
  <2>1. CASE stack' = <<>>
    <3>1. n = 1
      BY <1>2, <2>1
    <3>2. Left = 0
      BY <1>1, <1>2, <3>1 DEF Left
    <3> QED
      BY <2>1, <3>2 DEF Left
  <2>2. CASE stack' # <<>>
    BY <1>1, <1>5, <2>2 DEF Left
  <2> QED
    BY <2>1, <2>2
<1>7. Given' = Given
  BY <1>4, <1>6 DEF Given
<1>8. Ahead'
  BY <1>1, <1>4, <1>5, <1>7, Zenon DEF Ahead
<1>9. Quiet'
  <2>1. \A i \in 1..(n - 1) : i \in 1..n
    BY <1>2
  <2> HIDE DEF n
  <2>2. 1..Len(stack) = 1..n
    BY DEF n
  <2> QED
    BY <1>2, <2>1, <2>2, Zenon DEF Quiet
<1>10. Overridden'
  <2>1. PICK d : d = Root
    OBVIOUS
  <2>3. PICK override \in BOOLEAN : override = FALSE
    OBVIOUS
  <2>2. Given' \in Int /\ Given <= Given' /\ \A i \in 1..Len(Orders) : i <= Given' => i <= Given
    BY <1>1, <1>7, GivenType
  <2> QED
    BY <1>1, <1>2, <1>3, <2>2, <2>3, LastDecides
<1> QED
  BY <1>8, <1>9, <1>10

LEMMA OverriddenStep ==
  ASSUME IInv, Pending, Walked, Ahead, Quiet, Overridden, [Next]_vars
  PROVE  Ahead' /\ Quiet' /\ Overridden'
<1>1. CASE VisitAgain
  BY <1>1, VisitAgainOverridden
<1>2. CASE Enter
  BY <1>2, EnterOverridden
<1>3. CASE Leave
  BY <1>3, LeaveOverridden
<1>4. CASE Refuse \/ Select \/ Incompatible \/ UNCHANGED vars
  <2>1. UNCHANGED <<project, stack, visited_manifests, discovered_projects>>
    BY <1>4 DEF Refuse, Select, Incompatible, vars, walk
  <2>2. Orders' = Orders /\ Left' = Left /\ Current' = Current
    BY <2>1 DEF Orders, Overriding, Left, Current
  <2>3. Given' = Given
    BY <2>2 DEF Given
  <2>4. \A i : Decides(i, Given)' <=> Decides(i, Given)
    BY <2>2, <2>3 DEF Decides
  <2>5. \A i : Built(Orders[i].to, Orders[i].profile)' <=> Built(Orders[i].to, Orders[i].profile)
    BY <2>1, <2>2 DEF Built
  <2>6. Overridden'
    BY <2>2, <2>4, <2>5, Zenon DEF Overridden
  <2>7. Ahead'
    BY <2>1, <2>2, <2>3, Zenon DEF Ahead
  <2>8. Quiet'
    BY <2>1, Zenon DEF Quiet
  <2> QED
    BY <2>6, <2>7, <2>8
<1> QED
  BY <1>1, <1>2, <1>3, <1>4 DEF Next

THEOREM OverrideInvariance ==
  Spec => [](IInv /\ Pending /\ Walked /\ Ahead /\ Quiet /\ Overridden)
<1>1. Init /\ [][Next]_vars /\ [](IInv /\ Pending /\ Walked) => [](Ahead /\ Quiet /\ Overridden)
  BY InitOverridden, OverriddenStep, PTL
<1> QED
  BY <1>1, WalkInvariance, PTL DEF Spec

(* Whatever the order of the requests, a project has the profile that the
   root's active profile overrides it with, by its last request; and one that
   was asked for by a dependency that was followed, unless the project is part
   of a cycle. *)
THEOREM HonoursRequests ==
  Spec => []RequestsHonoured
<1>1. IInv /\ Walked /\ Overridden => RequestsHonoured
  <2> SUFFICES ASSUME IInv, Walked, Overridden, outcome = "resolved",
                      NEW c \in ToSet(discovered_projects), NEW m, m = c.manifest, m # Root
               PROVE  /\ Overrides(m) # {} =>
                           c.selected_profile = Overriding[Max(Overrides(m))].profile
                      /\ ~OnCycle(m) /\ Requests(m, Sure) # {} =>
                           c.selected_profile \in Requests(m, Possible)
    BY DEF RequestsHonoured
  <2>1. stack = <<>> /\ c \in Current
    BY WhenFound DEF Walked, Rooted
  <2>2. ASSUME Overrides(m) # {}
        PROVE  c.selected_profile = Overriding[Max(Overrides(m))].profile
    <3>1. Active \in project[Root].profiles /\ Orders = Overriding
      BY <2>2 DEF Overrides, Orders
    <3>2. PICK q \in Nat : q = Len(Orders) /\ Given = q /\ DOMAIN Orders = 1..q
      <4>1. Orders \in Seq(Requirements) /\ Len(Orders) \in Nat
        BY OrdersType DEF IInv, Types
      <4>2. Left = 0
        BY <2>1 DEF Left
      <4> QED
        BY <4>1, <4>2 DEF Given
    <3>3. Overrides(m) = {i \in 1..q : Orders[i].to = m /\ Orders[i].profile # 0}
      BY <3>1, <3>2 DEF Overrides
    <3>4. PICK i : i = Max(Overrides(m))
      OBVIOUS
    <3>5. i \in Overrides(m) /\ \A j \in Overrides(m) : j <= i
      BY <2>2, <3>2, <3>3, <3>4, LastPosition
    <3>6. i \in 1..q /\ Orders[i].to = m /\ Orders[i].profile # 0
      BY <3>3, <3>5
    <3>7. ASSUME NEW j \in 1..q, i < j, Orders[j].to = m
          PROVE  Orders[j].profile = 0
      <4>1. ~(j <= i)
        BY <3>6, <3>7
      <4> QED
        BY <3>3, <3>5, <3>7, <4>1
    <3>8. Decides(i, Given)
      BY <3>2, <3>6, <3>7 DEF Decides
    <3>9. PICK o : o = Orders[i]
      OBVIOUS
    <3>10. Built(o.to, o.profile)
      BY <3>2, <3>6, <3>8, <3>9 DEF Overridden, Built
    <3> QED
      BY <2>1, <3>1, <3>4, <3>6, <3>9, <3>10 DEF Built
  <2>3. ASSUME ~OnCycle(m), Requests(m, Sure) # {}
        PROVE  c.selected_profile \in Requests(m, Possible)
    <3>1. PICK r \in Sure : r.to = m /\ r.profile # 0
      BY <2>3 DEF Requests
    <3>2. Done(r)
      BY <2>1, <3>1, FollowedDone DEF Sure
    <3>3. ~Cyclic(m)
      BY <2>1, <2>3, WhenFound
    <3>4. c.explicit_profile
      BY <2>1, <3>1, <3>2, <3>3 DEF Done, Heard
    <3>5. PICK x \in Current : \E d \in Leads(x) :
            d.to = m /\ d.profile # 0 /\ d.profile = c.selected_profile
      BY <2>1, <3>4 DEF Walked, AllRequested, Requested
    <3>6. PICK d \in Leads(x) : d.to = m /\ d.profile # 0 /\ d.profile = c.selected_profile
      BY <3>5
    <3>7. d \in Possible
      BY <2>1, <3>6, WhenFound DEF Possible
    <3> QED
      BY <3>6, <3>7 DEF Requests
  <2> QED
    BY <2>2, <2>3
<1> QED
  BY <1>1, OverrideInvariance, PTL
=============================================================================
