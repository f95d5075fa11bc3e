-------------------------- MODULE DependencyGraph --------------------------
(***************************************************************************)
(* Dependency resolution: DependencyManager::resolve_graph and             *)
(* discover_single_project_dependency in                                   *)
(* tools/cli/src/dependency_resolver.hpp.                                  *)
(*                                                                         *)
(* The walk is a recursive function over the manifests on disk; its        *)
(* activations are the stack.  A dependency names the manifest that its    *)
(* path, or the package manager for its name and version, leads to.  Paths *)
(* are compared after find_project_manifest has normalised them.           *)
(***************************************************************************)
EXTENDS Integers, Sequences, FiniteSets, SequencesExt, FiniteSetsExt

CONSTANTS
  Root,      \* the manifest of the project that is built
  Missing,   \* where a dependency leads that is not there
  Active,    \* the active profile
  Debug,     \* the profile "debug"
  Projects   \* the sets of manifests to resolve

(* Profiles are positive numbers, in the order of their names; 0 is none.

   project[m] is a manifest: the name and the <<major, minor>> of its
   project, whether it is an app, the profiles it defines, its dependencies
   and, for each profile, additional_dependencies. *)
Profile == Nat \ {0}
ASSUME ProfileAssumption == Active \in Profile /\ Debug \in Profile
ASSUME ProjectAssumption ==
  \A manifests \in Projects :
    /\ Root \in DOMAIN manifests /\ Missing \notin DOMAIN manifests
    /\ \A m \in DOMAIN manifests :
         LET p == manifests[m]
             Requirements == Seq([to : DOMAIN manifests \cup {Missing}, profile : Nat])
         IN  /\ p.version \in Int \X Int
             /\ p.profiles \subseteq Profile
             /\ p.dependencies \in Requirements
             /\ \A profile \in p.profiles : p.additional[profile] \in Requirements

VARIABLES
  project,
  stack,                \* the activations, with the dependencies left to do
  visited_manifests,
  discovered_projects,
  discovery_order,      \* names
  final_selected_projects,
  outcome

walk == <<stack, visited_manifests, discovered_projects, discovery_order>>
vars == <<project, walk, final_selected_projects, outcome>>

Candidate(m, profile, explicit) ==
  [manifest |-> m, selected_profile |-> profile, explicit_profile |-> explicit]
Name(c) == project[c.manifest].name
Version(c) == project[c.manifest].version

Top == Last(stack)
Dependency == Head(Top.todo)

(* What is left to do in a project: its dependencies and those of the
   profile.  The active profile of the root may override profiles.  As if
   the profile had none. *)
OwnOnly(p, profile, override) ==
  [i \in DOMAIN p.dependencies |-> <<p.dependencies[i], FALSE>>]
Marked(deps, override) == [i \in DOMAIN deps |-> <<deps[i], override>>]
Todo(p, profile, override) ==
  Marked(p.dependencies, FALSE)
  \o (IF profile \in p.profiles THEN Marked(p.additional[profile], override) ELSE <<>>)

Init ==
  /\ project \in Projects
  /\ stack = <<[of |-> Candidate(Root, Active, TRUE),
                todo |-> Todo(project[Root], Active, TRUE)]>>
  /\ visited_manifests = {Root}
  /\ discovered_projects = <<>>
  /\ discovery_order = <<>>
  /\ final_selected_projects = <<>>
  /\ outcome = "discovering"

-----------------------------------------------------------------------------
(* discover_single_project_dependency. *)

Discovering == outcome = "discovering" /\ stack # <<>> /\ Top.todo # <<>>
Popped(s) == [s EXCEPT ![Len(s)].todo = Tail(@)]

(* A manifest that was visited may still adopt a profile.  As if the root
   had no say. *)
FirstRequest(c, d, override) == c.manifest = d.to /\ ~c.explicit_profile
Adopts(c, d, override) == c.manifest = d.to /\ (override \/ ~c.explicit_profile)

VisitAgain ==
  LET d == Dependency[1]
      adopt(c) == d.profile # 0 /\ Adopts(c, d, Dependency[2])
  IN  /\ Discovering /\ d.to \in visited_manifests
      /\ discovered_projects' =
           [i \in DOMAIN discovered_projects |->
              IF adopt(discovered_projects[i])
                THEN Candidate(d.to, d.profile, TRUE) ELSE discovered_projects[i]]
      /\ stack' = Popped(stack)
      /\ UNCHANGED <<project, visited_manifests, discovery_order,
                     final_selected_projects, outcome>>

Inherited(p, parent) ==
  CASE p.profiles = {} -> 0
    [] parent \in p.profiles -> parent
    [] parent \notin p.profiles /\ Debug \in p.profiles -> Debug
    [] OTHER -> Min(p.profiles)

(* A manifest becomes visited before its dependencies are looked at.  As if
   it did not. *)
VisitedLate(m) == visited_manifests
Visited(m) == visited_manifests \cup {m}

Acceptable(d) ==
  /\ d.to # Missing
  /\ ~project[d.to].app
  /\ d.profile # 0 => d.profile \in project[d.to].profiles

Enter ==
  LET d == Dependency[1]
      p == project[d.to]
      profile == IF d.profile # 0 THEN d.profile
                                  ELSE Inherited(p, Top.of.selected_profile)
  IN  /\ Discovering /\ d.to \notin visited_manifests /\ Acceptable(d)
      /\ visited_manifests' = Visited(d.to)
      /\ stack' = Append(Popped(stack),
                         [of |-> Candidate(d.to, profile, d.profile # 0),
                          todo |-> Todo(p, profile, FALSE)])
      /\ UNCHANGED <<project, discovered_projects, discovery_order,
                     final_selected_projects, outcome>>

Refuse ==
  /\ Discovering
  /\ Dependency[1].to \notin visited_manifests /\ ~Acceptable(Dependency[1])
  /\ outcome' = "failed"
  /\ UNCHANGED <<project, walk, final_selected_projects>>

(* A name keeps the place where it was first discovered.  As if it were added
   every time, and as if it came first. *)
AddedAgain(name) == Append(discovery_order, name)
FirstInOrder(name) == <<name>> \o discovery_order
Ordered(name) == IF Contains(discovery_order, name) THEN discovery_order
                                                    ELSE Append(discovery_order, name)

Leave ==
  /\ outcome = "discovering" /\ stack # <<>> /\ Top.todo = <<>>
  /\ discovered_projects' = Append(discovered_projects, Top.of)
  /\ discovery_order' = Ordered(Name(Top.of))
  /\ stack' = Front(stack)
  /\ outcome' = IF Len(stack) = 1 THEN "selecting" ELSE outcome
  /\ UNCHANGED <<project, visited_manifests, final_selected_projects>>

-----------------------------------------------------------------------------
(* The second half of resolve_graph: one version of each name. *)

Less(v, w) == v[1] < w[1] \/ (v[1] = w[1] /\ v[2] < w[2])

Named(name) == {c \in ToSet(discovered_projects) : Name(c) = name}
NextName == discovery_order[Len(final_selected_projects) + 1]

(* std::sort may leave candidates of one version in any order.  As if it
   sorted downwards. *)
SortedDown(cs) == {s \in SetToSeqs(cs) : \A i, j \in DOMAIN s :
                     i < j => ~Less(Version(s[i]), Version(s[j]))}
Sorted(cs) == {s \in SetToSeqs(cs) : \A i, j \in DOMAIN s :
                 i < j => ~Less(Version(s[j]), Version(s[i]))}

(* As if minor versions had to agree. *)
SameVersion(cs) == \A c, d \in cs : Version(c) = Version(d)
SameMajor(cs) == \A c, d \in cs : Version(c)[1] = Version(d)[1]

(* The highest version, with the profile of the last explicit request. *)
Adopted(s) ==
  LET explicit == {i \in DOMAIN s : s[i].explicit_profile}
  IN  IF explicit = {} THEN Last(s)
        ELSE Candidate(Last(s).manifest, s[Max(explicit)].selected_profile, TRUE)

Selecting == outcome = "selecting"
             /\ Len(final_selected_projects) < Len(discovery_order)

Select ==
  /\ Selecting /\ SameMajor(Named(NextName))
  /\ \E s \in Sorted(Named(NextName)) :
       final_selected_projects' = Append(final_selected_projects, Adopted(s))
  /\ outcome' = IF Len(final_selected_projects') = Len(discovery_order)
                  THEN "resolved" ELSE outcome
  /\ UNCHANGED <<project, walk>>

Incompatible ==
  /\ Selecting /\ ~SameMajor(Named(NextName))
  /\ outcome' = "failed"
  /\ UNCHANGED <<project, walk, final_selected_projects>>

Next == VisitAgain \/ Enter \/ Refuse \/ Leave \/ Select \/ Incompatible

Spec == Init /\ [][Next]_vars

-----------------------------------------------------------------------------
(* Properties. *)

Candidates ==
  [manifest : DOMAIN project, selected_profile : Nat, explicit_profile : BOOLEAN]

(* Every variable has its type; discovery_order lists a name once. *)
TypeOK ==
  /\ \A i \in DOMAIN stack : stack[i].of \in Candidates
  /\ visited_manifests \subseteq DOMAIN project
  /\ discovered_projects \in Seq(Candidates)
  /\ ToSet(discovery_order) \subseteq {project[m].name : m \in DOMAIN project}
  /\ IsInjective(discovery_order)
  /\ final_selected_projects \in Seq(Candidates)
  /\ outcome \in {"discovering", "selecting", "resolved", "failed"}

(* What a manifest asks for, when a given profile of it is built. *)
Asked(m, profile) ==
  ToSet(project[m].dependencies)
  \cup (IF profile \in project[m].profiles THEN ToSet(project[m].additional[profile]) ELSE {})

(* All that it asks for in some profile. *)
AskedOf(m) == UNION {Asked(m, profile) : profile \in project[m].profiles \cup {0}}

Found == {c.manifest : c \in ToSet(discovered_projects)}

(* A project that adopts a profile when its dependencies have been discovered
   is built with a profile whose additional_dependencies nobody looks at.
   Sure to have kept its profile is one that no two requests differ about. *)
Settled(c) ==
  \/ c.manifest = Root
  \/ ~c.explicit_profile
  \/ \A m \in Found : \A d \in AskedOf(m) :
       d.to = c.manifest => d.profile = c.selected_profile

(* The dependencies that have been followed, whatever the order of requests,
   and those that may have been. *)
Followed(c) == Asked(c.manifest, IF Settled(c) THEN c.selected_profile ELSE 0)
Followable(c) == IF Settled(c) THEN Asked(c.manifest, c.selected_profile)
                               ELSE AskedOf(c.manifest)

(* One candidate is reached from another: it is in every set that has the other
   and all that its members may have followed. *)
Closed(Q) ==
  \A c \in ToSet(discovered_projects) : c.manifest \in Q =>
    \A d \in Followable(c) : d.to \in Found => d.to \in Q
Reaches(m, n) == \A Q \in SUBSET Found : m \in Q /\ Closed(Q) => n \in Q
OnCycle(m) ==
  \E c \in ToSet(discovered_projects) :
    Reaches(m, c.manifest) /\ \E d \in Followable(c) : d.to = m

(* docs/spec/tools/cli/manifest.md: circular dependencies are "de-duplicated
   gracefully without error or infinite recursion".  No manifest is being
   discovered twice at the same time, and none becomes a candidate twice. *)
NoRecursion ==
  LET active == [i \in DOMAIN stack |-> stack[i].of.manifest]
  IN  IsInjective(active)
      /\ IsInjective([i \in DOMAIN discovered_projects |-> discovered_projects[i].manifest])
      /\ ToSet(active) \cap {c.manifest : c \in ToSet(discovered_projects)} = {}

(* docs/spec/tools/cli/manifest.md: all direct and transitive dependencies are
   discovered.  Whatever a candidate follows is a candidate, and there are no
   candidates but the root and what can be reached from it. *)
DiscoversReachable ==
  outcome = "resolved" =>
    /\ Root \in Found
    /\ \A c \in ToSet(discovered_projects) : \A d \in Followed(c) : d.to \in Found
    /\ \A m \in Found : Reaches(Root, m)

(* One project of each name is selected, of the highest version that any
   reachable project asks for. *)
HighestSelected ==
  outcome = "resolved" =>
    /\ {Name(c) : c \in ToSet(final_selected_projects)}
         = {project[m].name : m \in Found}
    /\ IsInjective([i \in DOMAIN final_selected_projects |-> Name(final_selected_projects[i])])
    /\ \A c \in ToSet(final_selected_projects), m \in Found :
         project[m].name = Name(c) => ~Less(Version(c), project[m].version)

(* docs/spec/tools/cli/manifest.md: hooks run "in topological order (deepest
   dependency first)".  A project precedes one it depends on only if the two
   depend on each other. *)
Topological ==
  outcome = "resolved" =>
    \A i, j \in DOMAIN final_selected_projects :
      LET a == final_selected_projects[i].manifest
          b == final_selected_projects[j].manifest
          needs == \E c \in ToSet(discovered_projects) : c.manifest = a
                     /\ \E d \in Followed(c) : d.to = b
      IN  i < j /\ needs => Reaches(b, a)

(* The same where no name has two versions. *)
OneVersion == \A c, d \in ToSet(discovered_projects) : Name(c) = Name(d) => c = d
TopologicalPerVersion == OneVersion => Topological

(* The places of the requests for a profile of m that the root's active profile
   makes: it overrides all others. *)
Overriding == project[Root].additional[Active]
Overrides(m) ==
  IF Active \notin project[Root].profiles THEN {}
    ELSE {i \in DOMAIN Overriding : Overriding[i].to = m /\ Overriding[i].profile # 0}

(* What is asked for explicitly, by a dependency that was followed. *)
Requests(m, deps) == {d.profile : d \in {e \in deps : e.to = m}} \ {0}
Sure == UNION {Followed(c) : c \in ToSet(discovered_projects)}
Possible == UNION {Followable(c) : c \in ToSet(discovered_projects)}

(* A project is built with the profile that the root overrides it with; one that
   is not part of a cycle with a profile that was asked for, if one was. *)
RequestsHonoured ==
  outcome = "resolved" =>
    \A c \in ToSet(discovered_projects) :
      LET m == c.manifest
      IN  m # Root =>
            /\ Overrides(m) # {} => c.selected_profile = Overriding[Max(Overrides(m))].profile
            /\ ~OnCycle(m) /\ Requests(m, Sure) # {} =>
                 c.selected_profile \in Requests(m, Possible)

(* docs/spec/tools/cli/manifest.md says of an explicit profile that it "must
   exist in the target dependency manifest": what is built is a profile the
   manifest defines. *)
ProfileExists ==
  outcome = "resolved" =>
    \A c \in ToSet(final_selected_projects) \ {Candidate(Root, Active, TRUE)} :
      c.selected_profile \in project[c.manifest].profiles \cup {0}

(* Resolution fails only for a reason that is there: a dependency that is
   missing or an app, a profile that is not defined, or two major versions of
   a name. *)
FailsForAReason ==
  outcome = "failed" =>
    \/ \E m \in visited_manifests : \E p \in project[m].profiles \cup {0} :
         \E d \in Asked(m, p) : ~Acceptable(d)
    \/ \E m, n \in visited_manifests :
         /\ project[m].name = project[n].name
         /\ project[m].version[1] # project[n].version[1]
=============================================================================
