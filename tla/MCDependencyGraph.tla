------------------------- MODULE MCDependencyGraph -------------------------
(* Small sets of manifests for DependencyGraph. *)
EXTENDS DependencyGraph

To(m, profile) == [to |-> m, profile |-> profile]

(* Lists of at most n dependencies on different manifests. *)
Lists(ms, profiles, n) ==
  LET ds == {To(m, p) : m \in ms, p \in profiles}
  IN  {<<>>} \cup (IF n >= 1 THEN {<<d>> : d \in ds} ELSE {})
      \cup (IF n >= 2 THEN {s \in ds \X ds : s[1].to # s[2].to} ELSE {})

Manifest(name, version, profiles, dependencies, additional) ==
  [name |-> name, version |-> version, app |-> FALSE, profiles |-> profiles,
   dependencies |-> dependencies, additional |-> additional]

(* Every graph of four projects, two of which are versions of one, without
   profiles. *)
Plain(name, version, dependencies) ==
  Manifest(name, version, {}, dependencies, <<>>)

Versions ==
  {[r |-> Plain("r", <<0, 1>>, dr), a1 |-> Plain("a", <<1, 0>>, d1),
    a2 |-> Plain("a", v, d2), b |-> Plain("b", <<1, 0>>, db)] :
     dr \in Lists({"a1", "a2", "b"}, {0}, 2), d1 \in Lists({"r", "a2", "b"}, {0}, 1),
     d2 \in Lists({"r", "a1", "b"}, {0}, 2), db \in Lists({"r", "a1", "a2"}, {0}, 2),
     v \in {<<1, 0>>, <<1, 1>>, <<2, 0>>}}

(* Projects that ask for profiles, and a root that overrides them. *)
Two == {1, 2}
Simple(name, profiles, dependencies) ==
  Manifest(name, <<1, 0>>, profiles, dependencies, [p \in profiles |-> <<>>])

Profiles ==
  {[r |-> Manifest("r", <<0, 1>>, Two, dr, <<more, <<>>>>),
    a |-> Simple("a", defined, da), b |-> Simple("b", Two, db)] :
     defined \in {{1}, Two},
     dr \in Lists({"a", "b"}, {0, 1, 2}, 2), more \in Lists({"a", "b"}, {0, 2}, 1),
     da \in Lists({"b", "r"}, {0, 1, 2}, 1), db \in Lists({"a"}, {0, 1, 2}, 1)}

(* Projects whose dependencies depend on the profile they inherit, are
   missing, are apps or do not define it. *)
Inheriting ==
  {[r |-> Manifest("r", <<0, 1>>, Two, dr, <<<<>>, <<>>>>),
    a |-> [Manifest("a", <<1, 0>>, defined, <<>>, [p \in defined |-> IF p = 2 THEN more ELSE <<>>])
             EXCEPT !.app = app],
    b |-> Manifest("b", <<1, 0>>, {2}, db, <<<<>>, <<To("a", 0)>>>>)] :
     dr \in Lists({"a", "b"}, {0}, 2), more \in Lists({"b", "none"}, {0}, 2),
     db \in Lists({"a"}, {0}, 1), defined \in {{}, {2}, Two}, app \in BOOLEAN}

(* Projects whose profiles, with dependencies of their own, are asked for before
   and after they have been discovered. *)
Adopting ==
  {[r |-> Manifest("r", <<0, 1>>, {1}, dr, <<more>>),
    a |-> Manifest("a", <<1, 0>>, Two, da, <<<<>>, two>>),
    b |-> Manifest("b", <<1, 0>>, Two, db, <<<<>>, two2>>), c |-> Simple("c", {1, 2}, <<>>)] :
     dr \in Lists({"a", "b"}, {0, 2}, 2), more \in Lists({"a"}, {1, 2}, 1),
     da \in Lists({"b"}, {0, 2}, 1), db \in Lists({"a"}, {2}, 1),
     two \in Lists({"b", "c"}, {0, 2}, 1), two2 \in Lists({"c"}, {2}, 1)}

MCProjects == Adopting \cup Inheriting \cup Profiles \cup Versions
=============================================================================
