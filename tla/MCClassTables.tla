--------------------------- MODULE MCClassTables ---------------------------
(* Small programs for ClassTables. *)
EXTENDS ClassTables

Decl(kind, base, implements, methods) ==
  [kind |-> kind, base |-> base, implements |-> implements, methods |-> methods,
   fields |-> <<>>, destructor |-> FALSE, package |-> "p", qualified |-> FALSE]
M(signature, modifier) == [signature |-> signature, modifier |-> modifier]
Maybe(signature, modifiers) == {<<>>} \cup {<<M(signature, m)>> : m \in modifiers}
Interface(extended, signatures) ==
  Decl("interface", IF extended = <<>> THEN None ELSE extended[1], extended,
       [i \in DOMAIN signatures |-> M(signatures[i], "plain")])

(* One method in three classes, in a line or two below one, and an interface
   that any of them implement. *)
OneMethod ==
  {[a |-> Decl(kind, None, ia, ma), b |-> Decl("class", "a", ib, mb),
    c |-> Decl("class", base, ic, mc), i |-> Interface(<<>>, <<"m">>)] :
     kind \in {"class", "abstract class"}, base \in {"a", "b"},
     ia \in {<<>>, <<"i">>}, ib \in {<<>>, <<"i">>}, ic \in {<<>>, <<"i">>},
     ma \in Maybe("m", Modifiers \ {"override"}), mb \in Maybe("m", {"plain", "override", "abstract"}),
     mc \in Maybe("m", {"plain", "override"})}

(* Two methods, and interfaces that share one of them or extend another. *)
Bodies == {<<M("m", "override"), M("n", "plain")>>, <<M("n", "plain"), M("m", "plain")>>,
           <<M("n", "override")>>, <<M("n", "virtual"), M("m", "override")>>}
TwoMethods ==
  {[a |-> Decl("abstract class", None, ia, ma), b |-> Decl("class", "a", ib, mb),
    c |-> Decl("class", base, ic, mc), i |-> Interface(<<>>, <<"m">>), j |-> Interface(ij, mj)] :
     ia \in {<<>>, <<"i">>}, ib \in {<<>>, <<"j">>}, ic \in {<<"i", "j">>},
     ma \in {<<M("m", "virtual")>>, <<M("n", "abstract"), M("m", "plain")>>}, base \in {"a", "b"},
     mb \in Bodies, mc \in {<<>>, <<M("n", "override")>>, <<M("n", "plain"), M("m", "plain")>>},
     ij \in {<<"i">>}, mj \in {<<"n">>, <<"n", "m">>}}

(* An interface that extends two. *)
Diamond ==
  {[a |-> Decl("class", None, ia, <<M("n", "plain"), M("m", "plain"), M("o", "plain")>>),
    b |-> Decl("class", "a", ib, mb),
    i |-> Interface(<<>>, <<"m">>), j |-> Interface(ij, <<"n">>),
    k |-> Interface(ik, mk)] :
     ia \in {<<>>, <<"j">>, <<"k">>}, ib \in {<<"k">>, <<"j", "i">>},
     mb \in {<<>>, <<M("m", "plain"), M("n", "plain"), M("o", "plain")>>},
     ij \in {<<>>, <<"i">>}, ik \in {<<"i", "j">>, <<"j", "i">>, <<"j">>},
     mk \in {<<>>, <<"o">>, <<"o", "m">>}}

(* Classes and interfaces that extend each other. *)
Cycles ==
  {[a |-> Decl("class", ba, ia, <<>>), b |-> Decl("class", "a", <<>>, mb),
    c |-> Decl("class", bc, <<>>, <<>>), i |-> Interface(ii, <<"m">>), j |-> Interface(<<"i">>, <<>>)] :
     ba \in {None, "a", "b", "c"}, ia \in {<<>>, <<"i">>}, bc \in {None, "b"},
     mb \in {<<>>, <<M("m", "plain")>>}, ii \in {<<>>, <<"i">>, <<"j">>}}

(* Fields. *)
F(bytes, kind) == [bytes |-> bytes, reference |-> kind # "value", weak |-> kind = "weak"]
Fields(c, fields) == [c EXCEPT !.fields = fields]
Layouts ==
  {[a |-> Fields(Decl("class", None, <<>>, <<>>), fa),
    b |-> Fields(Decl("class", "a", <<>>, <<>>), fb),
    c |-> Fields(Decl("class", base, <<>>, <<>>), fc)] :
     base \in {"a", "b"},
     fa \in {<<>>, <<F(1, "value")>>, <<F(4, "value"), F(8, "strong")>>, <<F(8, "weak")>>},
     fb \in {<<>>, <<F(1, "value"), F(8, "strong")>>, <<F(2, "value"), F(1, "value"), F(4, "value")>>},
     fc \in {<<F(8, "strong"), F(1, "value"), F(8, "weak"), F(8, "strong")>>, <<F(1, "value")>>}}

(* Destructors, in one package or in several. *)
Owns(c, d, package, qualified) ==
  [c EXCEPT !.destructor = d, !.package = package, !.qualified = qualified]
Destructors ==
  {[a |-> Owns(Decl("class", None, <<>>, <<>>), da, "p", FALSE),
    b |-> Owns(Decl("class", "a", <<>>, <<>>), db, pb, qb),
    c |-> Owns(Decl("class", "b", <<>>, <<>>), dc, pc, qc),
    d |-> Owns(Decl("class", base, <<>>, <<>>), dd, pc, TRUE)] :
     da \in BOOLEAN, db \in BOOLEAN, dc \in BOOLEAN, dd \in BOOLEAN, base \in {"b", "c"},
     pb \in {"p"}, pc \in {"p", "q"}, qb \in {FALSE}, qc \in BOOLEAN}

MCPrograms == OneMethod \cup TwoMethods \cup Diamond \cup Cycles \cup Layouts \cup Destructors
=============================================================================
