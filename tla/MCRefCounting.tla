---------------------------- MODULE MCRefCounting ----------------------------
(* Small instances of RefCounting. *)
EXTENDS RefCounting, TLC

CONSTANTS a1, a2, a3

(* Two blocks and every careful assignment, a chain of three blocks, the
   assignments that lose references, and blocks of several layouts. *)
MCPrograms ==
  {[targets |-> {"field", "element", "weak", "static"}, habits |-> {}, layouts |-> {},
    blocks |-> {a1, a2}, work |-> 14],
   [targets |-> {"field", "static"}, habits |-> {}, layouts |-> {},
    blocks |-> Addr, work |-> 6],
   [targets |-> {"field", "path", "by_name"}, habits |-> {}, layouts |-> {},
    blocks |-> {a1, a2}, work |-> 10],
   [targets |-> {"field", "weak"}, habits |-> {}, layouts |-> {"strong"},
    blocks |-> {a1, a2}, work |-> 5],
   [targets |-> {"weak", "static"}, habits |-> {}, layouts |-> {"header"},
    blocks |-> Addr, work |-> 4]}

PendingPrograms ==
  {[targets |-> {"field", "static"}, habits |-> {"pending"}, layouts |-> {},
    blocks |-> {a1, a2}, work |-> 10]}

(* Addresses are only compared; the programs tell a3 from the others. *)
Symmetry == Permutations({a1, a2})
=============================================================================
