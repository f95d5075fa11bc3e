---------------------------- MODULE HeapContract ----------------------------
(***************************************************************************)
(* What the heap of the virtual machine promises its callers, without free *)
(* lists: a block is a set of words no other live block has, freeing it    *)
(* gives exactly those words back, and a request is refused only when no   *)
(* run of free words is long enough for it.  A run is long enough for p    *)
(* words of payload when it holds them, the header and two words more,     *)
(* which the allocator needs to keep the remainder as a free block.        *)
(***************************************************************************)
EXTENDS Integers

CONSTANTS
  First, Last,  \* the words of the dynamic heap are First .. Last
  Sizes         \* the payload sizes that can be asked for

VARIABLES
  live,    \* address of a live block -> words of its payload
  refused  \* why a request was not served, which ends the program

contractVars == <<live, refused>>

Extent(a, p) == a .. a + p

Free(w) == \A a \in DOMAIN live : w \notin Extent(a, live[a])

ContractInit == live = << >> /\ refused = "none"

Grant(p) ==
  /\ refused = "none"
  /\ \E a \in First .. Last :
       /\ a + p <= Last
       /\ \A w \in Extent(a, p) : Free(w)
       /\ live' = [x \in DOMAIN live \cup {a} |-> IF x = a THEN p ELSE live[x]]
  /\ UNCHANGED refused

Release(a) ==
  /\ refused = "none"
  /\ live' = [x \in DOMAIN live \ {a} |-> live[x]]
  /\ UNCHANGED refused

Refuse(p) ==
  /\ refused = "none"
  /\ \A a \in First .. Last :
       a + p + 2 <= Last => \E w \in Extent(a, p + 2) : ~Free(w)
  /\ refused' = "heap overflow"
  /\ UNCHANGED live

(* Static memory is not the contract's, except that it may run out. *)
StaticRefuse ==
  /\ refused = "none"
  /\ refused' = "static overflow"
  /\ UNCHANGED live

ContractNext ==
  \/ \E p \in Sizes : Grant(p) \/ Refuse(p)
  \/ \E a \in DOMAIN live : Release(a)
  \/ StaticRefuse

ContractSpec == ContractInit /\ [][ContractNext]_contractVars
=============================================================================
