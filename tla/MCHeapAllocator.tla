--------------------------- MODULE MCHeapAllocator ---------------------------
(* Small instances of HeapAllocator. *)
EXTENDS HeapAllocator

(* One, two and three words of payload, and the empty string. *)
MCRequests == {[tag |-> "OBJECT", count |-> 8],
               [tag |-> "ARRAY_U16", count |-> 5],
               [tag |-> "ARRAY_REF", count |-> 3],
               [tag |-> "ARRAY_U8", count |-> 0]}

(* A tuple of two elements takes three words, or one when it is freed. *)
TupleRequests == {[tag |-> "TUPLE", count |-> 2], [tag |-> "OBJECT", count |-> 8]}
=============================================================================
