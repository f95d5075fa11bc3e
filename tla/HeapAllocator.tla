--------------------------- MODULE HeapAllocator ---------------------------
(***************************************************************************)
(* The byte heap of the Solix virtual machine: Memory in                   *)
(* core/include/solix/runtime.hpp and Memory::deallocate and               *)
(* Memory::static_allocation in core/src/runtime.cpp.                      *)
(*                                                                         *)
(* Every address the allocator computes is a multiple of 8, so an address  *)
(* here is the index of a 64-bit word.  A block at address a is a header   *)
(* word at a and its payload at a+1 .. a+p.  What the payload holds, the   *)
(* reference count in the header and the weak slots deallocate() clears    *)
(* belong to RefCounting; an address is freed here because it was handed   *)
(* out and not freed since.                                                *)
(***************************************************************************)
EXTENDS Integers, FiniteSets, Functions

CONSTANTS
  HeapBytes,     \* heap.size()
  AddressWords,  \* 2^29: Address and the free list keys are uint32_t bytes
  Requests,      \* the (tag, count) pairs the bytecode asks for
  StaticWords    \* the operands of ALLOC_STATIC

Tags == {"RAW", "OBJECT", "ARRAY_U8", "ARRAY_I8", "ARRAY_U16", "ARRAY_I16",
         "ARRAY_U32", "ARRAY_I32", "ARRAY_U64", "ARRAY_REF", "CLOSURE",
         "TUPLE"}

ASSUME HeapAssumption == HeapBytes \in Nat /\ HeapBytes >= 32
ASSUME AddressAssumption == AddressWords \in Nat \ {0}
ASSUME RequestAssumption == Requests \subseteq [tag : Tags, count : Nat]
ASSUME StaticAssumption == StaticWords \subseteq Nat

VARIABLES
  header,               \* address of a live block -> the (tag, count) it was
                        \* asked for, which its header word keeps
  free_by_addr,         \* address of a free block -> its payload, in words
  free_by_size,         \* the same blocks as <<payload, address>>
  next_free_static,
  next_free_dynamic,
  currently_used_words,
  peak_used_words,
  live_objects_count,
  fault                 \* the std::runtime_error that ended the program

freeLists == <<free_by_addr, free_by_size>>
statistics == <<currently_used_words, peak_used_words, live_objects_count>>
vars == <<header, freeLists, next_free_static, next_free_dynamic, statistics,
          fault>>

-----------------------------------------------------------------------------
(* Sizes. *)

ElementBytes(tag) ==
  CASE tag \in {"ARRAY_U16", "ARRAY_I16"} -> 2
    [] tag \in {"ARRAY_U32", "ARRAY_I32"} -> 4
    [] tag \in {"ARRAY_U64", "ARRAY_REF", "CLOSURE"} -> 8
    [] OTHER -> 1

(* Bytes rounded up to words; an empty payload still takes one. *)
Aligned(bytes) == IF bytes = 0 THEN 1 ELSE (bytes + 7) \div 8

(* What dynamic_allocation reserves: a tuple holds a 4-byte type tag and an
   8-byte value per element. *)
PayloadWords(b) ==
  IF b.tag = "TUPLE" THEN Aligned(8 * ((b.count * 4 + 7) \div 8) + b.count * 8)
                     ELSE Aligned(b.count * ElementBytes(b.tag))

(* As if elements of two, four and eight bytes had no case either. *)
BytesOnly(b) == Aligned(b.count)

(* What deallocate computes from the header: it has no case for tuples. *)
FreedWords(b) == Aligned(b.count * ElementBytes(b.tag))

(* static_cast<uint32_t> of a number of bytes that is a multiple of 8. *)
Narrow(words) == words % AddressWords

DynamicStart == ((HeapBytes \div 2) + 7) \div 8

(* The first allocation replaces the initial value 8 of next_free_dynamic. *)
Top == IF next_free_dynamic = 1 THEN DynamicStart ELSE next_free_dynamic

(* After an error no handler in core/ catches, nothing runs any more. *)
Running == fault = "none"

-----------------------------------------------------------------------------
Init ==
  /\ header = << >>
  /\ free_by_addr = << >>
  /\ free_by_size = {}
  /\ next_free_static = 0
  /\ next_free_dynamic = 1
  /\ currently_used_words = 0
  /\ peak_used_words = 0
  /\ live_objects_count = 0
  /\ fault = "none"

Use(words) ==
  /\ currently_used_words' = currently_used_words + words
  /\ peak_used_words' = IF currently_used_words' > peak_used_words
                           THEN currently_used_words' ELSE peak_used_words

(* Without the object count. *)
HandOutUncounted(a, b) ==
  /\ header' = [x \in DOMAIN header \cup {a} |-> IF x = a THEN b ELSE header[x]]
  /\ Use(PayloadWords(b) + 1)
  /\ UNCHANGED <<next_free_static, live_objects_count, fault>>

(* The common end of every successful dynamic_allocation. *)
HandOut(a, b) ==
  /\ header' = [x \in DOMAIN header \cup {a} |-> IF x = a THEN b ELSE header[x]]
  /\ Use(PayloadWords(b) + 1)
  /\ live_objects_count' = live_objects_count + 1
  /\ UNCHANGED <<next_free_static, fault>>

Erase(f, S) == Restrict(f, DOMAIN f \ S)

ExactFit(b) == {e \in free_by_size : e[1] = Narrow(PayloadWords(b))}

(* Splitting also when only the new header would fit. *)
SplitFitTight(b) ==
  LET wide == {e \in free_by_size : e[1] >= Narrow(PayloadWords(b) + 1)}
  IN  {e \in wide : \A f \in wide : e[1] <= f[1]}

(* lower_bound: the smallest block that leaves room for a header and at
   least one word of payload. *)
SplitFit(b) ==
  LET wide == {e \in free_by_size : e[1] >= Narrow(PayloadWords(b) + 2)}
  IN  {e \in wide : \A f \in wide : e[1] <= f[1]}

(* The remainder placed over the last word handed out, and where it is. *)
RemainderOverlapping(e, b) == e[2] + Narrow(PayloadWords(b))
Remainder(e, b) == e[2] + 1 + Narrow(PayloadWords(b))

(* The uncommitted heap tested before the bump instead of after it. *)
OverflowsLate(end) == 8 * Top >= HeapBytes
Overflows(end) == 8 * end >= HeapBytes

(* The three ways dynamic_allocation finds memory, in the order it tries
   them.  Among free blocks of one size std::multimap may return any. *)
AllocateExact(b) ==
  \E e \in ExactFit(b) :
    /\ free_by_addr' = Erase(free_by_addr, {e[2]})
    /\ free_by_size' = free_by_size \ {e}
    /\ next_free_dynamic' = Top
    /\ HandOut(e[2], b)

AllocateSplit(b) ==
  /\ ExactFit(b) = {}
  /\ \E e \in SplitFit(b) :
       LET rest == Remainder(e, b)
           left == e[1] - Narrow(PayloadWords(b)) - 1
       IN  /\ free_by_addr' =
                [x \in (DOMAIN free_by_addr \ {e[2]}) \cup {rest} |->
                   IF x = rest THEN left ELSE free_by_addr[x]]
           /\ free_by_size' = (free_by_size \ {e}) \cup {<<left, rest>>}
           /\ next_free_dynamic' = Top
           /\ HandOut(e[2], b)

AllocateFresh(b) ==
  LET end == Narrow(Top + Narrow(PayloadWords(b) + 1))
  IN  /\ ExactFit(b) = {} /\ SplitFit(b) = {}
      /\ next_free_dynamic' = end
      /\ UNCHANGED freeLists
      /\ IF Overflows(end)
           THEN /\ fault' = "heap overflow"
                /\ UNCHANGED <<header, next_free_static, statistics>>
           ELSE HandOut(Top, b)

Allocate(b) ==
  /\ Running
  /\ AllocateExact(b) \/ AllocateSplit(b) \/ AllocateFresh(b)

-----------------------------------------------------------------------------
(* Coalescing.  Above and Below are the free neighbours of the words
   a .. a+p: the block that starts right after them, found by its address,
   and the nearest free block before a if it ends at a. *)

NoneAbove(a, p) == {}
Above(a, p) == {n \in DOMAIN free_by_addr : n = a + 1 + p}

NoneBelow(a) == {}
Below(a) ==
  {n \in DOMAIN free_by_addr :
     /\ n < a
     /\ \A m \in DOMAIN free_by_addr : m < a => m <= n
     /\ n + 1 + free_by_addr[n] = a}

(* The first and the last word of the free run that a .. a+p becomes part of. *)
Low(a) == IF Below(a) = {} THEN a ELSE CHOOSE n \in Below(a) : TRUE
High(a, p) == IF Above(a, p) = {} THEN a + p
                                  ELSE a + p + 1 + free_by_addr[a + p + 1]

(* The header of the freed block left out of the statistics. *)
PayloadOnly(p) == p
Returned(p) == p + 1

(* The entries of free_by_size that coalescing erases; one is forgotten. *)
ErasedAbove(a, p) == {<<free_by_addr[n], n>> : n \in Above(a, p)}
ErasedSizes(a, p) == {<<free_by_addr[n], n>> : n \in Above(a, p) \cup Below(a)}

(* The block at the top retracts next_free_dynamic, not what it merged with. *)
AtTopAlone(a, p, high) == a + p + 1 = next_free_dynamic /\ Below(a) = {}
AtTop(a, p, high) == high + 1 = next_free_dynamic

Deallocate(a) ==
  LET p == FreedWords(header[a])
      low == Low(a)
      high == High(a, p)
      rest == Erase(free_by_addr, Above(a, p) \cup Below(a))
      restBySize == free_by_size \ ErasedSizes(a, p)
  IN  /\ Running
      /\ a \in DOMAIN header
      /\ header' = Erase(header, {a})
      /\ currently_used_words' = currently_used_words - Returned(p)
      /\ live_objects_count' = IF live_objects_count > 0
                                 THEN live_objects_count - 1 ELSE 0
      /\ IF AtTop(a, p, high)
           THEN /\ next_free_dynamic' = low
                /\ free_by_addr' = rest
                /\ free_by_size' = restBySize
           ELSE /\ free_by_addr' = [x \in DOMAIN rest \cup {low} |->
                                      IF x = low THEN high - low ELSE rest[x]]
                /\ free_by_size' = restBySize \cup {<<high - low, low>>}
                /\ UNCHANGED next_free_dynamic
      /\ UNCHANGED <<next_free_static, peak_used_words, fault>>

(* Static memory grows from address 0 up to the dynamic heap and is never
   given back. *)
AllocateStatic(words) ==
  /\ Running
  /\ next_free_static' = next_free_static + words
  /\ IF next_free_static' >= DynamicStart
       THEN /\ fault' = "static overflow"
            /\ UNCHANGED statistics
       ELSE /\ Use(words)
            /\ UNCHANGED <<live_objects_count, fault>>
  /\ UNCHANGED <<header, freeLists, next_free_dynamic>>

Next ==
  \/ \E b \in Requests : Allocate(b)
  \/ \E a \in DOMAIN header : Deallocate(a)
  \/ \E w \in StaticWords : AllocateStatic(w)

Spec == Init /\ [][Next]_vars

-----------------------------------------------------------------------------
(* Properties. *)

(* The payload of every block the heap knows of, live or free. *)
Blocks == DOMAIN header \cup DOMAIN free_by_addr
Payload(a) == IF a \in DOMAIN header THEN PayloadWords(header[a])
                                     ELSE free_by_addr[a]

(* Every variable has its type: blocks lie at word addresses, free payloads
   and the statistics are natural numbers. *)
TypeOK ==
  /\ DOMAIN header \subseteq Nat
  /\ \A a \in DOMAIN header : header[a] \in Requests
  /\ DOMAIN free_by_addr \subseteq Nat
  /\ \A a \in DOMAIN free_by_addr : free_by_addr[a] \in Nat \ {0}
  /\ free_by_size \subseteq Nat \X Nat
  /\ next_free_static \in Nat
  /\ next_free_dynamic \in Nat
  /\ currently_used_words \in Int
  /\ peak_used_words \in Int
  /\ live_objects_count \in Nat
  /\ fault \in {"none", "heap overflow", "static overflow"}

(* Blocks lie between the static area and the committed top of the heap and
   the top lies inside the vector: what dynamic_allocation hands out can be
   written without leaving Memory::heap. *)
InHeap ==
  /\ DynamicStart <= Top
  /\ \A a \in Blocks : DynamicStart <= a /\ a + Payload(a) < Top
  /\ Running => next_free_static < DynamicStart /\ 8 * Top < HeapBytes

(* No word belongs to two blocks, be they live or free: dynamic_allocation
   never hands out memory a live object still has, whatever was split and
   coalesced before. *)
Disjoint ==
  \A a, b \in Blocks : a < b => a + Payload(a) < b

(* A live block is in no free list, and the two free lists, which
   dynamic_allocation and deallocate update one after the other, describe
   the same blocks. *)
FreeListsAgree ==
  /\ DOMAIN header \cap DOMAIN free_by_addr = {}
  /\ free_by_size = {<<free_by_addr[a], a>> : a \in DOMAIN free_by_addr}

(* Coalescing is complete: two free blocks never touch and none touches the
   top, so that no run of free words is split between free blocks. *)
Coalesced ==
  \A a \in DOMAIN free_by_addr :
    LET after == a + free_by_addr[a] + 1
    IN  after \notin DOMAIN free_by_addr /\ after # Top

(* The heap is well formed: the parts above, together. *)
WellFormed == InHeap /\ Disjoint /\ FreeListsAgree /\ Coalesced

(* Every word of the committed heap belongs to a block. *)
Tiled ==
  \A w \in DynamicStart .. Top - 1 :
    Running => \E a \in Blocks : a <= w /\ w <= a + Payload(a)

(* docs/guide/05_memory_management_and_arc.md says of tuples that destruction
   frees the memory blocks "ensuring zero memory leaks": what is freed is
   available again. *)
FreedIsAvailable ==
  header = << >> /\ Running =>
    \A w \in DynamicStart .. Top - 1 :
      \E a \in DOMAIN free_by_addr : a <= w /\ w <= a + free_by_addr[a]

(* Nothing is lost and the statistics are exact after any sequence of calls:
   every word belongs to a block, those counted are static memory and live
   blocks with their headers, and get_live_object_count() is the number of live
   blocks.  As free blocks are Coalesced, the whole dynamic heap is given back
   when the last object is freed. *)
LiveWords == UNION {a .. a + PayloadWords(header[a]) : a \in DOMAIN header}

Accounting ==
  /\ Tiled
  /\ live_objects_count = Cardinality(DOMAIN header)
  /\ Running => /\ currently_used_words = next_free_static + Cardinality(LiveWords)
                /\ peak_used_words >= currently_used_words

(* The allocator keeps the promise of HeapContract: see there. *)
Contract == INSTANCE HeapContract WITH
  First <- DynamicStart,
  Last <- HeapBytes \div 8 - 1,
  Sizes <- {PayloadWords(b) : b \in Requests},
  live <- [a \in DOMAIN header |-> PayloadWords(header[a])],
  refused <- fault

ImplementsContract == Contract!ContractSpec
=============================================================================
