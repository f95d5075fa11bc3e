------------------------ MODULE HeapAllocatorProofs ------------------------
(***************************************************************************)
(* Proofs about HeapAllocator, for every heap size and every set of        *)
(* requests that the 32-bit address arithmetic can represent: it is type   *)
(* correct and its heap well formed; and without tuples it loses nothing   *)
(* and implements HeapContract.                                            *)
(***************************************************************************)
EXTENDS HeapAllocator, FiniteSetTheorems, TLAPS

(* No request is so large that its size, added to the top of the heap,
   needs more than 32 bits.  Without it the heap is not safe: the sum wraps
   and the request is granted. *)
NoWrap ==
  \A b \in Requests : HeapBytes \div 8 + PayloadWords(b) + 3 <= AddressWords

(* The inductive invariant: none of its conjuncts is inductive alone. *)
IInv == TypeOK /\ InHeap /\ Disjoint /\ FreeListsAgree /\ Coalesced

-----------------------------------------------------------------------------
(* Sizes. *)

LEMMA AlignedFacts ==
  ASSUME NEW x \in Nat, NEW y \in Nat, x <= y
  PROVE  /\ Aligned(x) \in Nat \ {0}
         /\ Aligned(x) <= Aligned(y)
BY DEF Aligned

(* deallocate never computes more words than dynamic_allocation reserved,
   and the same number for everything but tuples. *)
LEMMA SizeFacts ==
  ASSUME NEW b \in Requests
  PROVE  /\ PayloadWords(b) \in Nat \ {0}
         /\ FreedWords(b) \in Nat \ {0}
         /\ FreedWords(b) <= PayloadWords(b)
         /\ b.tag # "TUPLE" => FreedWords(b) = PayloadWords(b)
<1>1. b.count \in Nat /\ b.tag \in Tags
  BY RequestAssumption
<1>2. ElementBytes(b.tag) \in {1, 2, 4, 8}
  BY <1>1 DEF ElementBytes, Tags
<1>3. b.count * ElementBytes(b.tag) \in Nat
  BY <1>1, <1>2
<1>4. CASE b.tag = "TUPLE"
  <2> DEFINE full == 8 * ((b.count * 4 + 7) \div 8) + b.count * 8
  <2>1. full \in Nat /\ b.count <= full
    BY <1>1
  <2>2. ElementBytes(b.tag) = 1
    BY <1>4 DEF ElementBytes
  <2>3. b.count * ElementBytes(b.tag) = b.count
    BY <1>1, <2>2
  <2>4. PayloadWords(b) = Aligned(full) /\ FreedWords(b) = Aligned(b.count)
    BY <1>4, <2>3 DEF PayloadWords, FreedWords
  <2> HIDE DEF full
  <2>5. Aligned(full) \in Nat \ {0}
    BY <2>1, AlignedFacts
  <2>6. Aligned(b.count) \in Nat \ {0} /\ Aligned(b.count) <= Aligned(full)
    BY <1>1, <2>1, AlignedFacts
  <2> QED
    BY <1>4, <2>4, <2>5, <2>6
<1>5. CASE b.tag # "TUPLE"
  <2>1. PayloadWords(b) = FreedWords(b)
    BY <1>5 DEF PayloadWords, FreedWords
  <2>2. FreedWords(b) \in Nat \ {0}
    BY <1>3, AlignedFacts DEF FreedWords
  <2> QED
    BY <2>1, <2>2
<1> QED
  BY <1>4, <1>5

LEMMA NarrowSmall ==
  ASSUME NEW n \in Nat, n < AddressWords
  PROVE  Narrow(n) = n
BY AddressAssumption DEF Narrow

LEMMA StartFacts == DynamicStart \in Nat /\ DynamicStart >= 2
BY HeapAssumption DEF DynamicStart

-----------------------------------------------------------------------------
LEMMA UseTypes ==
  ASSUME TypeOK, NEW w \in Int, Use(w)
  PROVE  currently_used_words' \in Int /\ peak_used_words' \in Int
<1>1. currently_used_words \in Int /\ peak_used_words \in Int
  BY DEF TypeOK
<1>2. currently_used_words' = currently_used_words + w
  BY DEF Use
<1>3. peak_used_words' = currently_used_words' \/ peak_used_words' = peak_used_words
  BY DEF Use
<1> QED
  BY <1>1, <1>2, <1>3

(* Allocation.  Each of the three ways keeps the invariant. *)

LEMMA ExactKeeps ==
  ASSUME IInv, NoWrap, Running, NEW b \in Requests, AllocateExact(b)
  PROVE  IInv'
<1> DEFINE p == PayloadWords(b)
<1>1. PICK e \in ExactFit(b) :
        /\ free_by_addr' = Erase(free_by_addr, {e[2]})
        /\ free_by_size' = free_by_size \ {e}
        /\ next_free_dynamic' = Top
        /\ HandOut(e[2], b)
  BY DEF AllocateExact
<1>2. p \in Nat \ {0} /\ Narrow(p) = p
  BY SizeFacts, NarrowSmall, AddressAssumption, HeapAssumption DEF NoWrap
<1>3. PICK n \in DOMAIN free_by_addr : e = <<free_by_addr[n], n>>
  BY <1>1 DEF ExactFit, IInv, FreeListsAgree
<1>4. free_by_addr[n] = p /\ e[2] = n
  BY <1>1, <1>2, <1>3 DEF ExactFit
<1> HIDE DEF p
<1>5. /\ DOMAIN free_by_addr' = DOMAIN free_by_addr \ {n}
      /\ \A x \in DOMAIN free_by_addr' : free_by_addr'[x] = free_by_addr[x]
  BY <1>1, <1>4 DEF Erase, Restrict
<1>6. /\ DOMAIN header' = DOMAIN header \cup {n}
      /\ header'[n] = b
      /\ \A x \in DOMAIN header : x # n => header'[x] = header[x]
  BY <1>1, <1>4 DEF HandOut
<1>7. Blocks' = Blocks /\ \A x \in Blocks : Payload(x)' = Payload(x)
  <2>1. Blocks' = Blocks
    BY <1>5, <1>6 DEF Blocks
  <2>2. n \notin DOMAIN header
    BY DEF IInv, FreeListsAgree
  <2>3. Payload(n)' = Payload(n)
    BY <1>4, <1>6, <2>2 DEF Payload, p
  <2>4. ASSUME NEW x \in Blocks, x # n PROVE Payload(x)' = Payload(x)
    BY <1>5, <1>6, <2>4 DEF Payload, Blocks
  <2> QED
    BY <2>1, <2>3, <2>4
<1>8. Top' = Top
  BY <1>1, StartFacts DEF Top, IInv, InHeap
<1>9. TypeOK'
  <2>1. DynamicStart \in Nat
    BY StartFacts
  <2>2. currently_used_words' \in Int /\ peak_used_words' \in Int
    BY <1>1, SizeFacts, UseTypes DEF HandOut, IInv
  <2>3. next_free_dynamic' \in Nat
    BY <1>1, <2>1 DEF IInv, TypeOK, Top
  <2>4. DOMAIN header' \subseteq Nat /\ \A x \in DOMAIN header' : header'[x] \in Requests
    BY <1>6 DEF IInv, TypeOK
  <2>5. /\ DOMAIN free_by_addr' \subseteq Nat
        /\ \A x \in DOMAIN free_by_addr' : free_by_addr'[x] \in Nat \ {0}
        /\ free_by_size' \subseteq Nat \X Nat
    BY <1>1, <1>5 DEF IInv, TypeOK
  <2>6. next_free_static' \in Nat /\ live_objects_count' \in Nat /\ fault' = fault
    <3>1. next_free_static \in Nat /\ live_objects_count \in Nat
      BY DEF IInv, TypeOK
    <3>2. /\ live_objects_count' = live_objects_count + 1
          /\ next_free_static' = next_free_static /\ fault' = fault
      BY <1>1 DEF HandOut
    <3> QED
      BY <3>1, <3>2
  <2> QED
    BY <2>2, <2>3, <2>4, <2>5, <2>6 DEF IInv, TypeOK
<1>10. InHeap'
  BY <1>1, <1>7, <1>8 DEF IInv, InHeap, HandOut, Running
<1>11. Disjoint'
  BY <1>7 DEF IInv, Disjoint
<1>12. FreeListsAgree'
  <2>1. DOMAIN header' \cap DOMAIN free_by_addr' = {}
    BY <1>5, <1>6 DEF IInv, FreeListsAgree
  <2>2. free_by_size' = {<<free_by_addr'[x], x>> : x \in DOMAIN free_by_addr'}
    BY <1>1, <1>3, <1>5 DEF IInv, FreeListsAgree
  <2> QED
    BY <2>1, <2>2 DEF FreeListsAgree
<1>13. Coalesced'
  BY <1>5, <1>8 DEF IInv, Coalesced
<1> QED
  BY <1>9, <1>10, <1>11, <1>12, <1>13 DEF IInv

LEMMA SplitKeeps ==
  ASSUME IInv, NoWrap, Running, NEW b \in Requests, AllocateSplit(b)
  PROVE  IInv'
<1> DEFINE p == PayloadWords(b)
<1>1. p \in Nat \ {0} /\ Narrow(p) = p /\ Narrow(p + 2) = p + 2
  <2>1. HeapBytes \div 8 \in Nat
    BY HeapAssumption
  <2> QED
    BY <2>1, SizeFacts, NarrowSmall, AddressAssumption DEF NoWrap
<1> DEFINE rest(e) == e[2] + 1 + p
           left(e) == e[1] - p - 1
<1>2. PICK e \in SplitFit(b) :
        /\ free_by_addr' =
             [x \in (DOMAIN free_by_addr \ {e[2]}) \cup {rest(e)} |->
                IF x = rest(e) THEN left(e) ELSE free_by_addr[x]]
        /\ free_by_size' = (free_by_size \ {e}) \cup {<<left(e), rest(e)>>}
        /\ next_free_dynamic' = Top
        /\ HandOut(e[2], b)
  BY <1>1 DEF AllocateSplit, Remainder
<1>3. PICK n \in DOMAIN free_by_addr : e = <<free_by_addr[n], n>>
  BY <1>2 DEF SplitFit, IInv, FreeListsAgree
<1>4. e[1] = free_by_addr[n] /\ e[2] = n
  BY <1>3
<1>5. free_by_addr[n] >= p + 2
  BY <1>1, <1>2, <1>4 DEF SplitFit
<1> DEFINE r == n + 1 + p
           l == free_by_addr[n] - p - 1
<1>6. n \in Nat /\ free_by_addr[n] \in Nat \ {0}
  BY DEF IInv, TypeOK
<1>7. r \in Nat /\ l \in Nat \ {0} /\ n < r /\ r + l = n + free_by_addr[n]
  BY <1>1, <1>5, <1>6
<1>8. n \in Blocks /\ n \notin DOMAIN header /\ Payload(n) = free_by_addr[n]
  BY DEF IInv, FreeListsAgree, Blocks, Payload
<1>9. /\ \A x \in Blocks : x \in Nat /\ Payload(x) \in Nat
      /\ r \notin Blocks
  <2>1. \A x \in Blocks : x \in Nat /\ Payload(x) \in Nat
    BY SizeFacts DEF IInv, TypeOK, Blocks, Payload
  <2>2. ASSUME r \in Blocks PROVE FALSE
    BY <1>6, <1>7, <1>8, <2>2 DEF IInv, Disjoint
  <2> QED
    BY <2>1, <2>2
<1>10. /\ free_by_addr' = [x \in (DOMAIN free_by_addr \ {n}) \cup {r} |->
                            IF x = r THEN l ELSE free_by_addr[x]]
       /\ free_by_size' = (free_by_size \ {e}) \cup {<<l, r>>}
       /\ next_free_dynamic' = Top
       /\ HandOut(n, b)
  BY <1>2, <1>4
<1> HIDE DEF r, l, p
<1>11. /\ DOMAIN header' = DOMAIN header \cup {n}
       /\ header'[n] = b
       /\ \A x \in DOMAIN header : x # n => header'[x] = header[x]
  BY <1>10 DEF HandOut
<1>12. /\ DOMAIN free_by_addr' = (DOMAIN free_by_addr \ {n}) \cup {r}
       /\ free_by_addr'[r] = l
       /\ \A x \in DOMAIN free_by_addr \ {n} : x # r /\ free_by_addr'[x] = free_by_addr[x]
  BY <1>9, <1>10 DEF Blocks
<1>13. /\ Blocks' = Blocks \cup {r}
       /\ Payload(n)' = p
       /\ Payload(r)' = l
       /\ \A x \in Blocks \ {n} : Payload(x)' = Payload(x)
  <2>1. Blocks' = Blocks \cup {r}
    BY <1>11, <1>12 DEF Blocks
  <2>2. Payload(n)' = p
    BY <1>11 DEF Payload, p
  <2>3. r \notin DOMAIN header'
    BY <1>7, <1>9, <1>11 DEF Blocks, r
  <2>4. Payload(r)' = l
    BY <1>12, <2>3 DEF Payload
  <2>5. ASSUME NEW x \in Blocks \ {n} PROVE Payload(x)' = Payload(x)
    BY <1>11, <1>12 DEF Payload, Blocks
  <2> QED
    BY <2>1, <2>2, <2>4, <2>5
<1>14. Top' = Top /\ Top \in Nat
  BY <1>10, StartFacts DEF Top, IInv, InHeap, TypeOK
<1>15. TypeOK'
  <2>1. DOMAIN free_by_addr' \subseteq Nat
    BY <1>7, <1>12 DEF IInv, TypeOK
  <2>2. \A x \in DOMAIN free_by_addr' : free_by_addr'[x] \in Nat \ {0}
    BY <1>7, <1>12 DEF IInv, TypeOK
  <2>3. free_by_size' \subseteq Nat \X Nat
    <3>1. <<l, r>> \in Nat \X Nat
      BY <1>7
    <3> QED
      BY <1>10, <3>1 DEF IInv, TypeOK
  <2>4. DOMAIN header' \subseteq Nat /\ \A x \in DOMAIN header' : header'[x] \in Requests
    BY <1>6, <1>11 DEF IInv, TypeOK
  <2>5. next_free_dynamic' \in Nat
    BY <1>10, <1>14
  <2>6. currently_used_words' \in Int /\ peak_used_words' \in Int
    BY <1>10, SizeFacts, UseTypes DEF HandOut, IInv
  <2>7. next_free_static' \in Nat /\ live_objects_count' \in Nat /\ fault' = fault
    <3>1. next_free_static \in Nat /\ live_objects_count \in Nat
      BY DEF IInv, TypeOK
    <3>2. /\ live_objects_count' = live_objects_count + 1
          /\ next_free_static' = next_free_static /\ fault' = fault
      BY <1>10 DEF HandOut
    <3> QED
      BY <3>1, <3>2
  <2> QED
    BY <2>1, <2>2, <2>3, <2>4, <2>5, <2>6, <2>7 DEF IInv, TypeOK
<1>16. InHeap'
  <2>1. ASSUME NEW x \in Blocks' PROVE DynamicStart <= x /\ x + Payload(x)' < Top
    BY <1>1, <1>5, <1>6, <1>7, <1>8, <1>9, <1>13, <1>14, StartFacts DEF IInv, InHeap, p
  <2> QED
    BY <1>10, <1>14, <2>1 DEF IInv, InHeap, HandOut, Running
<1>17. Disjoint'
  <2>1. \A x \in Blocks \ {n} : \/ x + Payload(x) < n
                               \/ n + free_by_addr[n] < x
    BY <1>6, <1>8, <1>9 DEF IInv, Disjoint
  <2>2. n + p < r /\ r + l = n + free_by_addr[n] /\ n < r /\ p \in Nat /\ l \in Nat
    BY <1>1, <1>6, <1>7 DEF r, p
  <2>3. ASSUME NEW x \in Blocks', NEW y \in Blocks', x < y
        PROVE  x + Payload(x)' < y
    <3>1. CASE x = n \/ x = r \/ y = n \/ y = r
      BY <1>1, <1>6, <1>7, <1>9, <1>13, <2>1, <2>2, <2>3, <3>1
    <3>2. CASE x # n /\ x # r /\ y # n /\ y # r
      BY <1>13, <2>3, <3>2 DEF IInv, Disjoint
    <3> QED
      BY <3>1, <3>2
  <2> QED
    BY <2>3 DEF Disjoint
<1>18. FreeListsAgree'
  <2>1. DOMAIN header' \cap DOMAIN free_by_addr' = {}
    BY <1>7, <1>9, <1>11, <1>12 DEF IInv, FreeListsAgree, Blocks, r
  <2>2. free_by_size' = {<<free_by_addr'[x], x>> : x \in DOMAIN free_by_addr'}
    <3>1. free_by_size \ {e} = {<<free_by_addr[x], x>> : x \in DOMAIN free_by_addr \ {n}}
      BY <1>3 DEF IInv, FreeListsAgree
    <3> QED
      BY <1>10, <1>12, <3>1
  <2> QED
    BY <2>1, <2>2 DEF FreeListsAgree
<1>19. Coalesced'
  <2>1. ASSUME NEW x \in DOMAIN free_by_addr'
        PROVE  x + free_by_addr'[x] + 1 \notin DOMAIN free_by_addr' /\ x + free_by_addr'[x] + 1 # Top
    <3>1. CASE x = r
      <4>1. r + free_by_addr'[r] + 1 = n + free_by_addr[n] + 1
        BY <1>6, <1>7, <1>12
      <4>2. r + free_by_addr'[r] + 1 # r
        BY <1>7, <1>12
      <4> QED
        BY <1>12, <3>1, <4>1, <4>2 DEF IInv, Coalesced
    <3>2. CASE x # r
      <4>1. x \in DOMAIN free_by_addr \ {n} /\ free_by_addr'[x] = free_by_addr[x]
        BY <1>12, <3>2
      <4>2. x \in Blocks /\ Payload(x) = free_by_addr[x]
        BY <4>1 DEF Blocks, Payload, IInv, FreeListsAgree
      <4>3. x + free_by_addr[x] + 1 # r
        BY <1>1, <1>5, <1>6, <1>8, <1>9, <4>1, <4>2 DEF IInv, Disjoint, r, p
      <4> QED
        BY <1>12, <4>1, <4>3 DEF IInv, Coalesced
    <3> QED
      BY <3>1, <3>2
  <2> QED
    BY <1>14, <2>1 DEF Coalesced
<1> QED
  BY <1>15, <1>16, <1>17, <1>18, <1>19 DEF IInv

LEMMA BlockTypes ==
  ASSUME IInv
  PROVE  /\ \A x \in Blocks : x \in Nat /\ Payload(x) \in Nat \ {0}
         /\ Top \in Nat
         /\ \A x \in DOMAIN free_by_addr :
              x \in Blocks /\ x \notin DOMAIN header /\ Payload(x) = free_by_addr[x]
         /\ \A x \in DOMAIN header : x \in Blocks /\ Payload(x) = PayloadWords(header[x])
<1>1. \A x \in DOMAIN free_by_addr :
        x \in Blocks /\ x \notin DOMAIN header /\ Payload(x) = free_by_addr[x]
  BY DEF IInv, FreeListsAgree, Blocks, Payload
<1>2. \A x \in DOMAIN header : x \in Blocks /\ Payload(x) = PayloadWords(header[x])
  BY DEF Blocks, Payload
<1>3. \A x \in DOMAIN header : x \in Nat /\ PayloadWords(header[x]) \in Nat \ {0}
  BY SizeFacts DEF IInv, TypeOK
<1>4. \A x \in DOMAIN free_by_addr : x \in Nat /\ free_by_addr[x] \in Nat \ {0}
  BY DEF IInv, TypeOK
<1>5. Top \in Nat
  BY StartFacts DEF IInv, TypeOK, Top
<1> QED
  BY <1>1, <1>2, <1>3, <1>4, <1>5 DEF Blocks

LEMMA FreshKeeps ==
  ASSUME IInv, NoWrap, Running, NEW b \in Requests, AllocateFresh(b)
  PROVE  IInv'
<1> DEFINE p == PayloadWords(b)
           end == Top + p + 1
<1>1. p \in Nat \ {0} /\ Top \in Nat /\ DynamicStart \in Nat /\ DynamicStart >= 2
  BY SizeFacts, BlockTypes, StartFacts
<1>2. Narrow(Top + Narrow(p + 1)) = end
  <2>1. HeapBytes \div 8 + p + 3 <= AddressWords
    BY DEF NoWrap
  <2>2. 8 * Top < HeapBytes
    BY DEF IInv, InHeap
  <2>3. Top <= HeapBytes \div 8 /\ HeapBytes \div 8 \in Nat
    BY <1>1, <2>2, HeapAssumption
  <2>4. p + 1 \in Nat /\ p + 1 < AddressWords /\ end \in Nat /\ end < AddressWords
    BY <1>1, <2>1, <2>3, AddressAssumption
  <2> HIDE DEF p
  <2>5. Narrow(p + 1) = p + 1 /\ Narrow(end) = end
    BY <2>4, NarrowSmall
  <2> QED
    BY <1>1, <2>5
<1>3. next_free_dynamic' = end /\ UNCHANGED freeLists
  BY <1>2 DEF AllocateFresh
<1>4. Top' = end
  BY <1>1, <1>3, StartFacts DEF Top, IInv, InHeap
<1>5. /\ free_by_addr' = free_by_addr /\ free_by_size' = free_by_size
      /\ next_free_static' = next_free_static
      /\ \/ /\ 8 * end >= HeapBytes
            /\ fault' = "heap overflow"
            /\ UNCHANGED <<header, statistics>>
         \/ /\ 8 * end < HeapBytes
            /\ HandOut(Top, b)
  <2>1. 8 * end \in Nat
    BY <1>1
  <2> HIDE DEF end, p
  <2>2. /\ free_by_addr' = free_by_addr /\ free_by_size' = free_by_size
        /\ IF Overflows(end)
             THEN /\ fault' = "heap overflow"
                  /\ UNCHANGED <<header, next_free_static, statistics>>
             ELSE HandOut(Top, b)
    BY <1>2, Zenon DEF AllocateFresh, freeLists, p
  <2>3. CASE Overflows(end)
    <3>1. 8 * end >= HeapBytes
      BY <2>3 DEF Overflows
    <3> QED
      BY <2>2, <2>3, <3>1
  <2>4. CASE ~Overflows(end)
    <3>1. 8 * end < HeapBytes
      BY <2>1, <2>4, HeapAssumption DEF Overflows
    <3>2. HandOut(Top, b)
      BY <2>2, <2>4
    <3>3. next_free_static' = next_free_static
      BY <3>2 DEF HandOut
    <3> QED
      BY <2>2, <3>1, <3>2, <3>3
  <2> QED
    BY <2>3, <2>4
<1> HIDE DEF end, p
<1>6. CASE /\ fault' = "heap overflow"
           /\ UNCHANGED <<header, statistics>>
  <2>1. TypeOK'
    <3>1. next_free_dynamic' \in Nat
      BY <1>1, <1>3 DEF end
    <3> QED
      BY <1>5, <1>6, <3>1 DEF IInv, TypeOK, statistics
  <2>2. Blocks' = Blocks /\ \A x \in Blocks : Payload(x)' = Payload(x)
    BY <1>5, <1>6 DEF Blocks, Payload
  <2>3. InHeap'
    <3>1. Top < end
      BY <1>1 DEF end
    <3>2. end \in Nat
      BY <1>1 DEF end
    <3>3. ASSUME NEW x \in Blocks' PROVE DynamicStart <= x /\ x + Payload(x)' < end
      BY <1>1, <2>2, <3>1, <3>2, BlockTypes DEF IInv, InHeap
    <3>4. DynamicStart <= end
      BY <1>1, <3>1, <3>2 DEF IInv, InHeap
    <3> QED
      BY <1>4, <1>6, <3>3, <3>4 DEF InHeap, Running
  <2>4. Disjoint'
    BY <2>2 DEF IInv, Disjoint
  <2>5. FreeListsAgree'
    BY <1>5, <1>6 DEF IInv, FreeListsAgree
  <2>6. Coalesced'
    <3>1. ASSUME NEW x \in DOMAIN free_by_addr PROVE x + free_by_addr[x] + 1 # end
      BY <1>1, BlockTypes DEF IInv, InHeap, end
    <3> QED
      BY <1>4, <1>5, <3>1 DEF IInv, Coalesced
  <2> QED
    BY <2>1, <2>3, <2>4, <2>5, <2>6 DEF IInv
<1>7. CASE 8 * end < HeapBytes /\ HandOut(Top, b)
  <2>1. /\ DOMAIN header' = DOMAIN header \cup {Top}
        /\ header'[Top] = b
        /\ \A x \in DOMAIN header : x # Top => header'[x] = header[x]
    BY <1>7 DEF HandOut
  <2>2. \A x \in Blocks : x \in Nat /\ Payload(x) \in Nat /\ x + Payload(x) < Top /\ x < Top
    BY <1>1, BlockTypes DEF IInv, InHeap
  <2>3. Top \notin Blocks
    BY <1>1, <2>2
  <2>t. PICK t \in Nat : t = Top
    BY <1>1
  <2>a. t \in Nat /\ t \notin Blocks /\ end = t + p + 1
    BY <1>1, <2>3, <2>t DEF end
  <2>b. /\ DOMAIN header' = DOMAIN header \cup {t}
        /\ header'[t] = b
        /\ \A x \in DOMAIN header : x # t => header'[x] = header[x]
    BY <2>1, <2>t
  <2>c. \A x \in Blocks : x \in Nat /\ Payload(x) \in Nat /\ x + Payload(x) < t /\ x < t
    BY <2>2, <2>t
  <2>4. /\ Blocks' = Blocks \cup {t}
        /\ Payload(t)' = p
        /\ \A x \in Blocks : Payload(x)' = Payload(x)
    <3>1. Blocks' = Blocks \cup {t}
      BY <1>5, <2>b DEF Blocks
    <3>2. Payload(t)' = p
      BY <2>b DEF Payload, p
    <3>3. ASSUME NEW x \in Blocks PROVE Payload(x)' = Payload(x)
      BY <1>5, <2>a, <2>b DEF Blocks, Payload
    <3> QED
      BY <3>1, <3>2, <3>3
  <2>5. TypeOK'
    <3>1. next_free_dynamic' \in Nat
      BY <1>1, <1>3 DEF end
    <3>2. currently_used_words' \in Int /\ peak_used_words' \in Int
      BY <1>7, SizeFacts, UseTypes DEF HandOut, IInv
    <3>3. live_objects_count \in Nat /\ next_free_static \in Nat
      BY DEF IInv, TypeOK
    <3>4. live_objects_count' = live_objects_count + 1 /\ fault' = fault
      BY <1>7 DEF HandOut
    <3>a. next_free_static' = next_free_static
      BY <1>5
    <3>5. live_objects_count' \in Nat /\ next_free_static' \in Nat
      BY <3>3, <3>4, <3>a
    <3>6. DOMAIN header' \subseteq Nat /\ \A x \in DOMAIN header' : header'[x] \in Requests
      BY <1>1, <2>1 DEF IInv, TypeOK
    <3> QED
      BY <1>5, <3>1, <3>2, <3>4, <3>5, <3>6 DEF IInv, TypeOK
  <2>6. InHeap'
    <3>1. ASSUME NEW x \in Blocks' PROVE DynamicStart <= x /\ x + Payload(x)' < end
      <4>a. DynamicStart <= t
        BY <2>t DEF IInv, InHeap
      <4>1. CASE x = t
        BY <1>1, <2>a, <2>4, <4>1, <4>a
      <4>2. CASE x # t
        <5>1. x \in Blocks /\ Payload(x)' = Payload(x)
          BY <2>4, <4>2
        <5>2. DynamicStart <= x
          BY <5>1 DEF IInv, InHeap
        <5> QED
          BY <1>1, <2>a, <2>c, <5>1, <5>2
      <4> QED
        BY <4>1, <4>2
    <3>2. DynamicStart <= end
      BY <1>1 DEF IInv, InHeap, end
    <3> QED
      BY <1>4, <1>5, <1>7, <3>1, <3>2 DEF IInv, InHeap, HandOut, Running
  <2>7. Disjoint'
    <3>1. ASSUME NEW x \in Blocks', NEW y \in Blocks', x < y
          PROVE  x + Payload(x)' < y
      <4>1. CASE x = t
        BY <2>a, <2>c, <2>4, <3>1, <4>1
      <4>2. CASE x # t /\ y = t
        BY <2>c, <2>4, <4>2
      <4>3. CASE x # t /\ y # t
        BY <2>4, <3>1, <4>3 DEF IInv, Disjoint
      <4> QED
        BY <4>1, <4>2, <4>3
    <3> QED
      BY <3>1 DEF Disjoint
  <2>8. FreeListsAgree'
    <3>1. DOMAIN header' \cap DOMAIN free_by_addr = {}
      BY <2>1, <2>3 DEF IInv, FreeListsAgree, Blocks
    <3> QED
      BY <1>5, <3>1 DEF IInv, FreeListsAgree
  <2>9. Coalesced'
    <3>1. ASSUME NEW x \in DOMAIN free_by_addr PROVE x + free_by_addr[x] + 1 # end
      BY <1>1, BlockTypes DEF IInv, InHeap, end
    <3> QED
      BY <1>4, <1>5, <3>1 DEF IInv, Coalesced
  <2> QED
    BY <2>5, <2>6, <2>7, <2>8, <2>9 DEF IInv
<1> QED
  BY <1>5, <1>6, <1>7

LEMMA StaticKeeps ==
  ASSUME IInv, NEW w \in StaticWords, AllocateStatic(w)
  PROVE  IInv'
<1>0. w \in Nat /\ next_free_static \in Nat
  <2>1. w \in Nat
    BY StaticAssumption
  <2>2. next_free_static \in Nat
    BY DEF IInv, TypeOK
  <2> QED
    BY <2>1, <2>2
<1>1. /\ header' = header /\ free_by_addr' = free_by_addr
      /\ free_by_size' = free_by_size /\ next_free_dynamic' = next_free_dynamic
      /\ next_free_static' = next_free_static + w
  BY DEF AllocateStatic, freeLists
<1>2. \/ fault' = "static overflow" /\ UNCHANGED statistics
      \/ /\ next_free_static' < DynamicStart
         /\ Use(w) /\ UNCHANGED <<live_objects_count, fault>>
  <2>1. next_free_static' \in Nat
    BY <1>0, <1>1
  <2>2. CASE next_free_static' >= DynamicStart
    BY <2>2 DEF AllocateStatic
  <2>3. CASE ~(next_free_static' >= DynamicStart)
    <3>1. next_free_static' < DynamicStart
      BY <2>1, <2>3, StartFacts
    <3>2. Use(w) /\ UNCHANGED <<live_objects_count, fault>>
      BY <2>3 DEF AllocateStatic
    <3> QED
      BY <3>1, <3>2
  <2> QED
    BY <2>2, <2>3
<1>3. TypeOK'
  <2>1. next_free_static' \in Nat
    BY <1>0, <1>1
  <2>2. currently_used_words' \in Int /\ peak_used_words' \in Int
    <3>1. CASE UNCHANGED statistics
      BY <3>1 DEF IInv, TypeOK, statistics
    <3>2. CASE Use(w)
      BY <1>0, <3>2, UseTypes DEF IInv
    <3> QED
      BY <1>2, <3>1, <3>2
  <2>3. live_objects_count' = live_objects_count
    BY <1>2 DEF statistics
  <2>4. fault' \in {"none", "heap overflow", "static overflow"}
    BY <1>2 DEF IInv, TypeOK
  <2> QED
    BY <1>1, <2>1, <2>2, <2>3, <2>4 DEF IInv, TypeOK
<1>4. Top' = Top /\ Blocks' = Blocks /\ \A x \in Blocks : Payload(x)' = Payload(x)
  BY <1>1 DEF Top, Blocks, Payload
<1>5. InHeap'
  BY <1>2, <1>4 DEF IInv, InHeap, Running
<1>6. Disjoint' /\ FreeListsAgree' /\ Coalesced'
  BY <1>1, <1>4 DEF IInv, Disjoint, FreeListsAgree, Coalesced
<1> QED
  BY <1>3, <1>5, <1>6 DEF IInv

-----------------------------------------------------------------------------
(* Deallocation: the run of words low .. high that the freed block and its
   free neighbours make up. *)

Rest(a, p) == DOMAIN free_by_addr \ (Above(a, p) \cup Below(a))

LEMMA FreedBlock ==
  ASSUME IInv, NEW a \in DOMAIN header
  PROVE  /\ a \in Nat /\ a \in Blocks /\ a \notin DOMAIN free_by_addr
         /\ FreedWords(header[a]) \in Nat \ {0}
         /\ FreedWords(header[a]) <= Payload(a)
         /\ next_free_dynamic = Top
<1>1. a \in Blocks /\ Payload(a) = PayloadWords(header[a]) /\ a \in Nat
  BY BlockTypes
<1>2. header[a] \in Requests
  BY DEF IInv, TypeOK
<1>3. next_free_dynamic = Top
  <2>1. DynamicStart <= a /\ a + Payload(a) < Top
    BY <1>1 DEF IInv, InHeap
  <2>2. Top # DynamicStart
    BY <1>1, <2>1, BlockTypes, StartFacts
  <2> QED
    BY <2>2 DEF Top
<1>4. a \notin DOMAIN free_by_addr
  BY BlockTypes
<1> QED
  BY <1>1, <1>2, <1>3, <1>4, SizeFacts

(* A free block that ends right before a is the one Below finds. *)
LEMMA BelowFacts ==
  ASSUME IInv, NEW a \in DOMAIN header
  PROVE  /\ \A x \in DOMAIN free_by_addr : x + free_by_addr[x] + 1 = a => x \in Below(a)
         /\ \/ Below(a) = {} /\ Low(a) = a
            \/ /\ Below(a) = {Low(a)} /\ Low(a) \in DOMAIN free_by_addr
               /\ Low(a) + free_by_addr[Low(a)] + 1 = a
<1>1. ASSUME NEW x \in DOMAIN free_by_addr, x + free_by_addr[x] + 1 = a
      PROVE  x \in Below(a)
  <2>1. a \in Nat /\ x \in Nat /\ free_by_addr[x] \in Nat /\ x \in Blocks
        /\ Payload(x) = free_by_addr[x]
    BY FreedBlock, BlockTypes
  <2>2. ASSUME NEW m \in DOMAIN free_by_addr, m < a PROVE m <= x
    <3>1. m \in Nat /\ m \in Blocks
      BY BlockTypes
    <3>2. x < m => x + free_by_addr[x] < m
      BY <2>1, <3>1 DEF IInv, Disjoint
    <3> QED
      BY <1>1, <2>1, <2>2, <3>1, <3>2
  <2>3. x < a /\ x + 1 + free_by_addr[x] = a
    BY <1>1, <2>1
  <2> QED
    BY <2>2, <2>3 DEF Below
<1>2. CASE Below(a) = {}
  BY <1>1, <1>2 DEF Low
<1>3. CASE Below(a) # {}
  <2>1. Low(a) \in Below(a)
    BY <1>3 DEF Low
  <2>2. PICK low \in Below(a) : low = Low(a)
    BY <2>1
  <2>3. /\ low \in DOMAIN free_by_addr /\ low < a
        /\ low + 1 + free_by_addr[low] = a
        /\ \A m \in DOMAIN free_by_addr : m < a => m <= low
    BY DEF Below
  <2>4. low \in Nat /\ free_by_addr[low] \in Nat
    BY <2>3, BlockTypes
  <2>5. ASSUME NEW m \in Below(a) PROVE m = low
    <3>1. m \in DOMAIN free_by_addr /\ m < a /\ low <= m
      BY <2>3 DEF Below
    <3>2. m <= low /\ m \in Nat
      BY <2>3, <3>1, BlockTypes
    <3> QED
      BY <2>4, <3>1, <3>2
  <2>6. low + free_by_addr[low] + 1 = a
    BY <2>3, <2>4
  <2>7. Below(a) = {low}
    BY <2>5
  <2> QED
    BY <1>1, <2>2, <2>3, <2>6, <2>7
<1> QED
  BY <1>2, <1>3

LEMMA AboveFacts ==
  ASSUME IInv, NEW a \in DOMAIN header, NEW p, p = FreedWords(header[a])
  PROVE  \/ /\ Above(a, p) = {} /\ High(a, p) = a + p
            /\ a + p + 1 \notin DOMAIN free_by_addr
         \/ /\ Above(a, p) = {a + p + 1} /\ a + p + 1 \in DOMAIN free_by_addr
            /\ High(a, p) = a + p + 1 + free_by_addr[a + p + 1]
<1>1. a \in Nat /\ p \in Nat
  BY FreedBlock
<1>2. PICK n \in Nat : n = a + 1 + p /\ n = a + p + 1
  BY <1>1
<1>3. CASE n \in DOMAIN free_by_addr
  <2>1. Above(a, p) = {n}
    BY <1>2, <1>3 DEF Above
  <2> QED
    BY <1>2, <1>3, <2>1 DEF High
<1>4. CASE n \notin DOMAIN free_by_addr
  <2>1. Above(a, p) = {}
    BY <1>2, <1>4 DEF Above
  <2> QED
    BY <1>2, <1>4, <2>1 DEF High
<1> QED
  BY <1>3, <1>4

(* The blocks that neither is the freed one nor merge with it. *)
Others(a, p) == (DOMAIN header \ {a}) \cup Rest(a, p)

LEMMA FreedRun ==
  ASSUME IInv, NEW a \in DOMAIN header, NEW p, p = FreedWords(header[a]),
         NEW low, low = Low(a), NEW high, high = High(a, p)
  PROVE  /\ low \in Nat /\ high \in Nat /\ low < high
         /\ DynamicStart <= low /\ high < Top
         /\ \A x \in Others(a, p) :
              x \in Blocks /\ (x + Payload(x) < low \/ high < x)
         /\ low \notin Others(a, p)
         /\ \A x \in Rest(a, p) : x + free_by_addr[x] + 1 # low
         /\ high + 1 \notin Rest(a, p)
<1>1. /\ a \in Nat /\ a \in Blocks /\ a \notin DOMAIN free_by_addr
      /\ p \in Nat \ {0} /\ p <= Payload(a) /\ Payload(a) \in Nat
      /\ DynamicStart <= a /\ a + Payload(a) < Top
  BY FreedBlock, BlockTypes DEF IInv, InHeap
<1>2. \/ Below(a) = {} /\ low = a
      \/ /\ Below(a) = {low} /\ low \in DOMAIN free_by_addr
         /\ low + free_by_addr[low] + 1 = a
  BY BelowFacts
<1>3. PICK n \in Nat : n = a + p + 1
  BY <1>1
<1>4. \/ Above(a, p) = {} /\ high = a + p /\ n \notin DOMAIN free_by_addr
      \/ Above(a, p) = {n} /\ n \in DOMAIN free_by_addr /\ high = n + free_by_addr[n]
  BY <1>3, AboveFacts
<1>5. \A x \in DOMAIN free_by_addr :
        /\ x \in Nat /\ free_by_addr[x] \in Nat \ {0} /\ x \in Blocks
        /\ Payload(x) = free_by_addr[x]
        /\ DynamicStart <= x /\ x + free_by_addr[x] < Top
  BY BlockTypes DEF IInv, InHeap
<1>6. low \in Nat /\ low <= a /\ DynamicStart <= low
  BY <1>1, <1>2, <1>5, StartFacts
<1>7. high \in Nat /\ a + p <= high /\ high < Top
  BY <1>1, <1>3, <1>4, <1>5, BlockTypes
<1>8. low < high
  BY <1>1, <1>6, <1>7
<1>9. ASSUME NEW x \in Others(a, p)
      PROVE  x \in Blocks /\ (x + Payload(x) < low \/ high < x)
  <2>1. x \in Blocks /\ x # a
    BY <1>1 DEF Others, Rest, Blocks
  <2>2. x \in Nat /\ Payload(x) \in Nat
    BY <2>1, BlockTypes
  <2>3. Below(a) = {low} => x # low
    <3>1. ASSUME Below(a) = {low}, x = low PROVE FALSE
      <4>1. low \in DOMAIN free_by_addr
        BY <3>1 DEF Below
      <4>2. low \notin DOMAIN header
        BY <4>1, BlockTypes
      <4> QED
        BY <3>1, <4>2 DEF Others, Rest
    <3> QED
      BY <3>1
  <2>4. Above(a, p) = {n} => x # n
    <3>1. ASSUME Above(a, p) = {n}, x = n PROVE FALSE
      <4>1. n \in DOMAIN free_by_addr
        BY <3>1 DEF Above
      <4>2. n \notin DOMAIN header
        BY <4>1, BlockTypes
      <4> QED
        BY <3>1, <4>2 DEF Others, Rest
    <3> QED
      BY <3>1
  <2>5. x + Payload(x) < a \/ a + Payload(a) < x
    BY <1>1, <2>1, <2>2 DEF IInv, Disjoint
  <2>6. CASE x + Payload(x) < a
    <3>1. CASE low = a
      BY <2>1, <2>6, <3>1
    <3>2. CASE /\ Below(a) = {low} /\ low \in DOMAIN free_by_addr
               /\ low + free_by_addr[low] + 1 = a
      <4>1. x # low
        BY <2>3, <3>2
      <4>2. x + Payload(x) < low \/ low + free_by_addr[low] < x
        BY <1>5, <1>6, <2>1, <2>2, <3>2, <4>1 DEF IInv, Disjoint
      <4>3. ~(low + free_by_addr[low] < x)
        BY <1>1, <1>5, <1>6, <2>2, <2>6, <3>2
      <4> QED
        BY <2>1, <4>2, <4>3
    <3> QED
      BY <1>2, <3>1, <3>2
  <2>7. CASE a + Payload(a) < x
    <3>1. a + p < x
      BY <1>1, <2>2, <2>7
    <3>2. CASE high = a + p
      BY <2>1, <3>1, <3>2
    <3>3. CASE Above(a, p) = {n} /\ n \in DOMAIN free_by_addr /\ high = n + free_by_addr[n]
      <4>1. x # n
        BY <2>4, <3>3
      <4>2. x + Payload(x) < n \/ n + free_by_addr[n] < x
        BY <1>3, <1>5, <2>1, <2>2, <3>3, <4>1 DEF IInv, Disjoint
      <4>3. ~(x + Payload(x) < n)
        BY <1>1, <1>3, <2>2, <3>1
      <4> QED
        BY <2>1, <3>3, <4>2, <4>3
    <3> QED
      BY <1>4, <3>2, <3>3
  <2> QED
    BY <2>5, <2>6, <2>7
<1>10. low \notin Others(a, p)
  BY <1>6, <1>7, <1>8, <1>9, BlockTypes
<1>11. ASSUME NEW x \in Rest(a, p) PROVE x + free_by_addr[x] + 1 # low
  <2>1. x \in DOMAIN free_by_addr /\ x \notin Below(a)
    BY DEF Rest
  <2>2. CASE low = a
    BY <2>1, <2>2, BelowFacts
  <2>3. CASE low \in DOMAIN free_by_addr
    BY <2>1, <2>3 DEF IInv, Coalesced
  <2> QED
    BY <1>2, <2>2, <2>3
<1>12. high + 1 \notin Rest(a, p)
  <2>1. CASE high = a + p /\ n \notin DOMAIN free_by_addr
    BY <1>3, <2>1 DEF Rest
  <2>2. CASE n \in DOMAIN free_by_addr /\ high = n + free_by_addr[n]
    BY <2>2 DEF IInv, Coalesced, Rest
  <2> QED
    BY <1>4, <2>1, <2>2
<1> QED
  BY <1>6, <1>7, <1>8, <1>9, <1>10, <1>11, <1>12

LEMMA DeallocateKeeps ==
  ASSUME IInv, NEW a \in DOMAIN header, Deallocate(a)
  PROVE  IInv'
<1>1. PICK p \in Nat \ {0} : p = FreedWords(header[a])
  BY FreedBlock
<1>2. PICK low \in Nat : low = Low(a)
  BY <1>1, FreedRun
<1>3. PICK high \in Nat : high = High(a, p)
  BY <1>1, FreedRun
<1>4. /\ low < high /\ DynamicStart <= low /\ high < Top
      /\ \A x \in Others(a, p) : x \in Blocks /\ (x + Payload(x) < low \/ high < x)
      /\ low \notin Others(a, p)
      /\ \A x \in Rest(a, p) : x + free_by_addr[x] + 1 # low
      /\ high + 1 \notin Rest(a, p)
  BY <1>1, <1>2, <1>3, FreedRun
<1> DEFINE rest == Erase(free_by_addr, Above(a, p) \cup Below(a))
           restBySize == free_by_size \ ErasedSizes(a, p)
<1>5. /\ header' = Erase(header, {a})
      /\ currently_used_words' = currently_used_words - (p + 1)
      /\ peak_used_words' = peak_used_words
      /\ live_objects_count' = IF live_objects_count > 0
                                 THEN live_objects_count - 1 ELSE 0
      /\ next_free_static' = next_free_static /\ fault' = fault /\ Running
      /\ IF high + 1 = next_free_dynamic
           THEN /\ next_free_dynamic' = low
                /\ free_by_addr' = rest
                /\ free_by_size' = restBySize
           ELSE /\ free_by_addr' = [x \in DOMAIN rest \cup {low} |->
                                      IF x = low THEN high - low ELSE rest[x]]
                /\ free_by_size' = restBySize \cup {<<high - low, low>>}
                /\ next_free_dynamic' = next_free_dynamic
  BY <1>1, <1>2, <1>3 DEF Deallocate, AtTop, Returned
<1>6. /\ DOMAIN rest = Rest(a, p)
      /\ \A x \in Rest(a, p) : rest[x] = free_by_addr[x] /\ x \in DOMAIN free_by_addr
  BY DEF Erase, Restrict, Rest
<1>7. restBySize = {<<free_by_addr[x], x>> : x \in Rest(a, p)}
  BY DEF ErasedSizes, Rest, IInv, FreeListsAgree
<1> HIDE DEF rest, restBySize
<1>8. /\ DOMAIN header' = DOMAIN header \ {a}
      /\ \A x \in DOMAIN header' : header'[x] = header[x]
  BY <1>5 DEF Erase, Restrict
<1>9. next_free_dynamic = Top
  BY FreedBlock
<1>10. /\ DOMAIN header' \subseteq Nat /\ \A x \in DOMAIN header' : header'[x] \in Requests
       /\ next_free_static' \in Nat
       /\ currently_used_words' \in Int /\ peak_used_words' \in Int
       /\ live_objects_count' \in Nat
       /\ fault' \in {"none", "heap overflow", "static overflow"}
  <2>1. /\ next_free_static \in Nat /\ currently_used_words \in Int
        /\ peak_used_words \in Int /\ live_objects_count \in Nat
        /\ fault \in {"none", "heap overflow", "static overflow"}
    BY DEF IInv, TypeOK
  <2>2. DOMAIN header' \subseteq Nat /\ \A x \in DOMAIN header' : header'[x] \in Requests
    BY <1>8 DEF IInv, TypeOK
  <2>a. currently_used_words' = currently_used_words - (p + 1)
    BY <1>5
  <2>b. live_objects_count' = IF live_objects_count > 0
                                THEN live_objects_count - 1 ELSE 0
    BY <1>5
  <2>c. currently_used_words \in Int /\ live_objects_count \in Nat
    BY DEF IInv, TypeOK
  <2>3. currently_used_words' \in Int
    BY <2>a, <2>c
  <2>4. live_objects_count' \in Nat
    BY <2>b, <2>c
  <2> QED
    BY <1>5, <2>1, <2>2, <2>3, <2>4
<1>11. \A x \in Rest(a, p) :
         /\ x \in Nat /\ free_by_addr[x] \in Nat \ {0} /\ x \notin DOMAIN header
         /\ Payload(x) = free_by_addr[x] /\ x \in Others(a, p)
         /\ x + free_by_addr[x] + 1 \notin Rest(a, p)
         /\ x + free_by_addr[x] + 1 # Top
  BY <1>6, BlockTypes DEF Others, IInv, Coalesced, Rest
<1>12. \A x \in DOMAIN header' : x \in Others(a, p) /\ x \in DOMAIN header
  BY <1>8 DEF Others
<1>13. Top \in Nat /\ DynamicStart \in Nat /\ DynamicStart >= 2
  BY BlockTypes, StartFacts
<1>14. \A x \in Others(a, p) : /\ x \in Nat /\ Payload(x) \in Nat
                               /\ DynamicStart <= x /\ x + Payload(x) < Top
  BY <1>4, BlockTypes DEF IInv, InHeap
<1>15. \A x, y \in Others(a, p) : x < y => x + Payload(x) < y
  BY <1>4 DEF IInv, Disjoint
<1>16. CASE high + 1 = Top
  <2>1. next_free_dynamic' = low /\ free_by_addr' = rest /\ free_by_size' = restBySize
    BY <1>5, <1>9, <1>16
  <2>2. Top' = low
    BY <1>4, <1>13, <2>1 DEF Top
  <2>3. Blocks' = Others(a, p) /\ \A x \in Others(a, p) : Payload(x)' = Payload(x)
    <3>1. Blocks' = Others(a, p)
      BY <1>6, <1>8, <2>1 DEF Blocks, Others
    <3>2. ASSUME NEW x \in Others(a, p) PROVE Payload(x)' = Payload(x)
      <4>1. CASE x \in DOMAIN header'
        BY <1>8, <4>1 DEF Payload
      <4>2. CASE x \notin DOMAIN header'
        <5>1. x \in Rest(a, p)
          BY <1>8, <4>2 DEF Others
        <5> QED
          BY <1>6, <1>11, <2>1, <4>2, <5>1 DEF Payload
      <4> QED
        BY <4>1, <4>2
    <3> QED
      BY <3>1, <3>2
  <2>4. TypeOK'
    <3>1. DOMAIN free_by_addr' \subseteq Nat
      BY <1>6, <1>11, <2>1
    <3>2. \A x \in DOMAIN free_by_addr' : free_by_addr'[x] \in Nat \ {0}
      BY <1>6, <1>11, <2>1
    <3>3. free_by_size' \subseteq Nat \X Nat
      BY <1>7, <1>11, <2>1
    <3>4. next_free_dynamic' \in Nat
      BY <2>1
    <3> QED
      BY <1>10, <3>1, <3>2, <3>3, <3>4 DEF TypeOK
  <2>5. InHeap'
    <3>1. ASSUME NEW x \in Others(a, p) PROVE x + Payload(x) < low
      BY <1>4, <1>13, <1>14, <1>16
    <3>2. low < Top
      BY <1>4, <1>13
    <3>3. 8 * low < 8 * Top
      BY <1>13, <3>2
    <3>4. next_free_static < DynamicStart /\ 8 * low < HeapBytes
      BY <1>5, <1>13, <3>3, HeapAssumption DEF IInv, InHeap
    <3> QED
      BY <1>4, <1>5, <1>14, <2>2, <2>3, <3>1, <3>4 DEF InHeap
  <2>6. Disjoint'
    BY <1>15, <2>3 DEF Disjoint
  <2>7. FreeListsAgree'
    <3>1. DOMAIN header' \cap DOMAIN free_by_addr' = {}
      BY <1>6, <1>11, <1>12, <2>1
    <3>2. free_by_size' = {<<free_by_addr'[x], x>> : x \in DOMAIN free_by_addr'}
      BY <1>6, <1>7, <2>1
    <3> QED
      BY <3>1, <3>2 DEF FreeListsAgree
  <2>8. Coalesced'
    BY <1>4, <1>6, <1>11, <2>1, <2>2 DEF Coalesced
  <2> QED
    BY <2>4, <2>5, <2>6, <2>7, <2>8 DEF IInv
<1>17. CASE high + 1 # Top
  <2>1. /\ next_free_dynamic' = next_free_dynamic
        /\ free_by_addr' = [x \in DOMAIN rest \cup {low} |->
                              IF x = low THEN high - low ELSE rest[x]]
        /\ free_by_size' = restBySize \cup {<<high - low, low>>}
    BY <1>5, <1>9, <1>17
  <2>2. Top' = Top
    BY <2>1 DEF Top
  <2>3. low \notin Rest(a, p) /\ low \notin DOMAIN header'
    BY <1>4, <1>11, <1>12
  <2>4. /\ DOMAIN free_by_addr' = Rest(a, p) \cup {low}
        /\ free_by_addr'[low] = high - low
        /\ \A x \in Rest(a, p) : x # low /\ free_by_addr'[x] = free_by_addr[x]
    BY <1>6, <2>1, <2>3
  <2>5. PICK size \in Nat \ {0} : size = high - low /\ low + size = high
    BY <1>4
  <2>6. /\ Blocks' = Others(a, p) \cup {low}
        /\ Payload(low)' = size
        /\ \A x \in Others(a, p) : Payload(x)' = Payload(x)
    <3>1. Blocks' = Others(a, p) \cup {low}
      BY <1>8, <2>4 DEF Blocks, Others
    <3>2. Payload(low)' = size
      BY <2>3, <2>4, <2>5 DEF Payload
    <3>3. ASSUME NEW x \in Others(a, p) PROVE Payload(x)' = Payload(x)
      <4>1. CASE x \in DOMAIN header'
        BY <1>8, <4>1 DEF Payload
      <4>2. CASE x \notin DOMAIN header'
        <5>1. x \in Rest(a, p)
          BY <1>8, <4>2 DEF Others
        <5> QED
          BY <1>11, <2>4, <4>2, <5>1 DEF Payload
      <4> QED
        BY <4>1, <4>2
    <3> QED
      BY <3>1, <3>2, <3>3
  <2>7. TypeOK'
    <3>1. DOMAIN free_by_addr' \subseteq Nat
      BY <1>11, <2>4
    <3>2. \A x \in DOMAIN free_by_addr' : free_by_addr'[x] \in Nat \ {0}
      BY <1>11, <2>4, <2>5
    <3>3. free_by_size' \subseteq Nat \X Nat
      <4>1. <<high - low, low>> \in Nat \X Nat
        BY <2>5
      <4>2. restBySize \subseteq Nat \X Nat
        BY <1>7, <1>11
      <4> QED
        BY <2>1, <4>1, <4>2
    <3>4. next_free_dynamic' \in Nat
      BY <1>9, <1>13, <2>1
    <3> QED
      BY <1>10, <3>1, <3>2, <3>3, <3>4 DEF TypeOK
  <2>8. InHeap'
    <3>1. ASSUME NEW x \in Blocks' PROVE DynamicStart <= x /\ x + Payload(x)' < Top
      BY <1>4, <1>14, <2>5, <2>6
    <3> QED
      BY <1>5, <2>2, <3>1 DEF IInv, InHeap, Running
  <2>9. Disjoint'
    <3>1. ASSUME NEW x \in Blocks', NEW y \in Blocks', x < y
          PROVE  x + Payload(x)' < y
      <4>1. CASE x = low
        BY <1>4, <1>14, <2>5, <2>6, <3>1, <4>1
      <4>2. CASE x # low /\ y = low
        BY <1>4, <1>14, <2>6, <3>1, <4>2
      <4>3. CASE x # low /\ y # low
        BY <1>15, <2>6, <3>1, <4>3
      <4> QED
        BY <4>1, <4>2, <4>3
    <3> QED
      BY <3>1 DEF Disjoint
  <2>10. FreeListsAgree'
    <3>1. DOMAIN header' \cap DOMAIN free_by_addr' = {}
      BY <1>11, <1>12, <2>3, <2>4
    <3>2. free_by_size' = {<<free_by_addr'[x], x>> : x \in DOMAIN free_by_addr'}
      BY <1>7, <2>1, <2>4
    <3> QED
      BY <3>1, <3>2 DEF FreeListsAgree
  <2>11. Coalesced'
    <3>1. ASSUME NEW x \in DOMAIN free_by_addr'
          PROVE  /\ x + free_by_addr'[x] + 1 \notin DOMAIN free_by_addr'
                 /\ x + free_by_addr'[x] + 1 # Top
      <4>1. CASE x = low
        <5>1. x + free_by_addr'[x] + 1 = high + 1
          BY <2>4, <2>5, <4>1
        <5>2. high + 1 # low
          BY <1>4
        <5> QED
          BY <1>4, <1>17, <2>4, <5>1, <5>2
      <4>2. CASE x # low
        BY <1>4, <1>11, <2>4, <4>2
      <4> QED
        BY <4>1, <4>2
    <3> QED
      BY <2>2, <3>1 DEF Coalesced
  <2> QED
    BY <2>7, <2>8, <2>9, <2>10, <2>11 DEF IInv
<1> QED
  BY <1>16, <1>17

-----------------------------------------------------------------------------
LEMMA InitKeeps == Init => IInv
<1> SUFFICES ASSUME Init PROVE IInv
  OBVIOUS
<1>1. /\ DOMAIN header = {} /\ DOMAIN free_by_addr = {} /\ free_by_size = {}
      /\ next_free_static = 0 /\ next_free_dynamic = 1 /\ fault = "none"
      /\ currently_used_words = 0 /\ peak_used_words = 0 /\ live_objects_count = 0
  BY DEF Init
<1>2. Top = DynamicStart /\ Blocks = {}
  BY <1>1 DEF Top, Blocks
<1>3. 8 * DynamicStart < HeapBytes
  BY HeapAssumption DEF DynamicStart
<1>4. TypeOK
  BY <1>1 DEF TypeOK
<1>5. InHeap
  BY <1>1, <1>2, <1>3, StartFacts DEF InHeap
<1>6. Disjoint /\ FreeListsAgree /\ Coalesced
  BY <1>1, <1>2 DEF Disjoint, FreeListsAgree, Coalesced
<1> QED
  BY <1>4, <1>5, <1>6 DEF IInv

LEMMA NextKeeps ==
  ASSUME NoWrap, IInv, [Next]_vars
  PROVE  IInv'
<1>1. CASE \E b \in Requests : Allocate(b)
  <2>1. PICK b \in Requests : Allocate(b)
    BY <1>1
  <2>2. CASE AllocateExact(b)
    BY <2>1, <2>2, ExactKeeps DEF Allocate
  <2>3. CASE AllocateSplit(b)
    BY <2>1, <2>3, SplitKeeps DEF Allocate
  <2>4. CASE AllocateFresh(b)
    BY <2>1, <2>4, FreshKeeps DEF Allocate
  <2> QED
    BY <2>1, <2>2, <2>3, <2>4 DEF Allocate
<1>2. CASE \E a \in DOMAIN header : Deallocate(a)
  BY <1>2, DeallocateKeeps
<1>3. CASE \E w \in StaticWords : AllocateStatic(w)
  BY <1>3, StaticKeeps
<1>4. CASE UNCHANGED vars
  <2>1. /\ UNCHANGED <<header, free_by_addr, free_by_size, next_free_static,
                       next_free_dynamic, currently_used_words, peak_used_words,
                       live_objects_count, fault>>
    BY <1>4 DEF vars, freeLists, statistics
  <2>2. Top' = Top /\ Blocks' = Blocks /\ \A x \in Blocks : Payload(x)' = Payload(x)
    BY <2>1 DEF Top, Blocks, Payload
  <2>3. TypeOK'
    BY <2>1 DEF IInv, TypeOK
  <2>4. InHeap'
    BY <2>1, <2>2 DEF IInv, InHeap, Running
  <2>5. Disjoint' /\ FreeListsAgree' /\ Coalesced'
    BY <2>1, <2>2 DEF IInv, Disjoint, FreeListsAgree, Coalesced
  <2> QED
    BY <2>3, <2>4, <2>5 DEF IInv
<1> QED
  BY <1>1, <1>2, <1>3, <1>4 DEF Next

(* The inductive invariant holds in every reachable state. *)
THEOREM Invariance == ASSUME NoWrap PROVE Spec => []IInv
<1>1. Init => IInv
  BY InitKeeps
<1>2. NoWrap /\ IInv /\ [Next]_vars => IInv'
  BY NextKeeps
<1> QED
  BY <1>1, <1>2, PTL DEF Spec

(* Every variable of the allocator keeps its type. *)
THEOREM TypeCorrect == ASSUME NoWrap PROVE Spec => []TypeOK
<1>1. IInv => TypeOK
  BY DEF IInv
<1> QED
  BY <1>1, Invariance, PTL

(* Whatever is allocated and freed in whatever order, a block handed out lies
   inside the dynamic half of the heap, no two blocks share a word, the two
   free lists describe the same blocks, none of them live, and free blocks
   never touch each other or the top. *)
THEOREM HeapWellFormed == ASSUME NoWrap PROVE Spec => []WellFormed
<1>1. IInv => WellFormed
  BY DEF IInv, WellFormed
<1> QED
  BY <1>1, Invariance, PTL

-----------------------------------------------------------------------------
(* When what is freed is what was reserved, no word is ever lost, the        *)
(* statistics are exact, and the allocator with its free lists implements    *)
(* HeapContract, which has none.                                             *)

(* deallocate computes the size of a tuple as if it had one byte per element:
   with tuples words are lost, and requests refused for want of them. *)
NoTuples == \A b \in Requests : b.tag # "TUPLE"

AInv == IInv /\ Accounting

-----------------------------------------------------------------------------
(* Words. *)

LEMMA Apart ==
  ASSUME NEW A, NEW B, IsFiniteSet(A), IsFiniteSet(B), A \cap B = {}
  PROVE  /\ IsFiniteSet(A \cup B)
         /\ Cardinality(A \cup B) = Cardinality(A) + Cardinality(B)
<1>1. /\ IsFiniteSet(A \cup B)
      /\ Cardinality(A \cup B) = Cardinality(A) + Cardinality(B) - Cardinality(A \cap B)
  BY FS_Union
<1>2. Cardinality(A) \in Nat /\ Cardinality(B) \in Nat /\ Cardinality(A \cap B) = 0
  BY FS_CardinalityType, FS_EmptySet
<1> QED
  BY <1>1, <1>2

LEMMA ExtentWords ==
  ASSUME NEW a \in Nat, NEW p \in Nat
  PROVE  IsFiniteSet(a .. a + p) /\ Cardinality(a .. a + p) = p + 1
<1>1. PICK h \in Nat : h = a + p
  OBVIOUS
<1>2. IsFiniteSet(a .. h) /\ Cardinality(a .. h) = IF a > h THEN 0 ELSE h - a + 1
  BY FS_Interval
<1> QED
  BY <1>1, <1>2

LEMMA LiveFinite ==
  ASSUME IInv
  PROVE  IsFiniteSet(DOMAIN header) /\ IsFiniteSet(LiveWords)
<1> DEFINE heap == DynamicStart .. Top
<1>1. DynamicStart \in Nat /\ Top \in Nat
  BY StartFacts, BlockTypes
<1>2. IsFiniteSet(heap)
  BY <1>1, FS_Interval
<1>3. \A a \in DOMAIN header :
        /\ a \in Nat /\ PayloadWords(header[a]) \in Nat
        /\ DynamicStart <= a /\ a + PayloadWords(header[a]) < Top
  BY BlockTypes DEF IInv, InHeap
<1>4. DOMAIN header \subseteq heap
  BY <1>1, <1>3
<1>5. LiveWords \subseteq heap
  BY <1>1, <1>3 DEF LiveWords
<1> QED
  BY <1>2, <1>4, <1>5, FS_Subset

(* The words of a block that is live beside others are none of theirs. *)
LEMMA LiveApart ==
  ASSUME IInv, NEW a \in DOMAIN header
  PROVE  \A x \in DOMAIN header \ {a} :
           \A w \in x .. x + PayloadWords(header[x]) :
             w \notin a .. a + PayloadWords(header[a])
<1>1. ASSUME NEW x \in DOMAIN header \ {a},
             NEW w \in x .. x + PayloadWords(header[x]),
             w \in a .. a + PayloadWords(header[a])
      PROVE  FALSE
  <2>1. /\ x \in Blocks /\ a \in Blocks /\ x \in Nat /\ a \in Nat
        /\ Payload(x) = PayloadWords(header[x]) /\ Payload(a) = PayloadWords(header[a])
        /\ Payload(x) \in Nat /\ Payload(a) \in Nat
    BY BlockTypes
  <2>2. x < a => x + Payload(x) < a
    BY <2>1 DEF IInv, Disjoint
  <2>3. a < x => a + Payload(a) < x
    BY <2>1 DEF IInv, Disjoint
  <2> QED
    BY <1>1, <2>1, <2>2, <2>3
<1> QED
  BY <1>1

(* What a block adds to the words in use. *)
LEMMA WordsOfBlock ==
  ASSUME IInv, NEW a \in DOMAIN header
  PROVE  LET others == UNION {x .. x + PayloadWords(header[x]) : x \in DOMAIN header \ {a}}
         IN  /\ Cardinality(DOMAIN header) = Cardinality(DOMAIN header \ {a}) + 1
             /\ Cardinality(DOMAIN header \ {a}) \in Nat
             /\ Cardinality(LiveWords) = Cardinality(others) + PayloadWords(header[a]) + 1
             /\ Cardinality(others) \in Nat
<1> DEFINE others == UNION {x .. x + PayloadWords(header[x]) : x \in DOMAIN header \ {a}}
           own == a .. a + PayloadWords(header[a])
           D == DOMAIN header \ {a}
<1>1. IsFiniteSet(DOMAIN header) /\ IsFiniteSet(LiveWords)
  BY LiveFinite
<1>2. a \in Nat /\ PayloadWords(header[a]) \in Nat
  BY BlockTypes
<1>3. LiveWords = others \cup own
  BY DEF LiveWords
<1>4. others \cap own = {}
  BY LiveApart
<1>5. IsFiniteSet(own) /\ Cardinality(own) = PayloadWords(header[a]) + 1
  BY <1>2, ExtentWords
<1>6. DOMAIN header = D \cup {a} /\ a \notin D
  OBVIOUS
<1> HIDE DEF others, own, D
<1>7. IsFiniteSet(others) /\ IsFiniteSet(D)
  BY <1>1, <1>3, <1>6, FS_Subset
<1>8. Cardinality(others) \in Nat /\ Cardinality(D) \in Nat
  BY <1>7, FS_CardinalityType
<1>9. Cardinality(LiveWords) = Cardinality(others) + Cardinality(own)
  BY <1>3, <1>4, <1>5, <1>7, Apart
<1>10. Cardinality(DOMAIN header) = Cardinality(D) + 1
  BY <1>6, <1>7, FS_AddElement
<1>11. Cardinality(LiveWords) = Cardinality(others) + PayloadWords(header[a]) + 1
  BY <1>2, <1>5, <1>8, <1>9
<1> QED
  BY <1>8, <1>10, <1>11 DEF others, D

-----------------------------------------------------------------------------
(* The statistics. *)

Statistics ==
  /\ live_objects_count = Cardinality(DOMAIN header)
  /\ Running => /\ currently_used_words = next_free_static + Cardinality(LiveWords)
                /\ peak_used_words >= currently_used_words

LEMMA PeakFacts ==
  ASSUME TypeOK, NEW words \in Nat, Use(words), peak_used_words >= currently_used_words
  PROVE  /\ currently_used_words' = currently_used_words + words
         /\ peak_used_words' >= currently_used_words'
<1>1. currently_used_words \in Int /\ peak_used_words \in Int
  BY DEF TypeOK
<1>2. currently_used_words' = currently_used_words + words
  BY DEF Use
<1>3. peak_used_words' = IF currently_used_words' > peak_used_words
                            THEN currently_used_words' ELSE peak_used_words
  BY DEF Use
<1> QED
  BY <1>1, <1>2, <1>3

LEMMA HandOutCounts ==
  ASSUME IInv, IInv', Statistics, Running, NEW b \in Requests, NEW n \in Nat,
         n \notin DOMAIN header, HandOut(n, b)
  PROVE  Statistics'
<1>1. PICK p \in Nat : p = PayloadWords(b)
  BY SizeFacts
<1>2. /\ DOMAIN header' = DOMAIN header \cup {n} /\ header'[n] = b
      /\ \A x \in DOMAIN header : header'[x] = header[x]
      /\ next_free_static' = next_free_static
      /\ live_objects_count' = live_objects_count + 1
      /\ Use(p + 1)
  BY <1>1 DEF HandOut
<1> DEFINE own == n .. n + p
<1>3. LiveWords' = LiveWords \cup own
  BY <1>1, <1>2 DEF LiveWords
<1>4. LiveWords \cap own = {}
  <2>1. ASSUME NEW x \in DOMAIN header, NEW w \in x .. x + PayloadWords(header[x]), w \in own
        PROVE  FALSE
    <3>1. x \in Nat /\ PayloadWords(header[x]) \in Nat /\ x # n
      BY BlockTypes
    <3>2. /\ x \in Blocks' /\ n \in Blocks'
          /\ Payload(x)' = PayloadWords(header[x]) /\ Payload(n)' = p
      BY <1>1, <1>2, <3>1 DEF Blocks, Payload
    <3>3. x < n => x + PayloadWords(header[x]) < n
      BY <3>2 DEF IInv, Disjoint
    <3>4. n < x => n + p < x
      BY <3>2 DEF IInv, Disjoint
    <3> QED
      BY <1>1, <2>1, <3>1, <3>3, <3>4
  <2> QED
    BY <2>1 DEF LiveWords
<1>5. IsFiniteSet(own) /\ Cardinality(own) = p + 1
  BY <1>1, ExtentWords
<1> HIDE DEF own
<1>6. /\ Cardinality(DOMAIN header') = Cardinality(DOMAIN header) + 1
      /\ Cardinality(LiveWords') = Cardinality(LiveWords) + (p + 1)
  <2>1. IsFiniteSet(DOMAIN header) /\ IsFiniteSet(LiveWords)
    BY LiveFinite
  <2>2. PICK words : words = LiveWords
    OBVIOUS
  <2>3. IsFiniteSet(words) /\ words \cap own = {} /\ LiveWords' = words \cup own
    BY <1>3, <1>4, <2>1, <2>2
  <2>4. Cardinality(words \cup own) = Cardinality(words) + Cardinality(own)
    BY <1>5, <2>3, Apart
  <2>5. Cardinality(DOMAIN header \cup {n}) = Cardinality(DOMAIN header) + 1
    BY <2>1, FS_AddElement
  <2> QED
    BY <1>2, <1>5, <2>2, <2>3, <2>4, <2>5
<1>7. live_objects_count' = Cardinality(DOMAIN header')
  BY <1>2, <1>6 DEF Statistics
<1>8. /\ currently_used_words' = currently_used_words + (p + 1)
      /\ peak_used_words' >= currently_used_words'
  <2>1. p + 1 \in Nat
    BY <1>1
  <2>2. TypeOK /\ peak_used_words >= currently_used_words
    BY DEF IInv, Statistics
  <2> QED
    BY <1>2, <2>1, <2>2, PeakFacts
<1>9. currently_used_words' = next_free_static' + Cardinality(LiveWords')
  <2>1. Cardinality(LiveWords) \in Nat /\ next_free_static \in Nat
    BY LiveFinite, FS_CardinalityType DEF IInv, TypeOK
  <2>2. currently_used_words = next_free_static + Cardinality(LiveWords)
    BY DEF Statistics
  <2> QED
    BY <1>1, <1>2, <1>6, <1>8, <2>1, <2>2
<1> QED
  BY <1>7, <1>8, <1>9 DEF Statistics

LEMMA DeallocateCounts ==
  ASSUME IInv, NoTuples, Statistics, NEW a \in DOMAIN header, Deallocate(a)
  PROVE  Statistics'
<1>1. PICK p \in Nat : p = PayloadWords(header[a])
  BY BlockTypes
<1>2. FreedWords(header[a]) = p
  <2>1. header[a] \in Requests
    BY DEF IInv, TypeOK
  <2> QED
    BY <1>1, <2>1, SizeFacts DEF NoTuples
<1>3. /\ header' = Erase(header, {a})
      /\ currently_used_words' = currently_used_words - (p + 1)
      /\ peak_used_words' = peak_used_words
      /\ live_objects_count' = IF live_objects_count > 0
                                 THEN live_objects_count - 1 ELSE 0
      /\ next_free_static' = next_free_static
      /\ fault' = fault /\ Running
  BY <1>2 DEF Deallocate, Returned
<1>4. /\ DOMAIN header' = DOMAIN header \ {a}
      /\ \A x \in DOMAIN header' : header'[x] = header[x]
  BY <1>3 DEF Erase, Restrict
<1>5. LiveWords' = UNION {x .. x + PayloadWords(header[x]) : x \in DOMAIN header \ {a}}
  BY <1>4 DEF LiveWords
<1>6. /\ Cardinality(DOMAIN header) = Cardinality(DOMAIN header') + 1
      /\ Cardinality(DOMAIN header') \in Nat
      /\ Cardinality(LiveWords) = Cardinality(LiveWords') + p + 1
      /\ Cardinality(LiveWords') \in Nat
  BY <1>1, <1>4, <1>5, WordsOfBlock
<1>7. live_objects_count' = Cardinality(DOMAIN header')
  <2>1. live_objects_count = Cardinality(DOMAIN header)
    BY DEF Statistics
  <2> QED
    BY <1>3, <1>6, <2>1
<1>8. next_free_static \in Nat /\ currently_used_words \in Int /\ peak_used_words \in Int
  BY DEF IInv, TypeOK
<1>9. /\ currently_used_words = next_free_static + Cardinality(LiveWords)
      /\ peak_used_words >= currently_used_words
  BY <1>3 DEF Statistics
<1>10. /\ currently_used_words' = next_free_static' + Cardinality(LiveWords')
       /\ peak_used_words' >= currently_used_words'
  BY <1>1, <1>3, <1>6, <1>8, <1>9
<1> QED
  BY <1>7, <1>10 DEF Statistics

LEMMA StaticCounts ==
  ASSUME IInv, Statistics, NEW w \in StaticWords, AllocateStatic(w)
  PROVE  Statistics'
<1>1. w \in Nat /\ next_free_static \in Nat /\ DynamicStart \in Nat
  BY StaticAssumption, StartFacts DEF IInv, TypeOK
<1>2. /\ Running /\ header' = header
      /\ next_free_static' = next_free_static + w
      /\ LiveWords' = LiveWords
  BY DEF AllocateStatic, LiveWords
<1>3. CASE next_free_static' >= DynamicStart
  BY <1>2, <1>3 DEF AllocateStatic, Statistics, statistics, Running
<1>4. CASE ~(next_free_static' >= DynamicStart)
  <2>1. Use(w) /\ live_objects_count' = live_objects_count
    BY <1>4 DEF AllocateStatic
  <2>2. /\ currently_used_words' = currently_used_words + w
        /\ peak_used_words' >= currently_used_words'
    <3>1. TypeOK /\ peak_used_words >= currently_used_words
      BY <1>2 DEF IInv, Statistics
    <3> QED
      BY <1>1, <2>1, <3>1, PeakFacts
  <2>3. currently_used_words' = next_free_static' + Cardinality(LiveWords')
    <3>1. Cardinality(LiveWords) \in Nat
      BY LiveFinite, FS_CardinalityType
    <3>2. currently_used_words = next_free_static + Cardinality(LiveWords)
      BY <1>2 DEF Statistics
    <3> QED
      BY <1>1, <1>2, <2>2, <3>1, <3>2
  <2> QED
    BY <1>2, <2>1, <2>2, <2>3 DEF Statistics
<1> QED
  BY <1>3, <1>4

-----------------------------------------------------------------------------
(* Tiling.  Every allocation is a block handed out where none is live. *)

Handed(b) == \E n \in Nat : n \notin DOMAIN header /\ HandOut(n, b)

LEMMA NarrowSizes ==
  ASSUME NoWrap, NEW b \in Requests
  PROVE  /\ Narrow(PayloadWords(b)) = PayloadWords(b)
         /\ Narrow(PayloadWords(b) + 2) = PayloadWords(b) + 2
<1>1. HeapBytes \div 8 \in Nat
  BY HeapAssumption
<1> QED
  BY <1>1, SizeFacts, NarrowSmall, AddressAssumption DEF NoWrap

LEMMA ExactTiles ==
  ASSUME IInv, NoWrap, Tiled, Running, NEW b \in Requests, AllocateExact(b)
  PROVE  Handed(b) /\ Tiled'
<1>1. PICK e \in ExactFit(b) :
        /\ free_by_addr' = Erase(free_by_addr, {e[2]})
        /\ next_free_dynamic' = Top
        /\ HandOut(e[2], b)
  BY DEF AllocateExact
<1>2. PICK p \in Nat \ {0} : p = PayloadWords(b) /\ Narrow(PayloadWords(b)) = p
  BY SizeFacts, NarrowSizes
<1>3. PICK n \in DOMAIN free_by_addr : e = <<free_by_addr[n], n>>
  BY <1>1 DEF ExactFit, IInv, FreeListsAgree
<1>4. /\ free_by_addr[n] = p /\ e[2] = n /\ n \in Nat /\ n \notin DOMAIN header
      /\ Payload(n) = p
  BY <1>1, <1>2, <1>3, BlockTypes DEF ExactFit
<1>5. /\ DOMAIN free_by_addr' = DOMAIN free_by_addr \ {n}
      /\ \A x \in DOMAIN free_by_addr' : free_by_addr'[x] = free_by_addr[x]
  BY <1>1, <1>4 DEF Erase, Restrict
<1>6. /\ DOMAIN header' = DOMAIN header \cup {n} /\ header'[n] = b
      /\ \A x \in DOMAIN header : header'[x] = header[x]
  BY <1>1, <1>4 DEF HandOut
<1>7. Blocks' = Blocks /\ \A x \in Blocks : Payload(x)' = Payload(x)
  <2>1. Blocks' = Blocks
    BY <1>5, <1>6 DEF Blocks
  <2>2. Payload(n)' = p
    BY <1>2, <1>6 DEF Payload
  <2>3. ASSUME NEW x \in Blocks, x # n PROVE Payload(x)' = Payload(x)
    BY <1>5, <1>6, <2>3 DEF Payload, Blocks
  <2> QED
    BY <1>4, <2>1, <2>2, <2>3
<1>8. Top' = Top
  BY <1>1, StartFacts DEF Top, IInv, InHeap
<1>9. Tiled'
  BY <1>7, <1>8 DEF Tiled
<1> QED
  BY <1>1, <1>4, <1>9 DEF Handed

LEMMA SplitTiles ==
  ASSUME IInv, NoWrap, Tiled, Running, NEW b \in Requests, AllocateSplit(b)
  PROVE  Handed(b) /\ Tiled'
<1>1. PICK p \in Nat \ {0} : /\ p = PayloadWords(b) /\ Narrow(PayloadWords(b)) = p
                             /\ Narrow(PayloadWords(b) + 2) = p + 2
  BY SizeFacts, NarrowSizes
<1> DEFINE rest(e) == e[2] + 1 + p
           left(e) == e[1] - p - 1
<1>2. PICK e \in SplitFit(b) :
        /\ free_by_addr' =
             [x \in (DOMAIN free_by_addr \ {e[2]}) \cup {rest(e)} |->
                IF x = rest(e) THEN left(e) ELSE free_by_addr[x]]
        /\ next_free_dynamic' = Top
        /\ HandOut(e[2], b)
  BY <1>1 DEF AllocateSplit, Remainder
<1>3. PICK n \in DOMAIN free_by_addr : e = <<free_by_addr[n], n>>
  BY <1>2 DEF SplitFit, IInv, FreeListsAgree
<1>4. /\ e[1] = free_by_addr[n] /\ e[2] = n /\ free_by_addr[n] >= p + 2
      /\ n \in Nat /\ free_by_addr[n] \in Nat /\ n \in Blocks /\ n \notin DOMAIN header
      /\ Payload(n) = free_by_addr[n]
  BY <1>1, <1>2, <1>3, BlockTypes DEF SplitFit, IInv, TypeOK
<1>5. PICK r \in Nat, l \in Nat :
        /\ r = n + 1 + p /\ l = free_by_addr[n] - p - 1
        /\ r + l = n + free_by_addr[n] /\ n < r
  BY <1>1, <1>4
<1>6. /\ free_by_addr' = [x \in (DOMAIN free_by_addr \ {n}) \cup {r} |->
                            IF x = r THEN l ELSE free_by_addr[x]]
      /\ next_free_dynamic' = Top
      /\ HandOut(n, b)
  BY <1>2, <1>4, <1>5
<1>7. r \notin Blocks
  <2>1. ASSUME r \in Blocks PROVE FALSE
    BY <1>1, <1>4, <1>5, <2>1 DEF IInv, Disjoint
  <2> QED
    BY <2>1
<1>8. /\ DOMAIN header' = DOMAIN header \cup {n} /\ header'[n] = b
      /\ \A x \in DOMAIN header : header'[x] = header[x]
  BY <1>4, <1>6 DEF HandOut
<1>9. /\ DOMAIN free_by_addr' = (DOMAIN free_by_addr \ {n}) \cup {r}
      /\ free_by_addr'[r] = l
      /\ \A x \in DOMAIN free_by_addr \ {n} : free_by_addr'[x] = free_by_addr[x]
  BY <1>6, <1>7 DEF Blocks
<1>10. /\ Blocks' = Blocks \cup {r} /\ Payload(n)' = p /\ Payload(r)' = l
       /\ \A x \in Blocks \ {n} : Payload(x)' = Payload(x)
  <2>1. Blocks' = Blocks \cup {r}
    BY <1>8, <1>9 DEF Blocks
  <2>2. Payload(n)' = p
    BY <1>1, <1>8 DEF Payload
  <2>3. r # n /\ r \notin DOMAIN header
    BY <1>4, <1>5, <1>7 DEF Blocks
  <2>4. Payload(r)' = l
    BY <1>8, <1>9, <2>3 DEF Payload
  <2>5. ASSUME NEW x \in Blocks \ {n} PROVE Payload(x)' = Payload(x)
    BY <1>8, <1>9 DEF Payload, Blocks
  <2> QED
    BY <2>1, <2>2, <2>4, <2>5
<1>11. Top' = Top /\ Top \in Nat /\ DynamicStart \in Nat
  BY <1>6, StartFacts, BlockTypes DEF Top, IInv, InHeap
<1>12. ASSUME NEW w \in DynamicStart .. Top - 1
       PROVE  \E x \in Blocks' : x <= w /\ w <= x + Payload(x)'
  <2>1. PICK x \in Blocks : x <= w /\ w <= x + Payload(x)
    BY DEF Tiled
  <2>2. CASE x # n
    BY <1>10, <2>1, <2>2
  <2>3. CASE x = n
    <3>1. w \in Nat /\ n <= w /\ w <= r + l
      BY <1>4, <1>5, <1>11, <2>1, <2>3
    <3>2. (n <= w /\ w <= n + p) \/ (r <= w /\ w <= r + l)
      BY <1>1, <1>4, <1>5, <3>1
    <3> QED
      BY <1>4, <1>10, <3>2
  <2> QED
    BY <2>2, <2>3
<1>13. Tiled'
  BY <1>11, <1>12 DEF Tiled
<1> QED
  BY <1>4, <1>6, <1>13 DEF Handed

(* AllocateFresh hands out the words at the top, or overflows and says so. *)
Overflowed(b) ==
  /\ fault' = "heap overflow" /\ UNCHANGED <<header, statistics>>
  /\ 8 * (Top + PayloadWords(b) + 1) >= HeapBytes

LEMMA FreshTiles ==
  ASSUME IInv, NoWrap, Tiled, Running, NEW b \in Requests, AllocateFresh(b)
  PROVE  (Handed(b) /\ Tiled') \/ Overflowed(b)
<1>1. PICK p \in Nat \ {0} : p = PayloadWords(b)
  BY SizeFacts
<1>2. PICK t \in Nat : t = Top
  BY BlockTypes
<1>3. PICK end \in Nat : end = t + p + 1
  BY <1>1, <1>2
<1>4. Narrow(Top + Narrow(PayloadWords(b) + 1)) = end
  <2>1. HeapBytes \div 8 + p + 3 <= AddressWords
    BY <1>1 DEF NoWrap
  <2>2. 8 * t < HeapBytes
    BY <1>2 DEF IInv, InHeap
  <2>3. t <= HeapBytes \div 8 /\ HeapBytes \div 8 \in Nat
    BY <2>2, HeapAssumption
  <2>4. p + 1 \in Nat /\ p + 1 < AddressWords /\ end < AddressWords
    BY <1>3, <2>1, <2>3, AddressAssumption
  <2>5. Narrow(p + 1) = p + 1 /\ Narrow(end) = end
    BY <2>4, NarrowSmall
  <2>6. t + (p + 1) = end
    BY <1>3
  <2> QED
    BY <1>1, <1>2, <2>5, <2>6
<1>5. /\ next_free_dynamic' = end /\ free_by_addr' = free_by_addr
      /\ IF Overflows(end)
           THEN fault' = "heap overflow" /\ UNCHANGED <<header, statistics>>
           ELSE HandOut(Top, b)
  BY <1>4, Zenon DEF AllocateFresh, freeLists
<1>6. CASE Overflows(end)
  <2>1. 8 * end >= HeapBytes
    BY <1>6 DEF Overflows
  <2> QED
    BY <1>1, <1>2, <1>3, <1>5, <1>6, <2>1 DEF Overflowed
<1>7. CASE ~Overflows(end)
  <2>1. HandOut(t, b)
    BY <1>2, <1>5, <1>7
  <2>2. /\ DOMAIN header' = DOMAIN header \cup {t} /\ header'[t] = b
        /\ \A x \in DOMAIN header : x # t => header'[x] = header[x]
    BY <2>1 DEF HandOut
  <2>3. \A x \in Blocks : x \in Nat /\ Payload(x) \in Nat /\ x + Payload(x) < t
    BY <1>2, BlockTypes DEF IInv, InHeap
  <2>4. t \notin Blocks
    BY <2>3
  <2>5. /\ Blocks' = Blocks \cup {t} /\ Payload(t)' = p
        /\ \A x \in Blocks : Payload(x)' = Payload(x)
    <3>1. Blocks' = Blocks \cup {t}
      BY <1>5, <2>2 DEF Blocks
    <3>2. Payload(t)' = p
      BY <1>1, <2>2 DEF Payload
    <3>3. ASSUME NEW x \in Blocks PROVE Payload(x)' = Payload(x)
      BY <1>5, <2>2, <2>4 DEF Blocks, Payload
    <3> QED
      BY <3>1, <3>2, <3>3
  <2>6. DynamicStart \in Nat /\ DynamicStart <= t /\ DynamicStart >= 2
    BY <1>2, StartFacts DEF IInv, InHeap
  <2>7. Top' = end
    <3>1. end # 1
      BY <1>3, <2>6
    <3>2. next_free_dynamic' = end
      BY <1>5
    <3> QED
      BY <3>1, <3>2 DEF Top
  <2>8. ASSUME NEW w \in DynamicStart .. end - 1
        PROVE  \E x \in Blocks' : x <= w /\ w <= x + Payload(x)'
    <3>1. CASE w < t
      <4>1. PICK x \in Blocks : x <= w /\ w <= x + Payload(x)
        BY <1>2, <2>6, <3>1 DEF Tiled
      <4> QED
        BY <2>5, <4>1
    <3>2. CASE ~(w < t)
      <4>1. t <= w /\ w <= t + p
        BY <1>3, <2>6, <3>2
      <4> QED
        BY <2>5, <4>1
    <3> QED
      BY <3>1, <3>2
  <2>9. Tiled'
    BY <2>7, <2>8 DEF Tiled
  <2>10. t \notin DOMAIN header
    BY <2>4 DEF Blocks
  <2> QED
    BY <2>1, <2>9, <2>10 DEF Handed
<1> QED
  BY <1>6, <1>7

LEMMA DeallocateTiles ==
  ASSUME IInv, NoTuples, Tiled, NEW a \in DOMAIN header, Deallocate(a)
  PROVE  Tiled'
<1>1. PICK p \in Nat \ {0} : p = FreedWords(header[a])
  BY FreedBlock
<1>2. PICK low \in Nat : low = Low(a)
  BY <1>1, FreedRun
<1>3. PICK high \in Nat : high = High(a, p)
  BY <1>1, FreedRun
<1>4. /\ low < high /\ DynamicStart <= low /\ high < Top
      /\ \A x \in Others(a, p) : x \in Blocks /\ (x + Payload(x) < low \/ high < x)
      /\ low \notin Others(a, p)
  BY <1>1, <1>2, <1>3, FreedRun
<1>5. Payload(a) = p /\ a \in Nat
  <2>1. header[a] \in Requests
    BY DEF IInv, TypeOK
  <2>2. FreedWords(header[a]) = PayloadWords(header[a])
    BY <2>1, SizeFacts DEF NoTuples
  <2> QED
    BY <1>1, <2>2, BlockTypes
<1>6. Running /\ next_free_dynamic = Top
  BY FreedBlock DEF Deallocate
<1> DEFINE rest == Erase(free_by_addr, Above(a, p) \cup Below(a))
<1>7. /\ header' = Erase(header, {a})
      /\ IF high + 1 = next_free_dynamic
           THEN /\ next_free_dynamic' = low
                /\ free_by_addr' = rest
           ELSE /\ free_by_addr' = [x \in DOMAIN rest \cup {low} |->
                                      IF x = low THEN high - low ELSE rest[x]]
                /\ next_free_dynamic' = next_free_dynamic
  BY <1>1, <1>2, <1>3 DEF Deallocate, AtTop
<1>8. /\ DOMAIN rest = Rest(a, p)
      /\ \A x \in Rest(a, p) : rest[x] = free_by_addr[x] /\ x \in DOMAIN free_by_addr
  BY DEF Erase, Restrict, Rest
<1> HIDE DEF rest
<1>9. /\ DOMAIN header' = DOMAIN header \ {a}
      /\ \A x \in DOMAIN header' : header'[x] = header[x]
  BY <1>7 DEF Erase, Restrict
<1>10. \A x \in Others(a, p) : x \in Blocks' /\ Payload(x)' = Payload(x)
  <2>1. ASSUME NEW x \in Others(a, p) PROVE x \in Blocks' /\ Payload(x)' = Payload(x)
    <3>1. CASE x \in DOMAIN header'
      BY <1>9, <3>1 DEF Payload, Blocks
    <3>2. CASE x \notin DOMAIN header'
      <4>1. x \in Rest(a, p) /\ x \in DOMAIN free_by_addr /\ x # low
        BY <1>4, <1>8, <1>9, <3>2 DEF Others
      <4>2. x \in DOMAIN free_by_addr' /\ free_by_addr'[x] = free_by_addr[x]
        BY <1>7, <1>8, <4>1
      <4> QED
        BY <3>2, <4>1, <4>2, BlockTypes DEF Payload, Blocks
    <3> QED
      BY <3>1, <3>2
  <2> QED
    BY <2>1
(* The words of the blocks that merge are those of the run. *)
<1>11. ASSUME NEW x \in Blocks, x \notin Others(a, p)
       PROVE  low <= x /\ x + Payload(x) <= high /\ x \in Nat /\ Payload(x) \in Nat
  <2>1. /\ x \in Nat /\ Payload(x) \in Nat
        /\ x \in DOMAIN free_by_addr => Payload(x) = free_by_addr[x] /\ x # a
    BY BlockTypes
  <2>2. \/ Below(a) = {} /\ low = a
        \/ Below(a) = {low} /\ low \in DOMAIN free_by_addr /\ low + free_by_addr[low] + 1 = a
    BY <1>2, BelowFacts
  <2>3. PICK n \in Nat : n = a + p + 1
    BY <1>5
  <2>4. \/ Above(a, p) = {} /\ high = a + p
        \/ Above(a, p) = {n} /\ n \in DOMAIN free_by_addr /\ high = n + free_by_addr[n]
    BY <1>1, <1>3, <2>3, AboveFacts
  <2>5. x = a \/ (x \in DOMAIN free_by_addr /\ (x \in Above(a, p) \/ x \in Below(a)))
    BY <1>11 DEF Others, Rest, Blocks
  <2>6. low <= a /\ a + p <= high
    <3>1. low \in DOMAIN free_by_addr => free_by_addr[low] \in Nat
      BY DEF IInv, TypeOK
    <3>2. n \in DOMAIN free_by_addr => free_by_addr[n] \in Nat
      BY DEF IInv, TypeOK
    <3> QED
      BY <1>5, <2>2, <2>3, <2>4, <3>1, <3>2
  <2>7. CASE x = a
    BY <1>5, <2>1, <2>6, <2>7
  <2>8. CASE x \in DOMAIN free_by_addr /\ x \in Below(a)
    <3>1. x = low /\ x + free_by_addr[x] + 1 = a
      BY <2>2, <2>8
    <3> QED
      BY <1>5, <2>1, <2>6, <2>8, <3>1
  <2>9. CASE x \in DOMAIN free_by_addr /\ x \in Above(a, p)
    <3>1. x = n /\ high = x + free_by_addr[x]
      BY <2>4, <2>9
    <3> QED
      BY <1>5, <2>1, <2>3, <2>6, <2>9, <3>1
  <2> QED
    BY <2>5, <2>7, <2>8, <2>9
<1>12. Top \in Nat /\ DynamicStart \in Nat /\ DynamicStart >= 2
  BY BlockTypes, StartFacts
<1>13. \/ high + 1 = Top /\ Top' = low
       \/ /\ Top' = Top /\ low \in Blocks' /\ low + Payload(low)' = high
  <2>1. CASE high + 1 = Top
    BY <1>4, <1>6, <1>7, <1>12, <2>1 DEF Top
  <2>2. CASE high + 1 # Top
    <3>1. low \in DOMAIN free_by_addr' /\ free_by_addr'[low] = high - low
      BY <1>6, <1>7, <2>2
    <3>2. low \notin DOMAIN header'
      BY <1>4, <1>9 DEF Others
    <3>3. Payload(low)' = high - low /\ low \in Blocks'
      BY <3>1, <3>2 DEF Payload, Blocks
    <3>4. Top' = Top
      BY <1>6, <1>7, <2>2 DEF Top
    <3>5. low + (high - low) = high
      OBVIOUS
    <3> QED
      BY <3>3, <3>4, <3>5
  <2> QED
    BY <2>1, <2>2
<1>14. ASSUME NEW w \in DynamicStart .. Top' - 1
       PROVE  \E x \in Blocks' : x <= w /\ w <= x + Payload(x)'
  <2>1. w \in Nat /\ w \in DynamicStart .. Top - 1 /\ (Top' = low => w < low)
    BY <1>4, <1>12, <1>13
  <2>2. PICK x \in Blocks : x <= w /\ w <= x + Payload(x)
    BY <1>6, <2>1 DEF Tiled
  <2>3. CASE x \in Others(a, p)
    BY <1>10, <2>2, <2>3
  <2>4. CASE x \notin Others(a, p)
    <3>1. low <= w /\ w <= high
      BY <1>11, <2>1, <2>2, <2>4
    <3> QED
      BY <1>4, <1>13, <2>1, <3>1
  <2> QED
    BY <2>3, <2>4
<1> QED
  BY <1>14 DEF Tiled

-----------------------------------------------------------------------------
(* The invariant: the one of HeapAllocatorProofs, and Accounting. *)

LEMMA HandedKeeps ==
  ASSUME AInv, IInv', Running, NEW b \in Requests, Handed(b), Tiled'
  PROVE  AInv'
<1>1. PICK n \in Nat : n \notin DOMAIN header /\ HandOut(n, b)
  BY DEF Handed
<1>2. Statistics
  BY DEF AInv, Accounting, Statistics
<1>3. Statistics'
  BY <1>1, <1>2, HandOutCounts DEF AInv
<1> QED
  BY <1>3 DEF AInv, Accounting, Statistics

LEMMA AllocateKeeps ==
  ASSUME AInv, IInv', NoWrap, NEW b \in Requests, Allocate(b)
  PROVE  AInv'
<1>1. IInv /\ Tiled /\ Running
  BY DEF AInv, Accounting, Allocate
<1>2. CASE AllocateExact(b)
  <2>1. Handed(b) /\ Tiled'
    BY <1>1, <1>2, ExactTiles
  <2> QED
    BY <1>1, <2>1, HandedKeeps
<1>3. CASE AllocateSplit(b)
  <2>1. Handed(b) /\ Tiled'
    BY <1>1, <1>3, SplitTiles
  <2> QED
    BY <1>1, <2>1, HandedKeeps
<1>4. CASE AllocateFresh(b)
  <2>1. CASE Handed(b) /\ Tiled'
    BY <1>1, <2>1, HandedKeeps
  <2>2. CASE Overflowed(b)
    <3>1. ~Running'
      BY <2>2 DEF Overflowed, Running
    <3>2. live_objects_count' = Cardinality(DOMAIN header')
      BY <2>2 DEF Overflowed, AInv, Accounting, statistics
    <3> QED
      BY <3>1, <3>2 DEF AInv, Accounting, Tiled
  <2> QED
    BY <1>1, <1>4, <2>1, <2>2, FreshTiles
<1> QED
  BY <1>2, <1>3, <1>4 DEF Allocate

LEMMA AccountingKept ==
  ASSUME NoWrap, NoTuples, AInv, [Next]_vars
  PROVE  AInv'
<1>1. IInv'
  BY NextKeeps DEF AInv
<1>2. IInv /\ Statistics /\ Tiled
  BY DEF AInv, Accounting, Statistics
<1>3. CASE \E b \in Requests : Allocate(b)
  BY <1>1, <1>3, AllocateKeeps
<1>4. CASE \E a \in DOMAIN header : Deallocate(a)
  <2>1. PICK a \in DOMAIN header : Deallocate(a)
    BY <1>4
  <2>2. Statistics' /\ Tiled'
    BY <1>2, <2>1, DeallocateCounts, DeallocateTiles
  <2> QED
    BY <1>1, <2>2 DEF AInv, Accounting, Statistics
<1>5. CASE \E w \in StaticWords : AllocateStatic(w)
  <2>1. PICK w \in StaticWords : AllocateStatic(w)
    BY <1>5
  <2>2. Statistics'
    BY <1>2, <2>1, StaticCounts
  <2>3. Running /\ Top' = Top /\ Blocks' = Blocks /\ \A x \in Blocks : Payload(x)' = Payload(x)
    BY <2>1 DEF AllocateStatic, freeLists, Top, Blocks, Payload
  <2>4. Tiled'
    BY <1>2, <2>3 DEF Tiled
  <2> QED
    BY <1>1, <2>2, <2>4 DEF AInv, Accounting, Statistics
<1>6. CASE UNCHANGED vars
  <2>1. UNCHANGED <<header, free_by_addr, next_free_static, next_free_dynamic,
                    currently_used_words, peak_used_words, live_objects_count, fault>>
    BY <1>6 DEF vars, freeLists, statistics
  <2>2. LiveWords' = LiveWords /\ Top' = Top /\ Running' = Running
        /\ Blocks' = Blocks /\ \A x \in Blocks : Payload(x)' = Payload(x)
    BY <2>1 DEF LiveWords, Top, Running, Blocks, Payload
  <2>3. Tiled'
    BY <1>2, <2>2 DEF Tiled
  <2>4. Statistics'
    BY <1>2, <2>1, <2>2 DEF Statistics
  <2> QED
    BY <1>1, <2>3, <2>4 DEF AInv, Accounting, Statistics
<1> QED
  BY <1>3, <1>4, <1>5, <1>6 DEF Next

LEMMA InitAccounts == Init => AInv
<1> SUFFICES ASSUME Init PROVE AInv
  OBVIOUS
<1>1. IInv
  BY InitKeeps
<1>2. /\ DOMAIN header = {} /\ next_free_static = 0 /\ next_free_dynamic = 1
      /\ currently_used_words = 0 /\ peak_used_words = 0 /\ live_objects_count = 0
  BY DEF Init
<1>3. Top = DynamicStart /\ LiveWords = {}
  BY <1>2 DEF Top, LiveWords
<1>4. Cardinality({}) = 0
  BY FS_EmptySet
<1>5. Tiled
  BY <1>3, StartFacts DEF Tiled
<1> QED
  BY <1>1, <1>2, <1>3, <1>4, <1>5 DEF AInv, Accounting

LEMMA AccountingInvariant == ASSUME NoWrap, NoTuples PROVE Spec => []AInv
<1>1. Init => AInv
  BY InitAccounts
<1>2. NoWrap /\ NoTuples /\ AInv /\ [Next]_vars => AInv'
  BY AccountingKept
<1> QED
  BY <1>1, <1>2, PTL DEF Spec

(* Whatever is allocated and freed, every word up to the top belongs to a block,
   the words in use are the static ones and those of the live blocks, and the
   number of live objects is that of the blocks handed out and not freed. *)
THEOREM NothingLost == ASSUME NoWrap, NoTuples PROVE Spec => []Accounting
<1>1. AInv => Accounting
  BY DEF AInv
<1> QED
  BY <1>1, AccountingInvariant, PTL

-----------------------------------------------------------------------------
(* The contract.  Where HandOut puts a block, the invariant afterwards says
   that no live block had a word of it. *)

LEMMA Granted ==
  ASSUME IInv, IInv', Running, NEW b \in Requests, Handed(b)
  PROVE  Contract!Grant(PayloadWords(b))
<1>1. PICK n \in Nat : n \notin DOMAIN header /\ HandOut(n, b)
  BY DEF Handed
<1>2. PICK p \in Nat : p = PayloadWords(b)
  BY SizeFacts
<1>3. /\ header' = [x \in DOMAIN header \cup {n} |-> IF x = n THEN b ELSE header[x]]
      /\ fault' = fault
  BY <1>1 DEF HandOut
<1>4. /\ DOMAIN header' = DOMAIN header \cup {n} /\ header'[n] = b
      /\ \A x \in DOMAIN header : header'[x] = header[x]
  BY <1>1, <1>3
<1>5. /\ n \in Blocks' /\ Payload(n)' = p
      /\ \A x \in DOMAIN header : x \in Blocks' /\ Payload(x)' = PayloadWords(header[x])
  BY <1>2, <1>4 DEF Blocks, Payload
<1>6. DynamicStart <= n /\ n + p <= HeapBytes \div 8 - 1
  <2>1. DynamicStart <= n /\ n + p < Top' /\ 8 * Top' < HeapBytes
    BY <1>3, <1>5 DEF IInv, InHeap, Running
  <2>2. PICK t \in Nat : t = Top'
    BY StartFacts DEF IInv, TypeOK, Top
  <2>3. n + p < t /\ 8 * t < HeapBytes
    BY <2>1, <2>2
  <2>4. t <= HeapBytes \div 8 /\ HeapBytes \div 8 \in Nat
    BY <2>3, HeapAssumption
  <2> QED
    BY <2>1, <2>3, <2>4
<1>7. n \in DynamicStart .. (HeapBytes \div 8 - 1)
  BY <1>2, <1>6, StartFacts, HeapAssumption
<1>8. ASSUME NEW w \in n .. n + p, NEW x \in DOMAIN header
      PROVE  w \notin x .. x + PayloadWords(header[x])
  <2>1. x \in Nat /\ PayloadWords(header[x]) \in Nat /\ x # n
    BY <1>1, BlockTypes
  <2>2. x < n => x + PayloadWords(header[x]) < n
    BY <1>5 DEF IInv, Disjoint
  <2>3. n < x => n + p < x
    BY <1>5 DEF IInv, Disjoint
  <2> QED
    BY <1>2, <2>1, <2>2, <2>3
<1> DEFINE live == [a \in DOMAIN header |-> PayloadWords(header[a])]
<1>9. live' = [x \in DOMAIN live \cup {n} |-> IF x = n THEN p ELSE live[x]]
  BY <1>2, <1>4
<1>10. \A w \in Contract!Extent(n, p) : Contract!Free(w)
  BY <1>8 DEF Contract!Extent, Contract!Free
<1> QED
  BY <1>2, <1>3, <1>6, <1>7, <1>9, <1>10 DEF Contract!Grant, Running

(* When neither list has a block for it, a free block has fewer words than the
   split needs, and not the words of an exact fit. *)
LEMMA NoFit ==
  ASSUME IInv, NoWrap, NEW b \in Requests, ExactFit(b) = {}, SplitFit(b) = {},
         NEW a \in DOMAIN free_by_addr
  PROVE  free_by_addr[a] <= PayloadWords(b) + 1
<1>1. PICK p \in Nat \ {0} : /\ p = PayloadWords(b) /\ Narrow(PayloadWords(b)) = p
                             /\ Narrow(PayloadWords(b) + 2) = p + 2
  BY SizeFacts, NarrowSizes
<1>2. SUFFICES ASSUME ~(free_by_addr[a] <= PayloadWords(b) + 1) PROVE FALSE
  OBVIOUS
<1>3. free_by_addr[a] \in Nat /\ <<free_by_addr[a], a>> \in free_by_size
  BY DEF IInv, TypeOK, FreeListsAgree
<1>4. \A e \in free_by_size : e[1] \in Nat
  BY DEF IInv, TypeOK
<1> DEFINE wide == {e \in free_by_size : e[1] >= p + 2}
           sizes == {e[1] : e \in wide}
           R == {ss \in Nat \X Nat : ss[1] < ss[2]}
<1>5. sizes \in SUBSET Nat /\ sizes # {}
  <2>1. <<free_by_addr[a], a>> \in wide
    BY <1>1, <1>2, <1>3
  <2> QED
    BY <1>4, <2>1
<1>6. IsWellFoundedOn(R, Nat)
  BY NatLessThanWellFounded DEF OpToRel
<1>7. \A x \in Nat, y \in Nat : <<y, x>> \notin R => x <= y
  OBVIOUS
<1>8. PICK s \in sizes : \A y \in sizes : <<y, s>> \notin R
  <2> HIDE DEF sizes, R
  <2> QED
    BY <1>5, <1>6, WFMin
<1>9. \A y \in sizes : s <= y
  BY <1>5, <1>7, <1>8
<1>10. PICK e \in wide : e[1] = s
  BY <1>8
<1>11. \A f \in wide : e[1] <= f[1]
  BY <1>9, <1>10
<1>12. e \in SplitFit(b)
  BY <1>1, <1>10, <1>11 DEF SplitFit
<1> QED
  BY <1>12

(* A run of free words long enough for a request would begin below the top, in
   a free block; the word after that block is not free, not a free block's and
   not the top, for free blocks are Coalesced; so it is a live block's. *)
LEMMA Refused ==
  ASSUME AInv, NoWrap, Running, NEW b \in Requests, AllocateFresh(b), Overflowed(b)
  PROVE  Contract!Refuse(PayloadWords(b))
<1>1. IInv /\ Tiled
  BY DEF AInv, Accounting
<1>2. PICK p \in Nat \ {0} : p = PayloadWords(b)
  BY SizeFacts
<1>3. PICK t \in Nat : t = Top
  BY <1>1, BlockTypes
<1>4. ExactFit(b) = {} /\ SplitFit(b) = {}
  BY DEF AllocateFresh
<1>5. PICK last \in Int : last = HeapBytes \div 8 - 1 /\ last < t + p + 1
  <2>1. 8 * (t + p + 1) >= HeapBytes
    BY <1>2, <1>3 DEF Overflowed
  <2> QED
    BY <1>2, <1>3, <2>1, HeapAssumption
<1>6. ASSUME NEW a \in DynamicStart .. last, a + p + 2 <= last,
             \A w \in a .. a + p + 2 : Contract!Free(w)
      PROVE  FALSE
  <2>1. a \in Nat /\ DynamicStart <= a /\ DynamicStart \in Nat /\ a + 1 < t
    BY <1>2, <1>3, <1>5, <1>6, StartFacts
  <2>2. \A w \in a .. a + p + 2, x \in DOMAIN header :
          w \notin x .. x + PayloadWords(header[x])
    BY <1>6 DEF Contract!Free, Contract!Extent
  <2>3. PICK x \in Blocks : x <= a /\ a <= x + Payload(x)
    <3>1. a \in DynamicStart .. Top - 1
      BY <1>3, <2>1
    <3> QED
      BY <1>1, <3>1 DEF Tiled
  <2>4. x \in DOMAIN free_by_addr
    <3>1. ASSUME x \in DOMAIN header PROVE FALSE
      <4>1. x \in Nat /\ Payload(x) \in Nat /\ Payload(x) = PayloadWords(header[x])
        BY <1>1, <3>1, BlockTypes
      <4>2. a \in x .. x + PayloadWords(header[x]) /\ a \in a .. a + p + 2
        BY <1>2, <2>1, <2>3, <4>1
      <4> QED
        BY <2>2, <3>1, <4>2
    <3> QED
      BY <3>1 DEF Blocks
  <2>5. PICK s \in Nat : s = Payload(x) /\ s = free_by_addr[x]
    BY <1>1, <2>4, BlockTypes
  <2>6. s <= p + 1
    BY <1>1, <1>2, <1>4, <2>4, <2>5, NoFit
  <2>7. x \in Nat /\ x + s < t
    BY <1>1, <1>3, <2>5, BlockTypes DEF IInv, InHeap
  <2>8. PICK y \in Nat : y = x + s + 1
    BY <2>5, <2>7
  <2>9. y \in a .. a + p + 2 /\ a < y
    BY <1>2, <2>1, <2>3, <2>5, <2>6, <2>7, <2>8
  <2>10. y \notin DOMAIN free_by_addr /\ y # t
    BY <1>1, <1>3, <2>4, <2>5, <2>8 DEF IInv, Coalesced
  <2>11. y \in DynamicStart .. Top - 1
    BY <1>3, <2>1, <2>7, <2>8, <2>9, <2>10
  <2>12. PICK z \in Blocks : z <= y /\ y <= z + Payload(z)
    BY <1>1, <2>11 DEF Tiled
  <2>13. z \in Nat /\ Payload(z) \in Nat
    BY <1>1, BlockTypes
  <2>14. z = y
    <3>1. z < x => z + Payload(z) < x
      BY <1>1 DEF IInv, Disjoint
    <3>2. x < z => x + s < z
      BY <1>1, <2>5 DEF IInv, Disjoint
    <3>3. z # x
      <4>1. ASSUME z = x PROVE FALSE
        <5>1. y <= x + s
          BY <2>5, <2>12, <4>1
        <5> QED
          BY <2>7, <2>8, <5>1
      <4> QED
        BY <4>1
    <3> QED
      BY <2>5, <2>7, <2>8, <2>12, <2>13, <3>1, <3>2, <3>3
  <2>15. y \in DOMAIN header
    BY <2>10, <2>14 DEF Blocks
  <2>16. y \in y .. y + PayloadWords(header[y])
    BY <1>1, <2>15, BlockTypes
  <2> QED
    BY <2>2, <2>9, <2>15, <2>16
<1>7. \A a \in DynamicStart .. last :
        a + p + 2 <= last => \E w \in a .. a + p + 2 : ~Contract!Free(w)
  BY <1>6
<1>8. \A a \in DynamicStart .. last : a + (p + 2) = a + p + 2
  BY <1>2, StartFacts
<1> QED
  BY <1>2, <1>5, <1>7, <1>8 DEF Overflowed, Contract!Refuse, Contract!Extent, Running

LEMMA StepImplements ==
  ASSUME NoWrap, NoTuples, AInv, [Next]_vars
  PROVE  [Contract!ContractNext]_(Contract!contractVars)
<1>1. IInv /\ IInv'
  BY NextKeeps DEF AInv
<1>2. ASSUME NEW b \in Requests, Allocate(b)
      PROVE  Contract!Grant(PayloadWords(b)) \/ Contract!Refuse(PayloadWords(b))
  <2>1. Running /\ Tiled
    BY <1>2 DEF Allocate, AInv, Accounting
  <2>2. CASE Handed(b)
    BY <1>1, <2>1, <2>2, Granted
  <2>3. CASE ~Handed(b)
    <3>1. AllocateFresh(b)
      BY <1>1, <1>2, <2>1, <2>3, ExactTiles, SplitTiles DEF Allocate
    <3>2. Overflowed(b)
      BY <1>1, <2>1, <2>3, <3>1, FreshTiles
    <3> QED
      BY <2>1, <3>1, <3>2, Refused
  <2> QED
    BY <2>2, <2>3
<1>3. ASSUME NEW a \in DOMAIN header, Deallocate(a)
      PROVE  Contract!Release(a)
  <2>1. Running /\ fault' = fault /\ header' = Erase(header, {a})
    BY <1>3 DEF Deallocate
  <2>2. /\ DOMAIN header' = DOMAIN header \ {a}
        /\ \A x \in DOMAIN header' : header'[x] = header[x]
    BY <2>1 DEF Erase, Restrict
  <2> DEFINE live == [x \in DOMAIN header |-> PayloadWords(header[x])]
  <2>3. live' = [x \in DOMAIN live \ {a} |-> live[x]]
    BY <2>2
  <2> QED
    BY <2>1, <2>3 DEF Contract!Release, Running
<1>4. ASSUME NEW w \in StaticWords, AllocateStatic(w)
      PROVE  Contract!StaticRefuse \/ UNCHANGED Contract!contractVars
  <2>1. header' = header /\ Running /\ (fault' = "static overflow" \/ fault' = fault)
    BY <1>4 DEF AllocateStatic
  <2> QED
    BY <2>1 DEF Contract!StaticRefuse, Contract!contractVars, Running
<1>5. CASE \E b \in Requests : Allocate(b)
  BY <1>2, <1>5 DEF Contract!ContractNext
<1>6. CASE \E a \in DOMAIN header : Deallocate(a)
  BY <1>3, <1>6 DEF Contract!ContractNext
<1>7. CASE \E w \in StaticWords : AllocateStatic(w)
  BY <1>4, <1>7 DEF Contract!ContractNext
<1>8. CASE UNCHANGED vars
  BY <1>8 DEF vars, Contract!contractVars
<1> QED
  BY <1>5, <1>6, <1>7, <1>8 DEF Next

LEMMA InitImplements == Init => Contract!ContractInit
<1> SUFFICES ASSUME Init PROVE Contract!ContractInit
  OBVIOUS
<1>1. header = << >> /\ fault = "none" /\ DOMAIN header = {}
  BY DEF Init
<1>2. [a \in DOMAIN header |-> PayloadWords(header[a])] = << >>
  BY <1>1
<1> QED
  BY <1>1, <1>2 DEF Contract!ContractInit

(* The allocator is a heap without free lists to its callers: a block granted
   has no word of a live one, freeing it gives back exactly its words, and a
   request is refused only when no run of free words is long enough. *)
THEOREM Implementation == ASSUME NoWrap, NoTuples PROVE Spec => ImplementsContract
<1>1. Init => Contract!ContractInit
  BY InitImplements
<1>2. NoWrap /\ NoTuples /\ AInv /\ [Next]_vars
        => [Contract!ContractNext]_(Contract!contractVars)
  BY StepImplements
<1> QED
  BY <1>1, <1>2, AccountingInvariant, PTL
     DEF Spec, ImplementsContract, Contract!ContractSpec
=============================================================================
