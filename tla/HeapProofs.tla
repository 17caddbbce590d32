----------------------------- MODULE HeapProofs -----------------------------
(***************************************************************************)
(* The heap is correct for every arena, header size, split slack and set   *)
(* of requests.  The conjunction of the invariants is inductive; each step *)
(* lemma below handles the operations that change the list.                *)
(***************************************************************************)
EXTENDS Heap, TLAPS

IInv ==
  /\ TypeOK
  /\ ListCoversArena
  /\ OwnersMatchBlocks
  /\ GrantsAreSnug
  /\ WalkSkipsNothing

(* What TypeOK says of one block and of one held pointer.                  *)
LEMMA BlockType ==
  ASSUME TypeOK, NEW b \in DOMAIN heap
  PROVE  /\ b \in Nat
         /\ b >= HeapStart
         /\ b < HeapEnd
         /\ heap[b].size \in Nat
         /\ heap[b].is_free \in BOOLEAN
         /\ heap[b].next \in Nat
         /\ EndOf(b) \in Nat
         /\ EndOf(b) > b
<1>1. heap[b] \in MemoryBlock
  BY DEF TypeOK
<1>2. b \in HeapStart .. HeapEnd - 1
  BY DEF TypeOK
<1> QED
  BY <1>1, <1>2, HeapAssumption DEF MemoryBlock, EndOf, HeapEnd

(* InitHeap establishes the invariant.                                     *)
LEMMA InitIInv == Init => IInv
<1> SUFFICES ASSUME Init PROVE IInv
  OBVIOUS
<1> USE HeapAssumption DEF Init, NULL
<1>1. DOMAIN heap = {HeapStart} /\ DOMAIN owned = {}
  OBVIOUS
<1>2. heap[HeapStart] = [size |-> HeapSize - HeaderSize, is_free |-> TRUE, next |-> NULL]
  OBVIOUS
<1>3. TypeOK
  BY <1>1, <1>2 DEF TypeOK, HeapEnd, MemoryBlock
<1>4. ListCoversArena
  BY <1>1, <1>2 DEF ListCoversArena, EndOf, HeapEnd
<1>5. OwnersMatchBlocks /\ GrantsAreSnug /\ WalkSkipsNothing
  BY <1>1, <1>2 DEF OwnersMatchBlocks, GrantsAreSnug, WalkSkipsNothing
<1> QED
  BY <1>3, <1>4, <1>5 DEF IInv

(* A call starts its walk at the lowest block, so it has passed over none. *)
LEMMA CallKeepsIInv ==
  ASSUME IInv, NEW n \in Requests, MallocCall(n)
  PROVE  IInv'
<1> USE DEF MallocCall, IInv
<1>1. TypeOK'
  BY HeapAssumption DEF TypeOK
<1>2. ListCoversArena' /\ OwnersMatchBlocks' /\ GrantsAreSnug'
  BY DEF ListCoversArena, OwnersMatchBlocks, GrantsAreSnug, EndOf
<1>3. WalkSkipsNothing'
  <2>1. \A b \in DOMAIN heap : ~(b < HeapStart)
    BY BlockType, HeapAssumption
  <2> QED
    BY <2>1, HeapAssumption DEF WalkSkipsNothing, ListCoversArena, NULL
<1> QED
  BY <1>1, <1>2, <1>3

(* The walk moves on from a block that does not fit; what lies between it  *)
(* and its successor is no block.                                          *)
LEMMA WalkKeepsIInv ==
  ASSUME IInv, MallocWalk
  PROVE  IInv'
<1> USE DEF MallocWalk, IInv
<1>1. current \in DOMAIN heap
  BY DEF WalkSkipsNothing
<1>2. TypeOK'
  BY <1>1, BlockType DEF TypeOK
<1>3. ListCoversArena' /\ OwnersMatchBlocks' /\ GrantsAreSnug'
  BY DEF ListCoversArena, OwnersMatchBlocks, GrantsAreSnug, EndOf
<1>4. heap[current].next # NULL => heap[current].next \in DOMAIN heap
  BY <1>1 DEF ListCoversArena
<1>5. ASSUME NEW b \in DOMAIN heap,
             heap[current].next = NULL \/ b < heap[current].next
      PROVE  b <= current
  <2>1. CASE b > current
    <3>1. EndOf(current) <= b
      BY <1>1, <2>1 DEF ListCoversArena
    <3>2. EndOf(current) = HeapEnd \/ EndOf(current) = heap[current].next
      BY <1>1 DEF ListCoversArena
    <3>3. heap[current].next = NULL => EndOf(current) = HeapEnd
      BY <1>1, <3>2, BlockType, HeapAssumption DEF NULL
    <3> QED
      BY <1>1, <1>5, <3>1, <3>2, <3>3, BlockType
  <2> QED
    BY <1>1, <2>1, BlockType
<1>6. WalkSkipsNothing'
  <2> SUFFICES ASSUME NEW b \in DOMAIN heap,
                      heap[current].next = NULL \/ b < heap[current].next
               PROVE  ~Fits(b)
    BY <1>4 DEF WalkSkipsNothing, Fits
  <2> QED
    BY <1>1, <1>5, BlockType DEF WalkSkipsNothing
<1> QED
  BY <1>2, <1>3, <1>6

(* What the two ways to serve a call have in common: the chosen block b is *)
(* marked used, and everything at lower addresses is as it was.            *)
LEMMA SplitKeepsIInv ==
  ASSUME IInv, MallocSplit
  PROVE  IInv'
<1> USE DEF IInv
<1> DEFINE new == current + HeaderSize + wanted
           old == heap[current]
           After(b) == b + HeaderSize + heap'[b].size
<1>1. /\ current \in DOMAIN heap
      /\ wanted \in Nat \ {0}
      /\ old.is_free
      /\ old.size > wanted + HeaderSize + SplitSlack
  BY HeapAssumption DEF MallocSplit, WalkSkipsNothing, Fits, Splits, TypeOK
<1>2. /\ current \in Nat /\ current >= HeapStart /\ current < HeapEnd
      /\ old.size \in Nat /\ old.next \in Nat
      /\ EndOf(current) = current + HeaderSize + old.size
      /\ EndOf(current) <= HeapEnd
      /\ HeapEnd \in Nat
  <2>1. EndOf(current) <= HeapEnd
    <3>1. CASE old.next = NULL /\ EndOf(current) = HeapEnd
      BY <3>1, <1>1, BlockType, HeapAssumption DEF HeapEnd
    <3>2. CASE old.next \in DOMAIN heap /\ old.next = EndOf(current)
      BY <3>2, <1>1, BlockType, HeapAssumption DEF HeapEnd
    <3> QED
      BY <1>1, <3>1, <3>2 DEF ListCoversArena
  <2> QED
    BY <1>1, <2>1, BlockType, HeapAssumption DEF EndOf, HeapEnd
<1>3. /\ new \in Nat
      /\ new > current
      /\ new + HeaderSize < EndOf(current)
      /\ new < HeapEnd
      /\ new # NULL
  BY <1>1, <1>2, HeapAssumption DEF NULL
<1>4. new \notin DOMAIN heap
  BY <1>1, <1>2, <1>3, BlockType, HeapAssumption DEF ListCoversArena
<1>5. /\ DOMAIN heap' = DOMAIN heap \cup {new}
      /\ heap'[current] = [size |-> wanted, is_free |-> FALSE, next |-> new]
      /\ heap'[new] = [size    |-> old.size - wanted - HeaderSize,
                       is_free |-> TRUE,
                       next    |-> old.next]
      /\ \A b \in DOMAIN heap \ {current} : heap'[b] = heap[b]
      /\ heap' = [b \in DOMAIN heap' |-> heap'[b]]
  BY <1>1, <1>2, <1>3, <1>4 DEF MallocSplit, NewBlock
<1>6. /\ DOMAIN owned' = DOMAIN owned \cup {current + HeaderSize}
      /\ owned'[current + HeaderSize] = wanted
      /\ \A p \in DOMAIN owned \ {current + HeaderSize} : owned'[p] = owned[p]
      /\ owned' = [p \in DOMAIN owned' |-> owned'[p]]
      /\ wanted' = 0 /\ current' = NULL
  BY DEF MallocSplit, Return
<1>7. /\ After(current) = new
      /\ After(new) = EndOf(current)
      /\ \A b \in DOMAIN heap \ {current} : After(b) = EndOf(b)
  BY <1>1, <1>2, <1>3, <1>5, HeapAssumption DEF EndOf
<1> HIDE DEF new, old, After
<1>8. TypeOK'
  <2>1. DOMAIN heap' \subseteq HeapStart .. HeapEnd - 1
    BY <1>2, <1>3, <1>5, HeapAssumption DEF TypeOK, HeapEnd
  <2>2. \A b \in DOMAIN heap' : heap'[b] \in MemoryBlock
    <3>1. heap'[new] \in MemoryBlock
      BY <1>1, <1>2, <1>5, HeapAssumption DEF MemoryBlock
    <3>2. heap'[current] \in MemoryBlock
      BY <1>1, <1>3, <1>5 DEF MemoryBlock
    <3> QED
      BY <1>5, <3>1, <3>2 DEF TypeOK
  <2>3. DOMAIN owned' \subseteq HeapStart .. HeapEnd
    BY <1>1, <1>2, <1>6, HeapAssumption DEF TypeOK, HeapEnd
  <2>4. \A p \in DOMAIN owned' : owned'[p] \in Nat \ {0}
    BY <1>1, <1>6 DEF TypeOK
  <2> QED
    BY <1>5, <1>6, <2>1, <2>2, <2>3, <2>4 DEF TypeOK, NULL
<1>9. ListCoversArena'
  <2>1. (HeapStart \in DOMAIN heap)'
    BY <1>5 DEF ListCoversArena
  <2>2. ASSUME NEW b \in DOMAIN heap'
        PROVE  \/ heap'[b].next = NULL /\ After(b) = HeapEnd
               \/ heap'[b].next \in DOMAIN heap' /\ heap'[b].next = After(b)
    <3>1. CASE b = current
      BY <3>1, <1>3, <1>5, <1>7
    <3>2. CASE b = new
      BY <3>2, <1>1, <1>5, <1>7 DEF ListCoversArena, old
    <3>3. CASE b \in DOMAIN heap \ {current}
      BY <3>3, <1>5, <1>7 DEF ListCoversArena
    <3> QED
      BY <1>5, <3>1, <3>2, <3>3
  <2>3. ASSUME NEW b \in DOMAIN heap', NEW c \in DOMAIN heap', b < c
        PROVE  After(b) <= c
    <3>1. \A d \in DOMAIN heap : EndOf(d) \in Nat /\ d \in Nat
      BY BlockType
    <3>2. CASE b = new
      <4>1. c \in DOMAIN heap /\ current < c
        BY <3>2, <3>1, <1>2, <1>3, <1>5, <2>3
      <4> QED
        BY <3>2, <4>1, <1>1, <1>7 DEF ListCoversArena
    <3>3. CASE b # new /\ c = new
      <4>1. CASE b = current
        BY <3>3, <4>1, <1>3, <1>7
      <4>2. CASE b # current
        <5>1. b \in DOMAIN heap /\ b < current
          <6>1. b \in DOMAIN heap
            BY <3>3, <1>5
          <6>2. ~(current < b)
            <7>1. current < b => EndOf(current) <= b
              BY <6>1, <1>1 DEF ListCoversArena
            <7> QED
              BY <6>1, <7>1, <3>1, <3>3, <2>3, <1>1, <1>2, <1>3, HeapAssumption
          <6> QED
            BY <6>1, <6>2, <3>1, <4>2, <1>2
        <5>2. EndOf(b) <= current
          BY <5>1, <1>1 DEF ListCoversArena
        <5> QED
          BY <5>1, <5>2, <4>2, <3>1, <3>3, <1>2, <1>3, <1>7
      <4> QED
        BY <4>1, <4>2
    <3>4. CASE b # new /\ c # new
      <4>1. b \in DOMAIN heap /\ c \in DOMAIN heap
        BY <3>4, <1>5
      <4>2. EndOf(b) <= c
        BY <4>1, <2>3 DEF ListCoversArena
      <4>3. CASE b = current
        BY <4>1, <4>2, <4>3, <3>1, <1>2, <1>3, <1>7, HeapAssumption
      <4>4. CASE b # current
        BY <4>1, <4>2, <4>4, <1>7
      <4> QED
        BY <4>3, <4>4
    <3> QED
      BY <3>2, <3>3, <3>4
  <2> QED
    BY <2>1, <2>2, <2>3 DEF ListCoversArena, EndOf, After
<1>10. OwnersMatchBlocks'
  <2>1. new + HeaderSize \notin DOMAIN owned'
    <3>1. new + HeaderSize # current + HeaderSize
      BY <1>2, <1>3, HeapAssumption
    <3>2. new + HeaderSize \notin DOMAIN owned
      <4>1. (new + HeaderSize) - HeaderSize = new
        BY <1>3, HeapAssumption
      <4> QED
        BY <4>1, <1>4 DEF OwnersMatchBlocks
    <3> QED
      BY <3>1, <3>2, <1>6
  <2>2. \A b \in DOMAIN heap \ {current} : b + HeaderSize # current + HeaderSize
    BY <1>2, BlockType, HeapAssumption
  <2>3. (current + HeaderSize) - HeaderSize = current
    BY <1>2, HeapAssumption
  <2>4. \A b \in DOMAIN heap' : heap'[b].is_free <=> b + HeaderSize \notin DOMAIN owned'
    BY <1>5, <1>6, <2>1, <2>2 DEF OwnersMatchBlocks
  <2>5. \A p \in DOMAIN owned' : p - HeaderSize \in DOMAIN heap'
    BY <1>1, <1>5, <1>6, <2>3 DEF OwnersMatchBlocks
  <2> QED
    BY <2>4, <2>5 DEF OwnersMatchBlocks
<1>11. GrantsAreSnug'
  <2> SUFFICES ASSUME NEW p \in DOMAIN owned'
               PROVE  heap'[p - HeaderSize].size
                        \in owned'[p] .. owned'[p] + HeaderSize + SplitSlack
    BY DEF GrantsAreSnug
  <2>1. CASE p = current + HeaderSize
    <3>1. p - HeaderSize = current
      BY <2>1, <1>2, HeapAssumption
    <3> QED
      BY <2>1, <3>1, <1>1, <1>5, <1>6, HeapAssumption
  <2>2. CASE p # current + HeaderSize
    <3>1. p \in DOMAIN owned /\ owned'[p] = owned[p]
      BY <2>2, <1>6
    <3>2. p \in Nat
      BY <3>1, HeapAssumption DEF TypeOK, HeapEnd
    <3>3. p - HeaderSize \in DOMAIN heap \ {current}
      BY <2>2, <3>1, <3>2, <1>2, HeapAssumption DEF OwnersMatchBlocks
    <3> QED
      BY <3>1, <3>3, <1>5 DEF GrantsAreSnug
  <2> QED
    BY <2>1, <2>2
<1>12. WalkSkipsNothing'
  BY <1>6 DEF WalkSkipsNothing
<1> QED
  BY <1>8, <1>9, <1>10, <1>11, <1>12

(* A block handed out whole keeps its size: only its mark changes.         *)
LEMMA WholeKeepsIInv ==
  ASSUME IInv, MallocWhole
  PROVE  IInv'
<1> USE DEF IInv
<1> DEFINE After(b) == b + HeaderSize + heap'[b].size
<1>1. /\ current \in DOMAIN heap
      /\ wanted \in Nat \ {0}
      /\ heap[current].is_free
      /\ heap[current].size >= wanted
      /\ ~Splits(current)
  BY HeapAssumption DEF MallocWhole, WalkSkipsNothing, Fits, TypeOK
<1>2. current \in Nat /\ current >= HeapStart /\ heap[current].size \in Nat
  BY <1>1, BlockType
<1>3. heap[current].size <= wanted + HeaderSize + SplitSlack
  BY <1>1, <1>2, HeapAssumption DEF Splits
<1>4. /\ DOMAIN heap' = DOMAIN heap
      /\ ~heap'[current].is_free
      /\ \A b \in DOMAIN heap \ {current} : heap'[b] = heap[b]
      /\ \A b \in DOMAIN heap :
           /\ heap'[b].size = heap[b].size
           /\ heap'[b].next = heap[b].next
           /\ After(b) = EndOf(b)
           /\ heap'[b] \in MemoryBlock
      /\ heap' = [b \in DOMAIN heap' |-> heap'[b]]
  <2>1. heap' = [heap EXCEPT ![current].is_free = FALSE]
    BY DEF MallocWhole
  <2>2. \A b \in DOMAIN heap : heap[b] \in MemoryBlock
    BY DEF TypeOK
  <2>3. heap'[current] = [heap[current] EXCEPT !.is_free = FALSE]
    BY <2>1, <1>1 DEF TypeOK
  <2> QED
    BY <2>1, <2>2, <2>3, <1>1 DEF MemoryBlock, EndOf, TypeOK
<1>5. /\ DOMAIN owned' = DOMAIN owned \cup {current + HeaderSize}
      /\ owned'[current + HeaderSize] = wanted
      /\ \A p \in DOMAIN owned \ {current + HeaderSize} : owned'[p] = owned[p]
      /\ owned' = [p \in DOMAIN owned' |-> owned'[p]]
      /\ wanted' = 0 /\ current' = NULL
  BY DEF MallocWhole, Return
<1> HIDE DEF After
<1>6. current + HeaderSize \in HeapStart .. HeapEnd
  <2>1. EndOf(current) <= HeapEnd
    <3>1. CASE heap[current].next = NULL /\ EndOf(current) = HeapEnd
      BY <3>1, HeapAssumption DEF HeapEnd
    <3>2. CASE heap[current].next \in DOMAIN heap /\ heap[current].next = EndOf(current)
      BY <3>2, <1>1, BlockType, HeapAssumption DEF HeapEnd
    <3> QED
      BY <1>1, <3>1, <3>2 DEF ListCoversArena
  <2> QED
    BY <2>1, <1>2, HeapAssumption DEF EndOf, HeapEnd
<1>7. TypeOK'
  <2>1. \A p \in DOMAIN owned' : owned'[p] \in Nat \ {0}
    BY <1>1, <1>5 DEF TypeOK
  <2>2. DOMAIN owned' \subseteq HeapStart .. HeapEnd
    BY <1>5, <1>6 DEF TypeOK
  <2> QED
    BY <1>4, <1>5, <2>1, <2>2 DEF TypeOK, NULL
<1>8. ListCoversArena'
  <2>1. \A b \in DOMAIN heap' :
          \/ heap'[b].next = NULL /\ After(b) = HeapEnd
          \/ heap'[b].next \in DOMAIN heap' /\ heap'[b].next = After(b)
    BY <1>4 DEF ListCoversArena
  <2>2. \A b, c \in DOMAIN heap' : b < c => After(b) <= c
    BY <1>4 DEF ListCoversArena
  <2>3. HeapStart \in DOMAIN heap'
    BY <1>4 DEF ListCoversArena
  <2> QED
    BY <2>1, <2>2, <2>3 DEF ListCoversArena, EndOf, After
<1>9. OwnersMatchBlocks'
  <2>1. \A b \in DOMAIN heap \ {current} : b + HeaderSize # current + HeaderSize
    BY <1>2, BlockType, HeapAssumption
  <2>2. (current + HeaderSize) - HeaderSize = current
    BY <1>2, HeapAssumption
  <2>3. \A b \in DOMAIN heap' : heap'[b].is_free <=> b + HeaderSize \notin DOMAIN owned'
    BY <1>4, <1>5, <2>1 DEF OwnersMatchBlocks
  <2>4. \A p \in DOMAIN owned' : p - HeaderSize \in DOMAIN heap'
    BY <1>1, <1>4, <1>5, <2>2 DEF OwnersMatchBlocks
  <2> QED
    BY <2>3, <2>4 DEF OwnersMatchBlocks
<1>10. GrantsAreSnug'
  <2> SUFFICES ASSUME NEW p \in DOMAIN owned'
               PROVE  heap'[p - HeaderSize].size
                        \in owned'[p] .. owned'[p] + HeaderSize + SplitSlack
    BY DEF GrantsAreSnug
  <2>1. CASE p = current + HeaderSize
    <3>1. p - HeaderSize = current
      BY <2>1, <1>2, HeapAssumption
    <3> QED
      BY <2>1, <3>1, <1>1, <1>2, <1>3, <1>4, <1>5, HeapAssumption
  <2>2. CASE p # current + HeaderSize
    <3>1. p \in DOMAIN owned /\ owned'[p] = owned[p]
      BY <2>2, <1>5
    <3>2. p - HeaderSize \in DOMAIN heap
      BY <3>1 DEF OwnersMatchBlocks
    <3> QED
      BY <3>1, <3>2, <1>4 DEF GrantsAreSnug
  <2> QED
    BY <2>1, <2>2
<1>11. WalkSkipsNothing'
  BY <1>5 DEF WalkSkipsNothing
<1> QED
  BY <1>7, <1>8, <1>9, <1>10, <1>11

(* malloc returns NULL: the call is over and nothing else changed.         *)
LEMMA FailKeepsIInv ==
  ASSUME IInv, MallocFail
  PROVE  IInv'
<1> USE DEF MallocFail, IInv
<1>1. TypeOK'
  BY DEF TypeOK
<1>2. ListCoversArena' /\ OwnersMatchBlocks' /\ GrantsAreSnug'
  BY DEF ListCoversArena, OwnersMatchBlocks, GrantsAreSnug, EndOf
<1>3. WalkSkipsNothing'
  BY DEF WalkSkipsNothing
<1> QED
  BY <1>1, <1>2, <1>3

(* What free(p) does to the list: `block` keeps its place, takes in its    *)
(* free successor if it has one, and every other block is untouched.       *)
LEMMA FreeEffect ==
  ASSUME IInv, NEW p \in DOMAIN owned, Free(p), NEW block, block = p - HeaderSize
  PROVE  /\ block \in DOMAIN heap
         /\ p = block + HeaderSize
         /\ ~heap[block].is_free
         /\ DOMAIN heap' = IF Coalesces(block) THEN DOMAIN heap \ {heap[block].next}
                                               ELSE DOMAIN heap
         /\ block \in DOMAIN heap'
         /\ heap'[block].is_free
         /\ heap'[block] \in MemoryBlock
         /\ \A b \in DOMAIN heap' \ {block} : heap'[b] = heap[b]
         /\ heap' = [b \in DOMAIN heap' |-> heap'[b]]
         /\ Coalesces(block) =>
              /\ heap[block].next \in DOMAIN heap
              /\ heap[block].next = EndOf(block)
              /\ heap[block].next > block
              /\ heap'[block].next = heap[heap[block].next].next
              /\ block + HeaderSize + heap'[block].size = EndOf(heap[block].next)
         /\ ~Coalesces(block) =>
              /\ heap'[block].next = heap[block].next
              /\ heap'[block].size = heap[block].size
<1> USE DEF IInv
<1>1. block \in DOMAIN heap /\ p \in Nat /\ p = block + HeaderSize
  BY HeapAssumption DEF OwnersMatchBlocks, TypeOK, HeapEnd
<1>2. ~heap[block].is_free
  BY <1>1 DEF OwnersMatchBlocks
<1>3. heap[block] \in MemoryBlock /\ block \in Nat /\ EndOf(block) > block
  BY <1>1, BlockType DEF TypeOK
<1>4. CASE Coalesces(block)
  <2> DEFINE succ == heap[block].next
  <2>1. succ \in DOMAIN heap /\ succ = EndOf(block) /\ succ # block
    BY <1>1, <1>3, <1>4 DEF Coalesces, ListCoversArena
  <2>2. heap[succ] \in MemoryBlock /\ succ \in Nat
    BY <2>1, BlockType DEF TypeOK
  <2>3. /\ DOMAIN heap' = DOMAIN heap \ {succ}
        /\ heap'[block] = Merged(block)
        /\ \A b \in DOMAIN heap' \ {block} : heap'[b] = heap[b]
        /\ heap' = [b \in DOMAIN heap' |-> heap'[b]]
    BY <1>1, <1>4, <2>1 DEF Free
  <2>4. /\ Merged(block) \in MemoryBlock
        /\ Merged(block).is_free
        /\ Merged(block).next = heap[succ].next
        /\ Merged(block).size = heap[block].size + HeaderSize + heap[succ].size
    BY <1>3, <2>2, HeapAssumption DEF Merged, MemoryBlock
  <2>5. block + HeaderSize + heap'[block].size = EndOf(succ)
    BY <1>3, <2>1, <2>2, <2>3, <2>4, HeapAssumption DEF EndOf, MemoryBlock
  <2> QED
    BY <1>1, <1>2, <1>3, <1>4, <2>1, <2>3, <2>4, <2>5
<1>5. CASE ~Coalesces(block)
  <2>1. heap' = [heap EXCEPT ![block].is_free = TRUE]
    BY <1>1, <1>5 DEF Free
  <2>2. heap'[block] = [heap[block] EXCEPT !.is_free = TRUE]
    BY <1>1, <2>1 DEF TypeOK
  <2> QED
    BY <1>1, <1>2, <1>3, <1>5, <2>1, <2>2 DEF TypeOK, MemoryBlock
<1> QED
  BY <1>4, <1>5

(* free(p) keeps the invariant, merging or not.                            *)
LEMMA FreeKeepsIInv ==
  ASSUME IInv, NEW p \in DOMAIN owned, Free(p)
  PROVE  IInv'
<1> USE DEF IInv
<1> DEFINE After(b) == b + HeaderSize + heap'[b].size
<1>1. PICK block : block = p - HeaderSize
  OBVIOUS
<1>2. /\ block \in DOMAIN heap
      /\ p = block + HeaderSize
      /\ ~heap[block].is_free
      /\ DOMAIN heap' = IF Coalesces(block) THEN DOMAIN heap \ {heap[block].next}
                                            ELSE DOMAIN heap
      /\ block \in DOMAIN heap'
      /\ heap'[block].is_free
      /\ heap'[block] \in MemoryBlock
      /\ \A b \in DOMAIN heap' \ {block} : heap'[b] = heap[b]
      /\ heap' = [b \in DOMAIN heap' |-> heap'[b]]
  BY <1>1, FreeEffect
<1>3. Coalesces(block) =>
        /\ heap[block].next \in DOMAIN heap
        /\ heap[block].next = EndOf(block)
        /\ heap[block].next > block
        /\ heap'[block].next = heap[heap[block].next].next
        /\ After(block) = EndOf(heap[block].next)
  BY <1>1, FreeEffect
<1>4. ~Coalesces(block) =>
        /\ heap'[block].next = heap[block].next
        /\ heap'[block].size = heap[block].size
        /\ After(block) = EndOf(block)
  BY <1>1, FreeEffect DEF EndOf
<1>5. \A b \in DOMAIN heap' \ {block} : After(b) = EndOf(b)
  BY <1>2 DEF EndOf
<1> HIDE DEF After
<1>6. /\ wanted = 0 /\ wanted' = 0 /\ current' = current
      /\ DOMAIN owned' = DOMAIN owned \ {p}
      /\ \A q \in DOMAIN owned' : owned'[q] = owned[q]
      /\ owned' = [q \in DOMAIN owned' |-> owned'[q]]
  BY DEF Free
<1>7. DOMAIN heap' \subseteq DOMAIN heap
  BY <1>2
<1>8. TypeOK'
  <2>1. \A b \in DOMAIN heap' : heap'[b] \in MemoryBlock
    BY <1>2, <1>7 DEF TypeOK
  <2>2. \A q \in DOMAIN owned' : owned'[q] \in Nat \ {0}
    BY <1>6 DEF TypeOK
  <2> QED
    BY <1>2, <1>6, <1>7, <2>1, <2>2 DEF TypeOK
<1>9. ListCoversArena'
  <2>1. HeapStart \in DOMAIN heap'
    BY <1>2, <1>3, BlockType DEF ListCoversArena
  <2>2. ASSUME NEW b \in DOMAIN heap'
        PROVE  \/ heap'[b].next = NULL /\ After(b) = HeapEnd
               \/ heap'[b].next \in DOMAIN heap' /\ heap'[b].next = After(b)
    <3>1. CASE b = block /\ Coalesces(block)
      <4> DEFINE succ == heap[block].next
      <4>1. \/ heap[succ].next = NULL /\ EndOf(succ) = HeapEnd
            \/ heap[succ].next \in DOMAIN heap /\ heap[succ].next = EndOf(succ)
        BY <1>3, <3>1 DEF ListCoversArena
      <4>2. EndOf(succ) # succ
        BY <1>3, <3>1, BlockType
      <4> QED
        BY <4>1, <4>2, <3>1, <1>2, <1>3
    <3>2. CASE b = block /\ ~Coalesces(block)
      BY <3>2, <1>2, <1>4 DEF ListCoversArena
    <3>3. CASE b # block /\ Coalesces(block)
      <4>1. \/ heap[b].next = NULL /\ EndOf(b) = HeapEnd
            \/ heap[b].next \in DOMAIN heap /\ heap[b].next = EndOf(b)
        BY <1>7 DEF ListCoversArena
      <4>2. EndOf(b) # heap[block].next
        <5>1. /\ b \in DOMAIN heap /\ b \in Nat /\ block \in Nat
              /\ EndOf(b) \in Nat /\ EndOf(block) \in Nat
              /\ EndOf(b) > b /\ EndOf(block) > block
          BY <1>2, <1>7, BlockType
        <5>2. b < block \/ block < b
          BY <5>1, <3>3
        <5>3. (b < block => EndOf(b) <= block) /\ (block < b => EndOf(block) <= b)
          BY <5>1, <1>2 DEF ListCoversArena
        <5> QED
          BY <5>1, <5>2, <5>3, <1>3, <3>3
      <4> QED
        BY <4>1, <4>2, <3>3, <1>2, <1>5
    <3>4. CASE b # block /\ ~Coalesces(block)
      BY <3>4, <1>2, <1>5 DEF ListCoversArena
    <3> QED
      BY <3>1, <3>2, <3>3, <3>4
  <2>3. ASSUME NEW b \in DOMAIN heap', NEW c \in DOMAIN heap', b < c
        PROVE  After(b) <= c
    <3>1. b \in DOMAIN heap /\ c \in DOMAIN heap /\ EndOf(b) <= c
      BY <1>7, <2>3 DEF ListCoversArena
    <3>2. CASE b = block /\ Coalesces(block)
      <4> DEFINE succ == heap[block].next
      <4>1. succ \in DOMAIN heap /\ c # succ /\ succ <= c
        BY <3>1, <3>2, <1>2, <1>3
      <4>2. succ < c
        BY <4>1, <3>1, BlockType
      <4>3. EndOf(succ) <= c
        BY <4>1, <4>2, <3>1 DEF ListCoversArena
      <4> QED
        BY <4>3, <3>2, <1>3
    <3>3. CASE b = block /\ ~Coalesces(block)
      BY <3>1, <3>3, <1>4
    <3>4. CASE b # block
      BY <3>1, <3>4, <1>5
    <3> QED
      BY <3>2, <3>3, <3>4
  <2> QED
    BY <2>1, <2>2, <2>3 DEF ListCoversArena, EndOf, After
<1>10. OwnersMatchBlocks'
  <2>1. ASSUME NEW b \in DOMAIN heap'
        PROVE  heap'[b].is_free <=> b + HeaderSize \notin DOMAIN owned'
    <3>1. CASE b = block
      BY <3>1, <1>2, <1>6
    <3>2. CASE b # block
      <4>1. b + HeaderSize # p
        BY <3>2, <1>2, <1>7, BlockType, HeapAssumption
      <4> QED
        BY <3>2, <4>1, <1>2, <1>6, <1>7 DEF OwnersMatchBlocks
    <3> QED
      BY <3>1, <3>2
  <2>2. ASSUME NEW q \in DOMAIN owned'
        PROVE  q - HeaderSize \in DOMAIN heap'
    <3>1. q \in DOMAIN owned /\ q - HeaderSize \in DOMAIN heap /\ q \in Nat
      BY <1>6, HeapAssumption DEF OwnersMatchBlocks, TypeOK, HeapEnd
    <3>2. Coalesces(block) => q - HeaderSize # heap[block].next
      <4>1. (q - HeaderSize) + HeaderSize = q
        BY <3>1, HeapAssumption
      <4>2. ~heap[q - HeaderSize].is_free
        BY <3>1, <4>1 DEF OwnersMatchBlocks
      <4> QED
        BY <4>2 DEF Coalesces
    <3> QED
      BY <3>1, <3>2, <1>2
  <2> QED
    BY <2>1, <2>2 DEF OwnersMatchBlocks
<1>11. GrantsAreSnug'
  <2> SUFFICES ASSUME NEW q \in DOMAIN owned', q - HeaderSize \in DOMAIN heap'
               PROVE  heap'[q - HeaderSize].size
                        \in owned'[q] .. owned'[q] + HeaderSize + SplitSlack
    BY DEF GrantsAreSnug
  <2>1. q \in DOMAIN owned /\ q # p /\ q \in Nat /\ p \in Nat
    BY <1>6, HeapAssumption DEF TypeOK, HeapEnd
  <2>2. q - HeaderSize # block
    BY <2>1, <1>1, HeapAssumption
  <2> QED
    BY <2>1, <2>2, <1>2, <1>6, <1>7 DEF GrantsAreSnug
<1>12. WalkSkipsNothing'
  BY <1>6 DEF WalkSkipsNothing
<1> QED
  BY <1>8, <1>9, <1>10, <1>11, <1>12

LEMMA NextKeepsIInv == IInv /\ [Next]_vars => IInv'
<1> SUFFICES ASSUME IInv, [Next]_vars PROVE IInv'
  OBVIOUS
<1>1. CASE \E n \in Requests : MallocCall(n)
  BY <1>1, CallKeepsIInv
<1>2. CASE Malloc
  BY <1>2, WalkKeepsIInv, SplitKeepsIInv, WholeKeepsIInv, FailKeepsIInv DEF Malloc
<1>3. CASE \E p \in DOMAIN owned : Free(p)
  BY <1>3, FreeKeepsIInv
<1>4. CASE UNCHANGED vars
  BY <1>4 DEF vars, IInv, TypeOK, ListCoversArena, OwnersMatchBlocks,
              GrantsAreSnug, WalkSkipsNothing, EndOf, Fits
<1> QED
  BY <1>1, <1>2, <1>3, <1>4 DEF Next

(* The inductive invariant holds in every state of the heap.               *)
THEOREM HeapInvariant == Spec => []IInv
  BY InitIInv, NextKeepsIInv, PTL DEF Spec

(* Headers stay inside the arena with sizes that never go negative.        *)
THEOREM HeapTypeCorrect == Spec => []TypeOK
<1>1. IInv => TypeOK
  BY DEF IInv
<1> QED
  BY <1>1, HeapInvariant, PTL

(* Splitting and merging never lose or share a byte of the arena.          *)
THEOREM HeapCoversArena == Spec => []ListCoversArena
<1>1. IInv => ListCoversArena
  BY DEF IInv
<1> QED
  BY <1>1, HeapInvariant, PTL

(* The used blocks are exactly those clients hold.                         *)
THEOREM HeapOwnersMatch == Spec => []OwnersMatchBlocks
<1>1. IInv => OwnersMatchBlocks
  BY DEF IInv
<1> QED
  BY <1>1, HeapInvariant, PTL

(* A client gets at least what it asked for, and waste inside a block is   *)
(* at most HeaderSize + SplitSlack.                                        *)
THEOREM HeapGrantsSnug == Spec => []GrantsAreSnug
<1>1. IInv => GrantsAreSnug
  BY DEF IInv
<1> QED
  BY <1>1, HeapInvariant, PTL

(* malloc is first fit, and returns NULL only when no block fits.          *)
THEOREM HeapFirstFit == Spec => []WalkSkipsNothing
<1>1. IInv => WalkSkipsNothing
  BY DEF IInv
<1> QED
  BY <1>1, HeapInvariant, PTL

(* A used or free block lies inside the arena.                             *)
LEMMA BlockInArena ==
  ASSUME TypeOK, ListCoversArena, NEW b \in DOMAIN heap
  PROVE  EndOf(b) <= HeapEnd
<1>1. CASE heap[b].next = NULL /\ EndOf(b) = HeapEnd
  BY <1>1, HeapAssumption DEF HeapEnd
<1>2. CASE heap[b].next \in DOMAIN heap /\ heap[b].next = EndOf(b)
  BY <1>2, BlockType, HeapAssumption DEF HeapEnd
<1> QED
  BY <1>1, <1>2 DEF ListCoversArena

(* Serving a call is a Grant of the contract: the payload of a fitting     *)
(* block is inside the arena and apart from everything clients hold.       *)
LEMMA ReturnGrants ==
  ASSUME IInv, wanted # 0, current # NULL, Fits(current), Return(current)
  PROVE  Contract!Next
<1> USE DEF IInv
<1> DEFINE p == current + HeaderSize
<1>1. current \in DOMAIN heap /\ wanted \in Requests /\ wanted \in Nat \ {0}
  BY HeapAssumption DEF WalkSkipsNothing, TypeOK
<1>2. /\ current \in Nat /\ current >= HeapStart /\ EndOf(current) <= HeapEnd
      /\ heap[current].size \in Nat /\ heap[current].size >= wanted
      /\ EndOf(current) = p + heap[current].size
      /\ EndOf(current) \in Nat
  BY <1>1, BlockType, BlockInArena, HeapAssumption DEF Fits, EndOf
<1>3. p \in HeapStart .. HeapEnd - 1 /\ p \in Nat /\ HeapEnd \in Nat
  BY <1>1, <1>2, HeapAssumption DEF HeapEnd
<1>4. p \notin DOMAIN owned
  BY <1>1 DEF OwnersMatchBlocks, Fits
<1>5. Contract!Bytes(p, wanted) \subseteq HeapStart .. HeapEnd - 1
  BY <1>1, <1>2, <1>3, HeapAssumption DEF Contract!Bytes
<1>6. ASSUME NEW q \in DOMAIN owned
      PROVE  Contract!Bytes(p, wanted) \cap Contract!Bytes(q, owned[q]) = {}
  <2> DEFINE c == q - HeaderSize
  <2>1. c \in DOMAIN heap /\ q \in Nat /\ q = c + HeaderSize /\ owned[q] \in Nat
    BY HeapAssumption DEF OwnersMatchBlocks, TypeOK, HeapEnd
  <2>2. /\ c \in Nat /\ heap[c].size \in Nat /\ EndOf(c) = q + heap[c].size
        /\ EndOf(c) \in Nat
    BY <2>1, BlockType DEF EndOf
  <2>3. heap[c].size >= owned[q]
    BY <2>1, <2>2, HeapAssumption DEF GrantsAreSnug
  <2>4. c < current \/ current < c
    BY <2>1, <2>2, <1>2, <1>4
  <2>5. EndOf(c) <= current \/ EndOf(current) <= c
    BY <2>1, <2>4, <1>1 DEF ListCoversArena
  <2> HIDE DEF c
  <2>6. q + owned[q] <= current \/ p + wanted <= c
    BY <2>1, <2>2, <2>3, <2>5, <1>1, <1>2, <1>3
  <2> QED
    BY <2>1, <2>2, <2>6, <1>1, <1>2, <1>3, HeapAssumption DEF Contract!Bytes
<1>7. Contract!Grant(p, wanted)
  BY <1>1, <1>4, <1>5, <1>6 DEF Contract!Grant, Contract!Free, Return
<1> QED
  BY <1>1, <1>3, <1>7 DEF Contract!Next

LEMMA StepImplementsContract ==
  IInv /\ [Next]_vars => [Contract!Next]_owned
<1> SUFFICES ASSUME IInv, [Next]_vars PROVE [Contract!Next]_owned
  OBVIOUS
<1>1. CASE \E n \in Requests : MallocCall(n)
  BY <1>1 DEF MallocCall
<1>2. CASE Malloc
  <2>1. CASE MallocWalk
    BY <2>1 DEF MallocWalk
  <2>2. CASE MallocSplit
    BY <2>2, ReturnGrants DEF MallocSplit
  <2>3. CASE MallocWhole
    BY <2>3, ReturnGrants DEF MallocWhole
  <2>4. CASE MallocFail
    BY <2>4 DEF MallocFail
  <2> QED
    BY <1>2, <2>1, <2>2, <2>3, <2>4 DEF Malloc
<1>3. CASE \E p \in DOMAIN owned : Free(p)
  BY <1>3 DEF Free, Contract!Release, Contract!Next
<1>4. CASE UNCHANGED vars
  BY <1>4 DEF vars
<1> QED
  BY <1>1, <1>2, <1>3, <1>4 DEF Next

(* malloc and free implement the allocator contract: what a client holds   *)
(* never overlaps what another holds, whatever the sequence of calls.      *)
THEOREM HeapImplementsAllocator == Spec => ImplementsAllocator
<1>1. Init => Contract!Init
  BY DEF Init, Contract!Init
<1> QED
  BY <1>1, HeapInvariant, StepImplementsContract, PTL
     DEF Spec, Contract!Spec, ImplementsAllocator
==============================================================================
