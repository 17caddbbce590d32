-------------------------------- MODULE Heap --------------------------------
(***************************************************************************)
(* The kernel heap of src/src/memory.c: InitHeap, malloc and free.         *)
(*                                                                         *)
(* The arena is one run of bytes.  A block is a MemoryBlock header         *)
(* followed by its payload; headers form a list threaded through `next`.   *)
(* `heap` maps the address of each header to its three fields.  malloc     *)
(* walks the list from heap_head and is modelled one loop iteration per    *)
(* step; free is one step.  Calls do not overlap: the kernel calls both    *)
(* only from boot code and from the keyboard interrupt gate, with          *)
(* interrupts off.                                                         *)
(*                                                                         *)
(* Clients free pointers they hold, once each.  `owned` records those.     *)
(***************************************************************************)
EXTENDS Integers

CONSTANTS
  HeapStart,    \* InitHeap's heap_start (0x10000000 in main.c)
  HeapSize,     \* InitHeap's heap_size  (0x4000000)
  HeaderSize,   \* sizeof(MemoryBlock)   (24)
  SplitSlack,   \* the 16 of malloc's split test
  Requests      \* sizes clients pass to malloc

NULL == 0

ASSUME HeapAssumption ==
  /\ HeapStart \in Nat /\ HeapStart > NULL
  /\ HeaderSize \in Nat /\ HeaderSize > 0
  /\ HeapSize \in Nat /\ HeapSize >= HeaderSize
  /\ SplitSlack \in Nat
  /\ Requests \subseteq Nat

VARIABLES
  heap,      \* header address |-> [size, is_free, next]
  current,   \* malloc's loop variable
  wanted,    \* argument of the malloc call in progress, 0 when there is none
  owned      \* pointer held by a client |-> the size it asked for

vars == <<heap, current, wanted, owned>>

HeapEnd == HeapStart + HeapSize

MemoryBlock == [size : Nat, is_free : BOOLEAN, next : Nat]

(* The first byte after block b.                                           *)
EndOf(b) == b + HeaderSize + heap[b].size

FitsAnySize(b) == heap[b].is_free            \* mutant: the size is not compared

(* The block can serve the call in progress.                               *)
Fits(b) == heap[b].is_free /\ heap[b].size >= wanted

SplitsTooTight(b) == heap[b].size > wanted   \* mutant: no room for a header

(* It is large enough that the rest becomes a block of its own.            *)
Splits(b) == heap[b].size > wanted + HeaderSize + SplitSlack

-----------------------------------------------------------------------------
(* InitHeap: one free block spans the arena.                               *)
Init ==
  /\ heap = [b \in {HeapStart} |->
               [size |-> HeapSize - HeaderSize, is_free |-> TRUE, next |-> NULL]]
  /\ current = NULL
  /\ wanted = 0
  /\ owned = [p \in {} |-> 0]

MallocCallSkipsHead(n) ==   \* mutant: the walk starts behind heap_head
  /\ wanted = 0
  /\ n # 0
  /\ wanted' = n
  /\ current' = heap[HeapStart].next
  /\ UNCHANGED <<heap, owned>>

(* malloc(n) is called.  malloc(0) returns NULL at once: nothing changes.  *)
MallocCall(n) ==
  /\ wanted = 0
  /\ n # 0
  /\ wanted' = n
  /\ current' = HeapStart
  /\ UNCHANGED <<heap, owned>>

MallocWalkStays ==       \* mutant: the loop variable is not advanced
  /\ wanted # 0
  /\ current # NULL
  /\ ~Fits(current)
  /\ UNCHANGED vars

(* current = current->next                                                 *)
MallocWalk ==
  /\ wanted # 0
  /\ current # NULL
  /\ ~Fits(current)
  /\ current' = heap[current].next
  /\ UNCHANGED <<heap, wanted, owned>>

(* Hand the payload of block b to the client.                              *)
Return(b) ==
  /\ owned' = [p \in DOMAIN owned \cup {b + HeaderSize} |->
                 IF p = b + HeaderSize THEN wanted ELSE owned[p]]
  /\ wanted' = 0
  /\ current' = NULL

NewBlockForgetsHeader(b) ==   \* mutant: the new header takes no space
  [size    |-> heap[b].size - wanted,
   is_free |-> TRUE,
   next    |-> heap[b].next]

(* The header the split writes behind the payload it carves off block b.   *)
NewBlock(b) ==
  [size    |-> heap[b].size - wanted - HeaderSize,
   is_free |-> TRUE,
   next    |-> heap[b].next]

MallocSplit ==
  /\ wanted # 0
  /\ current # NULL
  /\ Fits(current)
  /\ Splits(current)
  /\ LET new_block == current + HeaderSize + wanted
     IN  heap' = [b \in DOMAIN heap \cup {new_block} |->
                    CASE b = current   -> [size |-> wanted, is_free |-> FALSE,
                                           next |-> new_block]
                      [] b = new_block -> NewBlock(current)
                      [] OTHER         -> heap[b]]
  /\ Return(current)

MallocWhole ==
  /\ wanted # 0
  /\ current # NULL
  /\ Fits(current)
  /\ ~Splits(current)
  /\ heap' = [heap EXCEPT ![current].is_free = FALSE]
  /\ Return(current)

(* The walk ran off the list: malloc returns NULL.                         *)
MallocFail ==
  /\ wanted # 0
  /\ current = NULL
  /\ wanted' = 0
  /\ UNCHANGED <<heap, current, owned>>

CoalescesBlindly(block) == heap[block].next # NULL   \* mutant: no is_free test

(* The block behind `block` is free, so free merges it forward.            *)
Coalesces(block) ==
  heap[block].next # NULL /\ heap[heap[block].next].is_free

Merged(block) ==
  LET succ == heap[heap[block].next]
  IN  [size    |-> heap[block].size + HeaderSize + succ.size,
       is_free |-> TRUE,
       next    |-> succ.next]

Free(p) ==
  /\ wanted = 0
  /\ LET block == p - HeaderSize
     IN  heap' = IF Coalesces(block)
                   THEN [b \in DOMAIN heap \ {heap[block].next} |->
                           IF b = block THEN Merged(block) ELSE heap[b]]
                   ELSE [heap EXCEPT ![block].is_free = TRUE]
  /\ owned' = [q \in DOMAIN owned \ {p} |-> owned[q]]
  /\ UNCHANGED <<current, wanted>>

Malloc == MallocWalk \/ MallocSplit \/ MallocWhole \/ MallocFail

Next ==
  \/ \E n \in Requests : MallocCall(n)
  \/ Malloc
  \/ \E p \in DOMAIN owned : Free(p)

Spec == Init /\ [][Next]_vars

(* malloc's loop runs to its end once called: nothing preempts it.  No     *)
(* client is obliged to call malloc or free.                               *)
FairSpec == Spec /\ WF_vars(Malloc)

-----------------------------------------------------------------------------
TypeOK ==
  /\ DOMAIN heap \subseteq HeapStart .. HeapEnd - 1
  /\ heap \in [DOMAIN heap -> MemoryBlock]
  /\ current \in Nat
  /\ wanted \in Requests \cup {0}
  /\ DOMAIN owned \subseteq HeapStart .. HeapEnd
  /\ owned \in [DOMAIN owned -> Nat \ {0}]

(* The list covers the arena, with no gap and no overlap: each block ends  *)
(* where the next one in the list begins, the last one at the end of the   *)
(* arena, and no other block reaches into it.  Splitting and merging lose  *)
(* no byte, and no `next` leads out of the list.                           *)
ListCoversArena ==
  /\ HeapStart \in DOMAIN heap
  /\ \A b \in DOMAIN heap :
       \/ heap[b].next = NULL /\ EndOf(b) = HeapEnd
       \/ heap[b].next \in DOMAIN heap /\ heap[b].next = EndOf(b)
  /\ \A b, c \in DOMAIN heap : b < c => EndOf(b) <= c

(* The blocks not marked free are exactly those whose payload a client     *)
(* holds: no block leaks, none is handed out twice, no held pointer loses  *)
(* its header to a merge.                                                  *)
OwnersMatchBlocks ==
  /\ \A b \in DOMAIN heap : heap[b].is_free <=> b + HeaderSize \notin DOMAIN owned
  /\ \A p \in DOMAIN owned : p - HeaderSize \in DOMAIN heap

(* A client gets what it asked for, and at most HeaderSize + SplitSlack    *)
(* bytes more: the split test bounds the waste inside a block.             *)
GrantsAreSnug ==
  \A p \in DOMAIN owned :
    p - HeaderSize \in DOMAIN heap =>
      heap[p - HeaderSize].size \in owned[p] .. owned[p] + HeaderSize + SplitSlack

(* The walk has passed over no block that would have served the call: in   *)
(* particular malloc returns NULL only when no block fits.                 *)
WalkSkipsNothing ==
  wanted # 0 =>
    /\ current # NULL => current \in DOMAIN heap
    /\ \A b \in DOMAIN heap : (current = NULL \/ b < current) => ~Fits(b)

(* Every call of malloc returns.                                           *)
MallocReturns == wanted # 0 ~> wanted = 0

(* malloc and free do what a client of an allocator expects.               *)
Contract == INSTANCE Allocator
  WITH Start <- HeapStart, End <- HeapEnd, granted <- owned

ImplementsAllocator == Contract!Spec
==============================================================================
