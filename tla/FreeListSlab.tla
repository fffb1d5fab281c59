---------------------------- MODULE FreeListSlab ----------------------------
(***************************************************************************)
(* kern/mm/uslab.cc: FreeListSlab, a stack of the free object indexes in   *)
(* an array of StackSize bytes.  nr_free and nr_total are u8.  What        *)
(* BitmapSlab has too is called Stack... here, so that one run can have    *)
(* both kinds.                                                             *)
(***************************************************************************)
EXTENDS SlabSizes, FiniteSets

VARIABLES free_stack, nr_free, nr_total,
          stack_live,       \* objects handed out and not freed
          stack_got,        \* what the last Alloc returned
          stack_allocated   \* this slab's share of MemCache's stat.allocated

stackvars == <<free_stack, nr_free, nr_total, stack_live, stack_got, stack_allocated>>

StackObjects == 0 .. (Total - 1)
Slot == 0 .. (StackSize - 1)
u8(x) == x % 256

stack_is_empty == nr_free = nr_total
stack_is_full == nr_free = 0

\* Init(PAGESIZE / ObjSize); the entries above Total are whatever was there.
StackInit ==
  /\ nr_free = u8(Total)
  /\ nr_total = u8(Total)
  /\ free_stack = [s \in Slot |-> IF s < Total THEN s ELSE 0]
  /\ stack_live = {}
  /\ stack_got = NoObj
  /\ stack_allocated = 0

\* Called by MemCache::Allocate on a slab that was not full when it was queued.
StackAlloc ==
  /\ ~stack_is_full
  /\ nr_free' = u8(nr_free - 1)
  /\ stack_got' = free_stack[nr_free']
  /\ stack_live' = stack_live \cup {stack_got'}
  /\ stack_allocated' = stack_allocated + 1
  /\ UNCHANGED <<free_stack, nr_total>>

\* free_stack[++nr_free] = obj_idx: the entry under the new top stays stale.
FreePreIncrement(obj_idx) ==
  /\ obj_idx \in stack_live
  /\ nr_free' = u8(nr_free + 1)
  /\ free_stack' = [free_stack EXCEPT ![nr_free' % StackSize] = obj_idx]
  /\ stack_live' = stack_live \ {obj_idx}
  /\ stack_allocated' = stack_allocated - 1
  /\ UNCHANGED <<nr_total, stack_got>>

\* The object is pushed but not counted.
FreeNotCounted(obj_idx) ==
  /\ obj_idx \in stack_live
  /\ free_stack' = [free_stack EXCEPT ![nr_free] = obj_idx]
  /\ stack_live' = stack_live \ {obj_idx}
  /\ stack_allocated' = stack_allocated - 1
  /\ UNCHANGED <<nr_free, nr_total, stack_got>>

StackFree(obj_idx) ==
  /\ obj_idx \in stack_live
  /\ free_stack' = [free_stack EXCEPT ![nr_free] = obj_idx]
  /\ nr_free' = u8(nr_free + 1)
  /\ stack_live' = stack_live \ {obj_idx}
  /\ stack_allocated' = stack_allocated - 1
  /\ UNCHANGED <<nr_total, stack_got>>

StackNext == StackAlloc \/ \E o \in stack_live : StackFree(o)

StackSpec == StackInit /\ [][StackNext]_stackvars

-----------------------------------------------------------------------------
(* Properties *)

StackSO == INSTANCE SlabObjs WITH
             Objects <- StackObjects, live <- stack_live, got <- stack_got,
             allocated <- stack_allocated

\* The stack implements a pool of Total objects: Alloc never pops an object
\* that is in use, whatever the order of the Free calls.
StackImplementsPool == StackSO!Spec

\* The stack never grows past Total, so free_stack is not written past its
\* end, and is_full and is_empty say that every object, or none, is in use.
StackExact ==
  /\ nr_free <= Total
  /\ stack_is_full <=> stack_live = StackObjects
  /\ stack_is_empty <=> stack_live = {}

-----------------------------------------------------------------------------
(* The inductive invariant: the stack holds every object not in use, once. *)

StackTypeOK ==
  /\ free_stack \in [Slot -> StackObjects]
  /\ nr_free \in 0 .. Total
  /\ nr_total = Total
  /\ stack_live \in SUBSET StackObjects
  /\ stack_got \in StackObjects \cup {NoObj}

OnStack == {free_stack[s] : s \in 0 .. (nr_free - 1)}

NoRepeat ==
  \A s, t \in 0 .. (nr_free - 1) : free_stack[s] = free_stack[t] => s = t

StackIInv ==
  /\ StackTypeOK
  /\ OnStack = StackObjects \ stack_live
  /\ NoRepeat
  /\ nr_free = Total - Cardinality(stack_live)
=============================================================================
