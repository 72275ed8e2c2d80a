------------------------------- MODULE PHeap -------------------------------
(***************************************************************************)
(* The pairing heap of pico_util (pheap.c, pheap.h) that keeps the alarms  *)
(* of an alarm pool in order: nodes linked by child, sibling and parent    *)
(* ids, and the free nodes linked through sibling.  0 is no node.          *)
(* pheap.c is sequential; its callers hold a lock.                         *)
(***************************************************************************)
EXTENDS Integers, FiniteSets, Sequences

CONSTANTS
  max_nodes,  \* the argument of ph_create
  Key         \* Key[i]: what the comparator compares of node i

Ids == 1..max_nodes

ASSUME PHeapAssumption ==
  /\ max_nodes \in 1..255  \* pheap_node_id_t is a uint8_t
  /\ Key \in [Ids -> Int]

NodeId == 0..max_nodes

VARIABLES
  node,          \* node[i]: the links of node i
  root_id,
  free_head_id,
  free_tail_id,
  out,           \* history: the ids allocated and not in the heap
  in,            \* history: the ids in the heap
  stale          \* history: the ids that ph_clear found in the heap, until
                 \* they are allocated again

heapVars == <<node, root_id, free_head_id, free_tail_id, out, in, stale>>

Links == [child : NodeId, sibling : NodeId, parent : NodeId]
NoLinks == [child |-> 0, sibling |-> 0, parent |-> 0]

HeapTypeOK ==
  /\ node \in [Ids -> Links]
  /\ root_id \in NodeId /\ free_head_id \in NodeId /\ free_tail_id \in NodeId
  /\ out \subseteq Ids /\ in \subseteq Ids /\ stale \subseteq Ids

\* ph_clear, on nodes that calloc or earlier use has left.
Cleared(n) ==
  [i \in Ids |-> [n[i] EXCEPT !.sibling = IF i = max_nodes THEN 0 ELSE i + 1]]

HeapInit ==
  /\ node = Cleared([i \in Ids |-> NoLinks])
  /\ root_id = 0 /\ free_head_id = 1 /\ free_tail_id = max_nodes
  /\ out = {} /\ in = {} /\ stale = {}

Before(a, b) == Key[a] < Key[b]

\* ph_add_child_node: c becomes the first child of p.
AddChild(n, p, c) ==
  IF n[p].child = 0
  THEN [n EXCEPT ![c].parent = p, ![p].child = c]
  ELSE [n EXCEPT ![c].parent = p, ![c].sibling = n[p].child, ![p].child = c]

\* Mutant: the comparator is not asked.
MergeUnordered(n, a, b) ==
  CASE a = 0 -> [nodes |-> n, id |-> b]
    [] a # 0 /\ b = 0 -> [nodes |-> n, id |-> a]
    [] OTHER -> [nodes |-> AddChild(n, a, b), id |-> a]

\* ph_merge_nodes, on nodes n with order Before: the nodes after it and the
\* root it returns.
Merge(n, a, b) ==
  CASE a = 0 -> [nodes |-> n, id |-> b]
    [] a # 0 /\ b = 0 -> [nodes |-> n, id |-> a]
    [] OTHER -> IF Before(a, b)
                THEN [nodes |-> AddChild(n, a, b), id |-> a]
                ELSE [nodes |-> AddChild(n, b, a), id |-> b]

\* The ids linked by sibling from id on, in their order.
Chain(n, id) ==
  LET from[k \in 0..max_nodes] ==
        [i \in NodeId |->
           IF i = 0 \/ k = 0 THEN << >> ELSE <<i>> \o from[k - 1][n[i].sibling]]
  IN  from[max_nodes][id]

Linked(n, id) == LET c == Chain(n, id) IN {c[k] : k \in 1..Len(c)}

Pairs(c) == (Len(c) + 1) \div 2
At(c, k) == IF k <= Len(c) THEN c[k] ELSE 0
Separated(n, c) ==
  [i \in Ids |-> IF \E k \in 1..Len(c) : c[k] = i THEN [n[i] EXCEPT !.sibling = 0] ELSE n[i]]

\* The returns of ph_merge_two_pass, the innermost call first: MergedPairs[q]
\* has merged the last q pairs of the chain c.
MergedPairs(n, c) ==
  LET merged[q \in 0..Pairs(c)] ==
        IF q = 0 THEN [nodes |-> Separated(n, c), id |-> 0]
        ELSE LET rest == merged[q - 1]
                 p == Pairs(c) - q
                 pair == Merge(rest.nodes, At(c, 2 * p + 1), At(c, 2 * p + 2))
             IN  Merge(pair.nodes, pair.id, rest.id)
  IN  merged

MergeTwoPass(n, id) == LET c == Chain(n, id) IN MergedPairs(n, c)[Pairs(c)]

\* Mutant: the new root keeps the parent it had.
RemoveAnyHeadKeepingParent(n, id) ==
  LET merged == MergeTwoPass(n, n[id].child)
  IN  [merged EXCEPT !.nodes = [@ EXCEPT ![id].sibling = 0]]

\* ph_remove_any_head on the tree of id: its nodes and its new root.
RemoveAnyHead(n, id) ==
  LET merged == MergeTwoPass(n, n[id].child)
      orphan == IF merged.id = 0 THEN merged.nodes
                ELSE [merged.nodes EXCEPT ![merged.id].parent = 0]
  IN  [nodes |-> [orphan EXCEPT ![id].sibling = 0], id |-> merged.id]

\* Mutant: freed ids are used again at once.
FreeFirst(n, id) ==
  /\ free_head_id' = id
  /\ free_tail_id' = IF free_tail_id = 0 THEN id ELSE free_tail_id
  /\ node' = [n EXCEPT ![id].sibling = free_head_id]

\* ph_free_node, and the free branch of ph_remove_any_head: at the tail.
Free(n, id) ==
  /\ free_tail_id' = id
  /\ node' = IF free_tail_id = 0 THEN n
             ELSE [n EXCEPT ![free_tail_id].sibling = id]
  /\ UNCHANGED free_head_id

\* ph_new_node.
NewNode ==
  /\ free_head_id # 0
  /\ LET id == free_head_id
         next == node[id].sibling
     IN  /\ free_head_id' = next
         /\ free_tail_id' = IF next = 0 THEN 0 ELSE free_tail_id
         /\ node' = [node EXCEPT ![id] = NoLinks]
         /\ out' = out \cup {id} /\ stale' = stale \ {id}
  /\ UNCHANGED <<root_id, in>>

\* ph_insert_node.
InsertNode(id) ==
  /\ id \in out
  /\ LET merged == Merge([node EXCEPT ![id] = NoLinks], root_id, id)
     IN  node' = merged.nodes /\ root_id' = merged.id
  /\ out' = out \ {id} /\ in' = in \cup {id}
  /\ UNCHANGED <<free_head_id, free_tail_id, stale>>

\* ph_remove_head(heap, free).
RemoveHead(freed) ==
  LET id == root_id
      rest == RemoveAnyHead(node, id)
  IN
  /\ id # 0
  /\ root_id' = rest.id
  /\ IF freed THEN Free(rest.nodes, id) /\ UNCHANGED out
     ELSE /\ node' = rest.nodes /\ out' = out \cup {id}
          /\ UNCHANGED <<free_head_id, free_tail_id>>
  /\ in' = in \ {id}
  /\ UNCHANGED stale

\* The tree without node id: its parent, or the sibling before it, is
\* linked to the sibling after it.
Unlinked(id) ==
  LET p == node[id].parent
      after == node[id].sibling
      bridged == IF node[p].child = id THEN [node EXCEPT ![p].child = after]
                 ELSE LET prev == CHOOSE i \in Linked(node, node[p].child) :
                                    node[i].sibling = id
                      IN  [node EXCEPT ![prev].sibling = after]
  IN  [bridged EXCEPT ![id].sibling = 0, ![id].parent = 0]

\* ph_remove_and_free_node of a node below the root.
RemoveAndFreeNode(id) ==
  LET subtree == RemoveAnyHead(Unlinked(id), id)
      merged == Merge(subtree.nodes, root_id, subtree.id)
  IN
  /\ id # root_id /\ node[id].parent # 0
  /\ root_id' = merged.id
  /\ Free(merged.nodes, id)
  /\ in' = in \ {id}
  /\ UNCHANGED <<out, stale>>

\* ph_free_node.
FreeNode(id) ==
  /\ id \in out
  /\ Free(node, id)
  /\ out' = out \ {id}
  /\ UNCHANGED <<root_id, in, stale>>

\* ph_contains_node, of a valid id.
Contains(id) == id = root_id \/ node[id].parent # 0

\* ph_clear: the links of earlier use are left in the nodes.
Clear ==
  /\ node' = Cleared(node)
  /\ root_id' = 0 /\ free_head_id' = 1 /\ free_tail_id' = max_nodes
  /\ out' = {} /\ in' = {} /\ stale' = (stale \cup in)

\* The callers free, insert and remove only ids they have allocated since.
HeapNext ==
  \/ NewNode \/ Clear
  \/ \E freed \in BOOLEAN : RemoveHead(freed)
  \/ \E id \in in \cup out : InsertNode(id) \/ RemoveAndFreeNode(id) \/ FreeNode(id)

HeapSpec == HeapInit /\ [][HeapNext]_heapVars
-----------------------------------------------------------------------------
(* Properties *)

\* Every node of the heap hangs below the root by exactly one link, which
\* its parent field remembers, and no node that is not in the heap does:
\* the asserts of ph_remove_any_head and ph_remove_and_free_node.  No node
\* compares before its parent, so none before the root.
HeapShape ==
  /\ HeapTypeOK
  /\ root_id = 0 <=> in = {}
  /\ root_id # 0 => root_id \in in /\ node[root_id].sibling = 0
  /\ \A id \in in :
       /\ node[id].parent = 0 <=> id = root_id
       /\ id # root_id =>
            Cardinality({p \in in : node[p].child = id}
                        \cup {s \in in : node[s].sibling = id}) = 1
       /\ id # root_id => ~Before(id, node[id].parent)
       /\ \A c \in Linked(node, node[id].child) : c \in in /\ node[c].parent = id

\* ph_contains_node tells the ids in the heap from the allocated and the
\* freed ones, except those that ph_clear has left with a parent.
ContainsIsIn == \A id \in Ids \ stale : Contains(id) <=> id \in in

\* ph_new_node returns 0 only if "the heap is full".
FullMeansFull == free_head_id = 0 => in \cup out = Ids

\* The linked structure implements the heap and the queue of free ids of
\* AbstractHeap, through every sequence of calls.
AbsHeap == INSTANCE AbstractHeap WITH
         NoId <- 0, free <- Chain(node, free_head_id), heap <- in, head <- root_id
AbstractHeapSpec == AbsHeap!Spec
=============================================================================
