-------------------------------- MODULE List --------------------------------
(***************************************************************************)
(* lib/list.c: doubly linked rings, each through a head that is a node     *)
(* without content.  A node is linked into a list by whoever owns it; the  *)
(* functions change links and ask nothing, so the callers here do what the *)
(* interface expects: they insert nodes that are in no list and remove     *)
(* nodes that are in one.                                                  *)
(*                                                                         *)
(* for_each calls a function for each node, which is the caller's code and *)
(* may change the lists.  It saves the next node first, so the callbacks   *)
(* here take away nodes only by removing the one they are given.  (One     *)
(* that removed the saved node would send the walk on through links that   *)
(* are NULL.)                                                              *)
(***************************************************************************)
EXTENDS Integers, SequencesExt, FiniteSets

CONSTANTS
    Nodes,
    Heads,
    NULL,
    MAX_VISITS  \* of one walk, which callbacks that append can prolong for ever

ASSUME ListAssumption ==
    /\ IsFiniteSet(Nodes)
    /\ Nodes \intersect Heads = {}
    /\ NULL \notin Nodes \union Heads
    /\ MAX_VISITS \in Nat

VARIABLES
    next, prev,     \* the fields of all nodes and heads, and what lies at address NULL
    where,          \* history: the list the callers have put a node in
    walk            \* the for_each in progress

listVars == <<next, prev, where, walk>>

Cells == Nodes \union Heads \union {NULL}

\* No walk.
Idle == [head |-> NULL, current |-> NULL, first |-> <<>>, visited |-> <<>>]

\* list_init of every head.  Nodes that were never in a list hold NULL.
ListInit ==
    /\ next = [c \in Cells |-> IF c \in Heads THEN c ELSE NULL]
    /\ prev = next
    /\ where = [x \in Nodes |-> NULL]
    /\ walk = Idle

-----------------------------------------------------------------------------
(* The functions, as what they make of the links l, a record of next and prev. *)

Links == [next |-> next, prev |-> prev]

\* Mutant of list_insert_head: head->next is set before it is used.
list_insert_head_early(l, head, node) ==
    LET a == [l EXCEPT !.next[node] = l.next[head], !.prev[node] = head]
        b == [a EXCEPT !.next[head] = node]
    IN  [b EXCEPT !.prev[b.next[head]] = node]

list_insert_head(l, head, node) ==
    LET a == [l EXCEPT !.next[node] = l.next[head], !.prev[node] = head]
        b == [a EXCEPT !.prev[a.next[head]] = node]
    IN  [b EXCEPT !.next[head] = node]

list_insert_tail(l, head, node) ==
    LET a == [l EXCEPT !.prev[node] = l.prev[head], !.next[node] = head]
        b == [a EXCEPT !.next[a.prev[head]] = node]
    IN  [b EXCEPT !.prev[head] = node]

\* Mutant of list_remove: the node is left out of the way forward only.
list_remove_forward(l, node) ==
    [l EXCEPT !.next[l.prev[node]] = l.next[node], !.prev[node] = NULL, !.next[node] = NULL]

\* Mutant of list_remove: the node's own link is cleared too early.
list_remove_cleared(l, node) ==
    LET a == [l EXCEPT !.prev[node] = NULL]
        b == [a EXCEPT !.next[a.prev[node]] = a.next[node]]
    IN  [b EXCEPT !.prev[b.next[node]] = b.prev[node], !.next[node] = NULL]

list_remove(l, node) ==
    LET a == [l EXCEPT !.next[l.prev[node]] = l.next[node]]
        b == [a EXCEPT !.prev[a.next[node]] = a.prev[node]]
    IN  [b EXCEPT !.prev[node] = NULL, !.next[node] = NULL]

\* A loop of list.c never runs longer than this over links that are right.
Rounds == Cardinality(Nodes)

list_clear(l, head) ==
    LET at[i \in 0 .. Rounds] ==
          IF i = 0 THEN [l |-> l, current |-> l.next[head]]
          ELSE LET w == at[i - 1]
               IN  IF w.current = head THEN w
                   ELSE [l |-> list_remove(w.l, w.current), current |-> w.l.next[w.current]]
    IN  at[Rounds].l

\* Mutant of list_count: the loop ends one node too early.
list_count_short(head) ==
    LET at[i \in 0 .. Rounds] ==
          IF i = 0 THEN [count |-> 0, current |-> next[head]]
          ELSE LET w == at[i - 1]
               IN  IF next[w.current] = head THEN w
                   ELSE [count |-> w.count + 1, current |-> next[w.current]]
    IN  at[Rounds].count

list_count(head) ==
    LET at[i \in 0 .. Rounds] ==
          IF i = 0 THEN [count |-> 0, current |-> next[head]]
          ELSE LET w == at[i - 1]
               IN  IF w.current = head THEN w
                   ELSE [count |-> w.count + 1, current |-> next[w.current]]
    IN  at[Rounds].count

list_is_empty(head) == next[head] = head
list_get_head(head) == next[head]
list_get_tail(head) == prev[head]
list_get_next(node) == next[node]
list_get_prev(node) == prev[node]

-----------------------------------------------------------------------------

Becomes(l) ==
    /\ next' = l.next
    /\ prev' = l.prev

Free == {x \in Nodes : where[x] = NULL}
Linked == {x \in Nodes : where[x] # NULL}

insert ==
    \E head \in Heads, node \in Free :
      /\ Becomes(list_insert_head(Links, head, node)) \/ Becomes(list_insert_tail(Links, head, node))
      /\ where' = [where EXCEPT ![node] = head]

remove ==
    \E node \in Linked :
      /\ Becomes(list_remove(Links, node))
      /\ where' = [where EXCEPT ![node] = NULL]

clear ==
    \E head \in Heads :
      /\ Becomes(list_clear(Links, head))
      /\ where' = [x \in Nodes |-> IF where[x] = head THEN NULL ELSE where[x]]

\* What a callback does to the lists: nothing, remove its node, move its node
\* to another list, or insert a node.
callback(node) ==
    \/ UNCHANGED <<next, prev, where>>
    \/ /\ where[node] # NULL
       /\ \/ /\ Becomes(list_remove(Links, node))
             /\ where' = [where EXCEPT ![node] = NULL]
          \/ \E head \in Heads \ {where[node]} :
               /\ Becomes(list_insert_tail(list_remove(Links, node), head, node))
               /\ where' = [where EXCEPT ![node] = head]
    \/ Len(walk.visited) < MAX_VISITS /\ insert

\* Mutant of Advance: the next node is read after the callback.
Advance_late(node) == next'[node]

\* The next node is saved before the callback runs.
Advance(node) == next[node]

\* The nodes a walk from a head meets over the links n (history, and for the properties).
Met(n, head) ==
    LET at[i \in 0 .. Rounds] ==
          IF i = 0 THEN [seen |-> <<>>, current |-> n[head]]
          ELSE LET w == at[i - 1]
               IN  IF w.current \notin Nodes THEN w
                   ELSE [seen |-> Append(w.seen, w.current), current |-> n[w.current]]
    IN  at[Rounds].seen

Contents(head) == Met(next, head)

for_each_begin ==
    /\ walk = Idle
    /\ \E head \in Heads :
         walk' = [head |-> head, current |-> next[head], first |-> Contents(head), visited |-> <<>>]
    /\ UNCHANGED <<next, prev, where>>

for_each_step ==
    /\ walk.current # walk.head
    /\ callback(walk.current)
    /\ walk' = [walk EXCEPT !.current = Advance(walk.current),
                           !.visited = Append(@, walk.current)]

for_each_end ==
    /\ walk # Idle
    /\ walk.current = walk.head
    /\ walk' = Idle
    /\ UNCHANGED <<next, prev, where>>

ListNext ==
    \/ walk = Idle /\ (insert \/ remove \/ clear) /\ UNCHANGED walk
    \/ for_each_begin
    \/ for_each_step
    \/ for_each_end

ListSpecification == ListInit /\ [][ListNext]_listVars

-----------------------------------------------------------------------------
(* Properties                                                               *)

\* Nothing is ever stored through a NULL pointer, among other things.
ListTypeOK ==
    /\ next \in [Cells -> Cells]
    /\ prev \in [Cells -> Cells]
    /\ where \in [Nodes -> Heads \union {NULL}]
    /\ walk.head \in Heads \union {NULL}
    /\ next[NULL] = NULL /\ prev[NULL] = NULL

\* Both directions tell the same story, and every question list.c answers is
\* answered as a sequence would: the count, the ends (the head itself for an
\* empty list), the neighbours.  A node in no list holds NULL twice, so that it
\* cannot be mistaken for a linked one.
QueriesExact ==
    /\ \A head \in Heads :
         LET s    == Contents(head)
             ring == <<head>> \o s \o <<head>>
         IN  /\ ToSet(s) = {x \in Nodes : where[x] = head}
             /\ list_count(head) = Cardinality(ToSet(s))
             /\ list_is_empty(head) <=> s = <<>>
             /\ list_get_head(head) = ring[2]
             /\ list_get_tail(head) = ring[Len(ring) - 1]
             /\ \A k \in 2 .. Len(ring) - 1 :
                  /\ list_get_next(ring[k]) = ring[k + 1]
                  /\ list_get_prev(ring[k]) = ring[k - 1]
    /\ \A x \in Free : list_get_next(x) = NULL /\ list_get_prev(x) = NULL

\* for_each calls the function for exactly the nodes that were in the list when
\* it began, in their order, whatever the callbacks removed, moved or inserted
\* on the way; only what they inserted behind them may follow.  The walk never
\* gets to a node's links after they are gone, nor into another list.
WalkComplete ==
    /\ walk.current \in Nodes \union {walk.head}
    /\ \A k \in 1 .. Len(walk.first) : k <= Len(walk.visited) => walk.visited[k] = walk.first[k]
    /\ walk # Idle /\ walk.current = walk.head => Len(walk.visited) >= Len(walk.first)
=============================================================================
