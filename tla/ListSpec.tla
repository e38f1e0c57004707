------------------------------ MODULE ListSpec ------------------------------
(***************************************************************************)
(* What list.h promises: each head stands for a sequence of nodes, no node *)
(* is in two places, and each function changes its list and nothing else.  *)
(***************************************************************************)
EXTENDS SequencesExt

CONSTANTS Heads, Nodes

VARIABLE lists

SeqInit == lists = [h \in Heads |-> <<>>]

Free(x) == \A h \in Heads : ~Contains(lists[h], x)

Insert(h, x) ==
    /\ Free(x)
    /\ lists' = [lists EXCEPT ![h] = <<x>> \o @] \/ lists' = [lists EXCEPT ![h] = Append(@, x)]

Take(h, x) ==
    /\ Contains(lists[h], x)
    /\ lists' = [lists EXCEPT ![h] = RemoveFirst(@, x)]

Move(h, x, g) ==
    /\ Contains(lists[h], x)
    /\ g # h
    /\ lists' = [lists EXCEPT ![h] = RemoveFirst(@, x), ![g] = Append(@, x)]

Empty(h) == lists' = [lists EXCEPT ![h] = <<>>]

SeqNext ==
    \E h \in Heads :
      \/ Empty(h)
      \/ \E x \in Nodes :
           \/ Insert(h, x)
           \/ Take(h, x)
           \/ \E g \in Heads : Move(h, x, g)

SequencesSpec == SeqInit /\ [][SeqNext]_lists
=============================================================================
