--------------------------- MODULE ListSequences ---------------------------
(***************************************************************************)
(* The links of List implement the sequences of ListSpec: the list of a    *)
(* head is what one meets going forward from it.                           *)
(***************************************************************************)
EXTENDS List

S == INSTANCE ListSpec WITH lists <- [h \in Heads |-> Contents(h)]

\* Every function of list.c, and every callback of for_each, does to the links
\* what it says it does to a sequence, and no list but the one it was given changes.
ImplementsSequences == S!SequencesSpec
=============================================================================
