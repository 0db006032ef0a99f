------------------------------ MODULE IdealHeap ------------------------------
(***************************************************************************)
(* What the allocator promises the application: chunks that share no word, *)
(* whose contents only the application changes, and that a resize moves    *)
(* unchanged as far as they fit.  Module Malloc implements it.             *)
(***************************************************************************)
EXTENDS Integers, Sequences, TLC

VARIABLE chunks     \* chunks[p]: the words of the chunk at p

Words(heap, p) == p .. p + Len(heap[p]) - 1

Disjoint(heap) ==
    \A p \in DOMAIN heap : \A q \in DOMAIN heap \ {p} : Words(heap, p) \cap Words(heap, q) = {}

Without(p) == [q \in DOMAIN chunks \ {p} |-> chunks[q]]

Init == chunks = <<>>

\* A new chunk, which is no other chunk's memory.
Allocate ==
    \E p \in DOMAIN chunks' \ DOMAIN chunks :
        /\ chunks' = chunks @@ (p :> chunks'[p])
        /\ Disjoint(chunks')

Release == \E p \in DOMAIN chunks : chunks' = Without(p)

\* The old chunk and the new one agree on the words that both have.
Resize ==
    \E p \in DOMAIN chunks : \E q \in DOMAIN chunks' :
        /\ q \notin DOMAIN chunks \ {p}
        /\ chunks' = Without(p) @@ (q :> chunks'[q])
        /\ \A i \in DOMAIN chunks[p] \cap DOMAIN chunks'[q] : chunks'[q][i] = chunks[p][i]
        /\ Disjoint(chunks')

Next == Allocate \/ Release \/ Resize

Spec == Init /\ [][Next]_chunks
=============================================================================
