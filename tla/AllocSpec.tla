----------------------------- MODULE AllocSpec -----------------------------
(***************************************************************************)
(* What a malloc package promises its client (README of lab 6, mm.h): each *)
(* payload is aligned, lies in the heap, is as long as was asked for and   *)
(* overlaps no other, and what the client wrote there stays until it frees *)
(* the block; a reallocated block keeps as much as fits.                   *)
(***************************************************************************)
EXTENDS Integers

CONSTANTS Ids,       \* the blocks of the client
          Sizes,     \* sizes it asks for
          MaxHeap,   \* bytes of heap
          Alignment  \* of payloads

VARIABLES ptr,    \* where each block is, 0 when it is not allocated
          req,    \* the size asked for
          intact  \* whether the block holds what the client wrote

vars == <<ptr, req, intact>>

Gets(id, p, n) ==
  /\ ptr' = [ptr EXCEPT ![id] = p]
  /\ req' = [req EXCEPT ![id] = n]
  /\ UNCHANGED intact

\* A payload of n bytes that id may get at p.
Fits(id, p, n) ==
  /\ p > 0 /\ p % Alignment = 0 /\ p + n <= MaxHeap
  /\ \A k \in Ids \ {id} :
       ptr[k] # 0 => p + n <= ptr[k] \/ ptr[k] + req[k] <= p

Allocate(id, n) ==
  n > 0 /\ \E p \in 1 .. MaxHeap : Gets(id, p, n) /\ Fits(id, p, n)

\* A reset by the client, between two of its runs, frees everything.
Release(S) ==
  /\ ptr' = [id \in Ids |-> IF id \in S THEN 0 ELSE ptr[id]]
  /\ req' = [id \in Ids |-> IF id \in S THEN 0 ELSE req[id]]
  /\ UNCHANGED intact

Init ==
  /\ ptr = [id \in Ids |-> 0] /\ req = [id \in Ids |-> 0]
  /\ intact = [id \in Ids |-> TRUE]

Next ==
  \/ \E id \in Ids, n \in Sizes : Allocate(id, n)
  \/ \E id \in Ids : Release({id})
  \/ Release(Ids)

Spec == Init /\ [][Next]_vars
=============================================================================
