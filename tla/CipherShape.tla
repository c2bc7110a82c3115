---------------------------- MODULE CipherShape ----------------------------
(***************************************************************************)
(* How the parts of a ciphertext refer to each other (pvac core/types.hpp, *)
(* ops/encrypt.hpp).  A ciphertext has a list of layers and a list of      *)
(* edges.  A layer is a base layer, or the product of two earlier layers,  *)
(* named by their positions; an edge names the position of its layer.      *)
(* Joining two ciphertexts moves the second one's layers up, and dropping  *)
(* the layers nothing needs moves the others down: after each, every       *)
(* position must name the layer it named before.                           *)
(*                                                                         *)
(* Positions start at 1 (at 0 in the code).                                *)
(***************************************************************************)
EXTENDS Integers, Sequences, FiniteSets

IsProd(layer) == layer.rule = "prod"

\* The two layer clauses and the edge clause of is_valid_cipher_shape that
\* positions are about.
ParentsBelow(L) ==
    \A i \in 1..Len(L) :
        IsProd(L[i]) => L[i].pa \in 1..(i - 1) /\ L[i].pb \in 1..(i - 1)

EdgesPlaced(L, E) == \A k \in 1..Len(E) : E[k].lid \in 1..Len(L)

-----------------------------------------------------------------------------
(* Joining two ciphertexts *)

\* Mutant: the parents of a moved product keep their old positions.
MoveLayerStale(layer, off) == layer

MoveLayer(layer, off) ==
    IF IsProd(layer) THEN [layer EXCEPT !.pa = @ + off, !.pb = @ + off] ELSE layer

MoveLayers(L, off) == [i \in 1..Len(L) |-> MoveLayer(L[i], off)]

MoveEdges(E, off) == [k \in 1..Len(E) |-> [E[k] EXCEPT !.lid = @ + off]]

JoinLayers(LA, LB) == LA \o MoveLayers(LB, Len(LA))

JoinEdges(LA, EA, EB) == EA \o MoveEdges(EB, Len(LA))

-----------------------------------------------------------------------------
(* Dropping layers *)

\* A set of layers that can be kept alone.
Closed(L, S) == \A i \in S : IsProd(L[i]) => L[i].pa \in S /\ L[i].pb \in S

\* Where layer i goes when the layers of S are kept.
Remap(S, i) == Cardinality({j \in S : j <= i})

\* The layer that goes to position k.
KeptAt(S, k) == CHOOSE i \in S : Remap(S, i) = k

\* The elements at the positions of S.
Chosen(seq, S) == [k \in 1..Cardinality(S) |-> seq[KeptAt(S, k)]]

\* Mutant: the parents of a kept product keep their old positions.
RemapLayerStale(S, layer) == layer

RemapLayer(S, layer) ==
    IF IsProd(layer) THEN [layer EXCEPT !.pa = Remap(S, @), !.pb = Remap(S, @)] ELSE layer

KeepLayers(L, S) == [k \in 1..Cardinality(S) |-> RemapLayer(S, L[KeptAt(S, k)])]

\* Mutant: edges keep their old positions.
KeepEdgesStale(E, S) == E

KeepEdges(E, S) == [k \in 1..Len(E) |-> [E[k] EXCEPT !.lid = Remap(S, @)]]
=============================================================================
