------------------------------- MODULE MCUlid -------------------------------
(* Instances of Ulid: in Walking every bit of every byte is one in one of  *)
(* the values and zero in the others.                                      *)
EXTENDS Ulid

Walking(n) == {[i \in 1 .. n |-> 2 ^ ((i + shift) % 8)] : shift \in 0 .. 7}
Constant(n) == {[i \in 1 .. n |-> v] : v \in {0, 255}}

(* Instants a few milliseconds apart, the last across a carry. *)
Near == {<<1, 0, 0, 0, 255, 240>>, <<1, 0, 0, 0, 255, 255>>, <<1, 0, 0, 1, 0, 0>>}

MCInstants == Walking(6) \union Constant(6) \union Near
MCEntropies == Walking(10) \union Constant(10)
=============================================================================
