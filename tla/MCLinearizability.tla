------------------------- MODULE MCLinearizability -------------------------
(* Small histories for the linearizability checker. *)
EXTENDS Linearizability

Read(k, v) == [op |-> "Read", key |-> k, ret |-> v]
Write(k, v, r) == [op |-> "Write", key |-> k, ret |-> r, value |-> v]
Delete(k, r) == [op |-> "Delete", key |-> k, ret |-> r]
Cas(k, e, v, r) == [op |-> "Cas", key |-> k, ret |-> r, value |-> v, expect |-> e]

\* A write, a deletion and reads that tell in which order they came.
Ordered == {Write(1, "a", "Ok"), Delete(1, "Ok"), Read(1, "a")}

\* Swaps whose clients give up, and reads that tell whether they happened.
Unanswered == {Cas(1, nil, "a", Unknown), Read(1, nil), Read(1, "a")}

\* The same swap on two keys.
TwoKeys == {Cas(1, nil, "a", "Ok"), Cas(2, nil, "a", "Ok")}

Mixed == {Ordered, Unanswered, TwoKeys}

\* A write whose client gives up, and reads.
GivenUp == {{Write(1, "a", Unknown), Read(1, nil), Read(1, "a")}}

\* Acknowledged writes, and reads that missed them.
Overlooked == {{Write(1, "a", "Ok"), Cas(1, nil, "a", "Ok"), Read(1, nil)}}
============================================================================
