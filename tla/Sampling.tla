------------------------------ MODULE Sampling ------------------------------
(***************************************************************************)
(* The frame in which the sequential algorithms of the program are checked *)
(* against what they are for.  An algorithm is an operator; a behaviour    *)
(* draws one of its bounded inputs into sample, and the property of the    *)
(* algorithm compares its result on that input with a reference.           *)
(***************************************************************************)
VARIABLE sample

(* Nothing has been drawn yet.                                             *)
SampleInit == sample = [kind |-> "none"]

(* One of the inputs of the algorithm kind is drawn.                       *)
Draw(kind, inputs) ==
    /\ sample.kind = "none"
    /\ \E x \in inputs : sample' = [kind |-> kind, in |-> x]

Drawn(kind) == sample.kind = kind
=============================================================================
