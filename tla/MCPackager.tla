----------------------------- MODULE MCPackager ------------------------------
(* Instances of Packager for TLC: sets below, at and above a block.         *)
EXTENDS Packager

\* The third key has the position of the first in its turn.
SomeSets == [ID |-> {SetToBag({1}), SetToBag({1, 2}), [t \in {1} |-> 3]},
             DynaKey |-> {SetToBag({2}), SetToBag({1, 2, 3})}]

=============================================================================
