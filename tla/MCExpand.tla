------------------------------ MODULE MCExpand ------------------------------
(* Instances of Expand: three digits, and a pattern with one group, named x. *)
EXTENDS Expand, TLC

DigitsTo2 == ("0" :> 0) @@ ("1" :> 1) @@ ("2" :> 2)
NamedX    == <<"x">> :> 1
=============================================================================
