-------------------------- MODULE MCProductAssembly --------------------------
(***************************************************************************)
(* ProductAssembly for TLC: two products whose rows alternate, a chain of  *)
(* three categories, and rows that may be written, two of them refused.    *)
(***************************************************************************)
EXTENDS ProductAssembly

Material(p, name, percentage) ==
    [of |-> p, name |-> name, percentage |-> percentage, origin |-> "PT"]
Weight(p, weight, unit) == [of |-> p, weight |-> weight, unit |-> unit]
Journey(p, step, km) == [of |-> p, step |-> step, km |-> km]
Pack(p, name, mass) == [of |-> p, category |-> name, mass |-> mass]

Synonyms == [cotton |-> "cotton", coton |-> "cotton", wool |-> "wool"]

Rows == [materials |-> <<Material(1, "cotton", 60), Material(2, "wool", Null),
                         Material(1, "coton", 40)>>,
         weights |-> <<Weight(2, 500, None)>>,
         steps |-> <<Journey(1, "dyeing", 7), Journey(2, "sewing", Null)>>,
         packaging |-> <<Pack(1, "box", 50)>>]

Written == [materials |-> {Material(2, None, 30), Material(2, "wool", 120)},
            weights |-> {Weight(1, 2, "kg"), Weight(1, 3, "stone"), Weight(1, -5, "g")},
            steps |-> {Journey(1, "sewing", 5)},
            packaging |-> {Pack(1, "bag", 5)}]

InCategory == (1 :> "shirts") @@ (2 :> "none")
Chain == [clothes |-> "none", tops |-> "clothes", shirts |-> "tops"]
=============================================================================
