--------------------------- MODULE MCTaskContract ---------------------------
(***************************************************************************)
(* Every worker, every on_failure, one to three steps over a read, a write *)
(* and the two identity capabilities.                                      *)
(***************************************************************************)
EXTENDS TaskContract

MCStep(use, on_failure) == [use |-> use, on_failure |-> on_failure]

Shapes ==
    {<<"objectstore.write">>, <<Whoami>>,
     <<"objectstore.read", "objectstore.write">>,
     <<"objectstore.write", "objectstore.read">>,
     <<"objectstore.write", "objectstore.write">>,
     <<Whoami, "objectstore.write">>,
     <<Redelegate, "objectstore.write">>,
     <<"objectstore.write", "objectstore.read", "objectstore.write">>,
     <<"objectstore.read", Redelegate, "objectstore.write">>}

Failures == {"continue", "abort", "retry"}

MCPlans ==
    UNION {{[worker |-> w, mustNotSubstitute |-> s, mustNotRedelegate |-> TRUE,
             steps |-> [i \in DOMAIN shape |-> MCStep(shape[i], on_failure[i])]] :
                w \in Workers, s \in BOOLEAN, on_failure \in [DOMAIN shape -> Failures]} :
                    shape \in Shapes}
=============================================================================
