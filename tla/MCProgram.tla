------------------------------ MODULE MCProgram ------------------------------
(***************************************************************************)
(* Four parts of a program, one at a time: `part` is the one that runs,    *)
(* and the others stay in one of their initial states.                     *)
(***************************************************************************)
EXTENDS MCFlow, MCServices, Caches, MCGen

MCUsers == {1, 2}
MCMaxCalls == <<2, 1>>

VARIABLE part

programVars == <<part, flowVars, servicesVars, cachesVars, genVars>>

Init ==
    /\ part \in {"flow", "services", "caches", "gen"}
    /\ FlowInit
    /\ part # "flow" => /\ config = CHOOSE c \in Configs : TRUE
                        /\ engine = CHOOSE e \in Engines : TRUE
    /\ ServicesInit
    /\ part # "services" => scenario = CHOOSE s \in Scenarios : TRUE
    /\ CachesInit
    /\ part # "caches" => kept = "memory"
    /\ GenInit
    /\ part # "gen" => src = CHOOSE p \in Projects : TRUE

Next ==
    /\ UNCHANGED part
    /\ \/ part = "flow" /\ FlowNext /\ UNCHANGED <<servicesVars, cachesVars, genVars>>
       \/ part = "services" /\ ServicesNext /\ UNCHANGED <<flowVars, cachesVars, genVars>>
       \/ part = "caches" /\ CachesNext /\ UNCHANGED <<flowVars, servicesVars, genVars>>
       \/ part = "gen" /\ GenNext /\ UNCHANGED <<flowVars, servicesVars, cachesVars>>

Spec == Init /\ [][Next]_programVars /\ FlowFairness /\ ServicesFairness
=============================================================================
