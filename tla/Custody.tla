------------------------------- MODULE Custody --------------------------------
(***************************************************************************)
(* What the engine promises about the modules it is asked to load, whatever *)
(* becomes of their encoding: at any time each has one holder, the one who *)
(* makes it or the table of loaded modules, until it is released, once; what*)
(* the table holds it holds to the end; and in the end nothing is held.     *)
(***************************************************************************)
EXTENDS Naturals, Sequences

CONSTANT Name

VARIABLES
    names,      \* the name of each module ever made
    holder,     \* who holds it: "maker", "table", "nobody"
    open        \* modules can still be asked for

custody == <<names, holder, open>>

Init == names = <<>> /\ holder = <<>> /\ open = TRUE

\* A name is taken from when a module of that name is in the making.
Taken(n) == \E m \in DOMAIN holder : holder[m] # "nobody" /\ names[m] = n

Make ==
    /\ open
    /\ \A m \in DOMAIN holder : holder[m] # "maker"
    /\ \E n \in Name : ~ Taken(n) /\ names' = Append(names, n)
    /\ holder' = Append(holder, "maker")
    /\ UNCHANGED open

\* The maker hands its module to the table, or releases it.
HandOver ==
    /\ \E m \in DOMAIN holder, h \in {"table", "nobody"} :
          holder[m] = "maker" /\ holder' = [holder EXCEPT ![m] = h]
    /\ UNCHANGED <<names, open>>

Shut ==
    /\ open
    /\ \A m \in DOMAIN holder : holder[m] # "maker"
    /\ open' = FALSE
    /\ UNCHANGED <<names, holder>>

Release ==
    /\ ~ open
    /\ \E m \in DOMAIN holder : holder[m] = "table" /\ holder' = [holder EXCEPT ![m] = "nobody"]
    /\ UNCHANGED <<names, open>>

Next == Make \/ HandOver \/ Shut \/ Release

\* What no step may break.
Safe == Init /\ [][Next]_custody

\* Every call ends, and the engine is destroyed once it is shut.
Spec == Safe /\ WF_custody(HandOver) /\ WF_custody(Release)

=============================================================================
