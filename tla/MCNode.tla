-------------------------------- MODULE MCNode --------------------------------
(* Two nodes running two builds of one workload, two processes on the first. *)
EXTENDS NodeRole

CONSTANTS p1, p2, n1, n2

MCNodeOf == p1 :> n1 @@ p2 :> n2
MCKeyOf == p1 :> 1 @@ p2 :> 1
MCDigestOf == p1 :> "d1" @@ p2 :> "d2"
MCPodOf == 1 :> p1 @@ 2 :> p1 @@ 3 :> p2
MCVersionOf == 1 :> "v1" @@ 2 :> "v1" @@ 3 :> "v2"
MCPortsOf == 1 :> {[port |-> 80, loopback |-> TRUE]} @@ 2 :> {[port |-> 80, loopback |-> FALSE]}
             @@ 3 :> {}
MCBudget == "inventory" :> 1 @@ "profiling" :> 2
MCNoBudget == "inventory" :> 0 @@ "profiling" :> 0
MCCPUsOf == n1 :> 2 @@ n2 :> 0
=============================================================================
