-------------------------------- MODULE MCPprof --------------------------------
(* Model constants for Pprof: two workloads of one build, two of others, and    *)
(* one of a build that does not link the package.                              *)
EXTENDS Pprof

MCOpen(p) == [port |-> p, loopback |-> FALSE]
MCPorts == <<[w |-> 1, digest |-> "d1", ports |-> <<MCOpen(1), [port |-> 2, loopback |-> TRUE], MCOpen(3)>>],
             [w |-> 2, digest |-> "d2", ports |-> <<MCOpen(1)>>],
             [w |-> 3, digest |-> "d2", ports |-> <<MCOpen(1)>>],
             [w |-> 4, digest |-> "d3", ports |-> <<MCOpen(1)>>],
             [w |-> 5, digest |-> "d4", ports |-> <<MCOpen(1)>>]>>
MCMaxPerRound == "probe" :> 2 @@ "pull" :> 2 @@ "count" :> 3
MCBuilds == "d1" :> {<<"a.io", "x">>} @@ "d4" :> {} @@ "d2" :> {<<"a.io", "y">>, <<"a.io">>}
MCServesOn == {<<"d1", 1>>, <<"d2", 1>>, <<"d4", 1>>}
MCDomains == {"a.io"}
MCAllowed == {<<"a.io", "z">>}
MCFn(pkg) == [pkg |-> pkg, name |-> "f"]
MCOwn == MCFn(<<"a.io", "x", "sub">>)
MCOther == MCFn(<<"a.io", "y">>)
MCThird == MCFn(<<"a.io", "w">>)
MCMain == MCFn(<<"main">>)
MCRuntime == MCFn(<<"runtime">>)
MCProfile(l1, l2, st) ==
  [functions |-> {MCOwn, MCOther, MCThird, MCMain, MCRuntime}, locations |-> (1 :> l1 @@ 2 :> l2),
   samples |-> (1 :> st), identity |-> {"mapping", "label"}]
MCRawProfiles ==
  {MCProfile(<<NoFunction, MCOwn, MCThird>>, <<MCOther, MCMain>>, <<1, 2, 2>>),
   MCProfile(<<MCThird>>, <<MCRuntime>>, <<1, 2>>)}
=============================================================================
