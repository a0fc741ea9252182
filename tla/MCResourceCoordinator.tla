------------------------ MODULE MCResourceCoordinator ------------------------
(* Two workflow steps whose tools ask for what the other step holds, one   *)
(* of them through a directory and a named key, and two direct calls of    *)
(* the files tool: one below both, one for nothing.                        *)
EXTENDS ResourceCoordinator

CONSTANTS step1, tool1, step2, tool2, files, idle

MCCalls == {step1, tool1, step2, tool2, files, idle}
MCOwner == (step1 :> "one") @@ (tool1 :> "one") @@ (step2 :> "two")
           @@ (tool2 :> "two") @@ (files :> "three") @@ (idle :> "four")
MCOuter == (step1 :> NoCall) @@ (tool1 :> step1) @@ (step2 :> NoCall)
           @@ (tool2 :> step2) @@ (files :> NoCall) @@ (idle :> NoCall)
MCWants ==
    (step1 :> {Path(<<"a">>), Key("k")})
    @@ (tool1 :> {Path(<<"b", "x">>), Path(<<"a", "x">>)})
    @@ (step2 :> {Path(<<"b">>)})
    @@ (tool2 :> {Key("k")})
    @@ (files :> {Path(<<"a", "x", "y">>), Path(<<"b", "x", "z">>)})
    @@ (idle :> {})
=============================================================================
