----------------------------- MODULE MCDataRoot -----------------------------
(***************************************************************************)
(* Small values for the files of the data root: two profiles, a stack and  *)
(* its layer; two jobs and a CLI build that fail; two clients that edit    *)
(* the hardware catalog.                                                   *)
(***************************************************************************)
EXTENDS DataRoot

MCTargetOf == [s |-> "p"]
MCLayersOf == [s |-> {"l"}]
MCShipped  == {<<"bundled", "p">>, <<"local", "p">>, <<"bundled", "q">>, <<"local", "q">>,
               <<"bundled", "l">>}

-----------------------------------------------------------------------------
\* Texts and the longer texts they are in; "ngc:25" and "cuda:12" are images.
MCWithin   == {<<"ngc", "ngc:24">>, <<"ngc", "ngc:25">>, <<"cuda", "cuda:12">>}
MCFixes    == [vllm |-> "v", datasets |-> "d"]
MCFamilyOf == ("cuda:12" :> "cuda")

Rule(text, packages) == [contains |-> text, packages |-> packages, noBinary |-> {}]
MCNoRules == <<Rule("none", <<>>)>>

MCRules ==
    {MCNoRules,
     <<Rule("", [vllm |-> "old"]), Rule("ngc", [vllm |-> "old"]), Rule("ngc", [vllm |-> "older"])>>,
     <<Rule("ngc:24", [tts |-> "old"]), Rule("cuda", [tts |-> "old"])>>}

MCFailures ==
    {[pipConflict |-> TRUE,  mentions |-> {"vllm", "dill"}, base |-> "ngc:25"],
     [pipConflict |-> TRUE,  mentions |-> {"vllm"},         base |-> "cuda:12"],
     [pipConflict |-> FALSE, mentions |-> {"vllm"},         base |-> "ngc:25"]}

-----------------------------------------------------------------------------
MCFirstIds == <<"ampere", "ada">>
=============================================================================
