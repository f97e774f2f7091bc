------------------------------ MODULE GuidedStack ------------------------------
(***************************************************************************)
(* The guided creation of a stack (ui/wizard_entities/stack.py): one layer *)
(* of each group is picked in turn, among options that are classified      *)
(* against the layers picked so far, the target profile and the type of    *)
(* inference (application/layer_option_classifier.py).                     *)
(*                                                                         *)
(* A label never hides an option: the user may pick a layer that is marked *)
(* incompatible.  With --layer there is no review and nothing is marked;   *)
(* such a stack is a recipe like any other.                                *)
(***************************************************************************)
EXTENDS Planner

CONSTANTS
    GroupOf        \* the group of each layer

\* LAYER_ORDER
LayerOrder ==
    <<"system_runtime_layer", "driver_accelerator_layer", "core_compute_layer",
      "inference_engine_layer", "optimization_compilation_layer", "serving_layer",
      "application_orchestration_layer", "observability_operations_layer">>

\* REQUIRED_LAYER_GROUPS
Required == {"system_runtime_layer", "inference_engine_layer", "serving_layer"}

\* The types of inference the wizard offers, and what the matrix has to say of
\* layers by the words they go by: no layer with a blocked word, and only
\* layers with an allowed one.  (It also prefers some, which marks nothing.)
InferenceTypes == {"llm_chat", "embeddings", "multimodal_generation", "asr", "general_api_inference"}

Training == {"unsloth", "finetune", "training", "lora", "qlora"}

CapabilityMatrix ==
    {[inference |-> "llm_chat", group |-> "inference_engine_layer",
      allowed |-> {"llm", "vllm", "sglang", "transformer", "chat"},
      blocked |-> {"diffusion", "flux", "asr", "tts", "embedding", "vision"}],
     [inference |-> "embeddings", group |-> "inference_engine_layer",
      allowed |-> {"embedding", "retrieval", "sentence", "vector"},
      blocked |-> {"diffusion", "flux", "asr", "tts"}],
     [inference |-> "multimodal_generation", group |-> "inference_engine_layer",
      allowed |-> {"diffusion", "flux", "syncdreamer", "image-gen", "multimodal"},
      blocked |-> {"llm", "asr", "tts", "embedding"}],
     [inference |-> "asr", group |-> "inference_engine_layer",
      allowed |-> {"asr", "speech", "whisper"},
      blocked |-> {"diffusion", "flux", "tts", "llm", "embedding"}]}
    \union {[inference |-> t, group |-> "optimization_compilation_layer", allowed |-> {}, blocked |-> Training] :
               t \in InferenceTypes \ {"general_api_inference"}}

\* _matrix_eval
MatrixBlocks(l, inference) ==
    \E rule \in CapabilityMatrix :
        /\ rule.inference = inference /\ rule.group = GroupOf[l.id]
        /\ \/ rule.blocked \intersect l.tokens # {}
           \/ rule.allowed # {} /\ rule.allowed \intersect l.tokens = {}

-----------------------------------------------------------------------------
\* Mutant of MarkedIncompatible: a conflict counts only where the candidate
\* declares it.
MarkedByItself(l, selected, p, inference) ==
    \/ MatrixBlocks(l, inference)
    \/ selected \intersect l.incompatible # {}
    \/ Mismatches(l.requires, p) # {}

\* classify_layer_options: not for this type of inference, in a conflict
\* declared on either side, or with a requirement the profile does not meet.
MarkedIncompatible(l, selected, p, inference) ==
    \/ MatrixBlocks(l, inference)
    \/ selected \intersect l.incompatible # {}
    \/ \E id \in selected : l.id \in LayerOf[id].incompatible
    \/ Mismatches(l.requires, p) # {}

\* _review_layers: from the picks so far to the picks with one more group.
\* The system runtime cannot be skipped when there is one.
Review(picks, group, p, inference) ==
    LET options == {id \in DOMAIN GroupOf : GroupOf[id] = group}
        Picked(pick, id) ==
            [layers |-> Append(pick.layers, id),
             warned |-> pick.warned \/ MarkedIncompatible(LayerOf[id], Range(pick.layers), p, inference)]
    IN  (IF group = "system_runtime_layer" /\ options # {} THEN {} ELSE picks)
        \union UNION {{Picked(pick, id) : id \in options} : pick \in picks}

\* The outcomes of the review that have every required group.
Reviewed(p, inference) ==
    LET after[i \in 0..Len(LayerOrder)] ==
            IF i = 0 THEN {[layers |-> <<>>, warned |-> FALSE]}
            ELSE Review(after[i - 1], LayerOrder[i], p, inference)
    IN  {pick \in after[Len(LayerOrder)] : Required \subseteq {GroupOf[id] : id \in Range(pick.layers)}}

\* run_stack_create_wizard: the stacks it creates for a target profile and a
\* type of inference; one that does not compose is shown and not created.
GuidedStacks(blank, p, inference) ==
    {[recipe |-> [blank EXCEPT !.layers = pick.layers], warned |-> pick.warned] :
        pick \in {k \in Reviewed(p, inference) : ComposeError([blank EXCEPT !.layers = k.layers]) = ""}}

\* A recipe that is said to come from the wizard was made by it.  (The set
\* guide has no element for the others, and one for these.)
ASSUME WizardAssumption ==
    /\ DOMAIN GroupOf \subseteq DOMAIN LayerOf
    /\ \A r \in Requests \union NextRequests : \A guide \in r.guide :
          [recipe |-> r.recipe, warned |-> guide.warned]
              \in GuidedStacks([r.recipe EXCEPT !.layers = <<>>], r.profile, guide.inference)

-----------------------------------------------------------------------------
\* The wizard marks a picked layer incompatible exactly when the resolver
\* refuses the stack for its layers or the matrix blocks one for the type of
\* inference, which the resolver never looks at.  The wizard compares with
\* the layers picked before, one at a time, the resolver with all of them.
WizardForetellsResolver ==
    stage = "evaluate" =>
        \A guide \in request.guide :
            guide.warned <=>
                \/ LayerErrors(stack, Layers(stack), request.profile) # {}
                \/ \E l \in Layers(stack) : MatrixBlocks(l, guide.inference)

=============================================================================
