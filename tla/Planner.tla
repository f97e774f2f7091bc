------------------------------- MODULE Planner -------------------------------
(***************************************************************************)
(* From a recipe and a profile to a plan: the composition is previewed and *)
(* done, its compatibility evaluated, a base image chosen, the build tuned *)
(* to the host and the plan assembled (resolvers/resolver.py with          *)
(* scoring.py, base_catalog.py, validators.py, build_optimization.py, and  *)
(* domain/hashing.py).                                                     *)
(*                                                                         *)
(* A request holds the recipe, the profile and the options of one ensure,  *)
(* and what properties need to know of how they were made: whether a CUDA  *)
(* runtime was seen on the host of a detected profile, and, of a recipe    *)
(* the stack wizard made (guide), for which type of inference and whether  *)
(* it marked a picked layer as incompatible.                               *)
(* Memory is in hundredths of a GB, 0 when the host facts lack it.         *)
(***************************************************************************)
EXTENDS StackComposition, Compatibility

CONSTANTS
    Requests,      \* what may be asked first,
    NextRequests,  \* ... and afterwards
    MaxRequests,   \* bound: requests served one after the other
    BuiltinTuples, \* default_tuple_catalog
    RoleMatches,   \* pairs <<role, name>>: the role is a word of the name
    TagMatches,    \* pairs <<cuda variant, tag>>: the tag is for the variant
    NameRank       \* the alphabetical rank of each base image name

\* The built-in catalog is a list, and a host has a number of processors and an
\* amount of memory (0 when unknown).
ASSUME PlannerAssumption ==
    /\ BuiltinTuples \in Seq(Range(BuiltinTuples))
    /\ \A r \in Requests \union NextRequests :
          /\ r.profile.cores \in Nat /\ r.profile.memory \in Nat
          /\ IsRecipe(r.recipe)

VARIABLES
    served,        \* requests submitted so far
    request,       \* the one being served
    stage,         \* how far it is
    stack,         \* the composed stack
    report,        \* its compatibility report
    plan,          \* the plan, while it is built up
    error          \* why it was refused, "" otherwise

planVars == <<served, request, stage, stack, report, plan, error>>

Nothing == [none |-> TRUE]
Tuples  == MergeTuples(BuiltinTuples)
Layers(s) == {LayerOf[s.layers[i]] : i \in DOMAIN s.layers}

-----------------------------------------------------------------------------
\* validate_profile
ProfileValid(p) ==
    /\ p.schema >= 2 \/ p.candidates # <<>>
    /\ "cuda" \in p.caps /\ p.cuda # <<>> => p.cuda[1] > 0
    /\ p.schema >= 3 /\ "cuda" \in p.caps => p.cuda # <<>>
    /\ \A i \in DOMAIN p.candidates : p.candidates[i].tags # <<>>

\* validate_stack, of a composed stack, which has a base role and a command.
StackValid(s) == s.schema >= 3 /\ s.derived # {} => s.needs # {}

\* _stack_with_tuple_hints
Hinted(s, decision) ==
    [s EXCEPT !.baseImage = IF decision.base.name # "" THEN decision.base.name ELSE @,
              !.baseTag   = IF decision.base.tag # "" THEN decision.base.tag ELSE @,
              !.wheelhouseHint = decision.wheelhouse]

\* candidates_for: the override, else the profile's, else a default.
CandidatesFor(p, s) ==
    CASE s.baseImage # "" ->
            <<[name |-> s.baseImage, tags |-> <<IF s.baseTag = "" THEN "latest" ELSE s.baseTag>>,
               bias |-> 1000]>>
      [] s.baseImage = "" /\ p.candidates # <<>> -> p.candidates
      [] OTHER ->
            <<[name |-> IF HasCuda(p) THEN "nvidia/cuda" ELSE "python",
               tags |-> <<IF HasCuda(p) THEN "12.4.1-runtime-ubuntu22.04" ELSE "3.10-slim">>,
               bias |-> 0]>>

\* _pick_best_tag
TagsForCuda(c, p) == SelectSeq(c.tags, LAMBDA t : <<p.cudaVariant, t>> \in TagMatches)
BestTag(c, p) ==
    IF TagsForCuda(c, p) # <<>> THEN Head(TagsForCuda(c, p)) ELSE Head(c.tags)

\* score_candidate
Score(c, s, p) ==
    c.bias + (IF <<s.baseRole, c.name>> \in RoleMatches THEN 200 ELSE 0)
           + (IF TagsForCuda(c, p) # <<>> THEN 50 ELSE 0)

Better(a, b, s, p) ==
    \/ Score(a, s, p) > Score(b, s, p)
    \/ Score(a, s, p) = Score(b, s, p) /\ NameRank[a.name] < NameRank[b.name]

\* select_base sorts the candidates (a stable sort) and takes the first;
\* select_base_detailed, when an explanation is asked for, then takes the
\* first candidate that has the name of that one.
SelectBase(p, s, explain) ==
    LET cs    == CandidatesFor(p, s)
        first == CHOOSE i \in DOMAIN cs :
                    \A j \in DOMAIN cs \ {i} :
                        Better(cs[i], cs[j], s, p) \/ (~Better(cs[j], cs[i], s, p) /\ i < j)
        named == CHOOSE i \in DOMAIN cs :
                    cs[i].name = cs[first].name /\ \A j \in 1..(i - 1) : cs[j].name # cs[first].name
        best  == cs[IF explain THEN named ELSE first]
    IN  [name |-> best.name, tag |-> BestTag(best, p)]

-----------------------------------------------------------------------------
Least(a, b)    == IF a < b THEN a ELSE b
Greatest(a, b) == IF a < b THEN b ELSE a
Chosen(deps)   == {n \in DOMAIN deps : deps[n] # Unset}

\* estimate_build_memory_gb
EstimatedMemory(s) ==
    150 + 25 * Cardinality(Chosen(s.pip)) + 35 * Cardinality(Chosen(s.npm))
        + 20 * Cardinality(s.apt) + 5 * Cardinality(s.copies)

\* _stack_requires_gpu
RequiresGpu(layers) ==
    \E l \in layers : \/ l.requires.vendor # "" \/ l.requires.runtime = "nvidia"
                      \/ l.requires.cudaMin # <<>> \/ l.requires.cudaMax # <<>>
                      \/ l.requires.cudaVariants # {}

\* _validate_strict_host_facts, and the way out for curated profiles.
HostFactsMissing(p) == p.cores = 0 \/ p.memory = 0 \/ p.driver = <<>> \/ p.cc = <<>>

OptimizationRefused(p, s, strictHost) ==
    strictHost /\ RequiresGpu(Layers(s)) /\ HostFactsMissing(p) /\ ~p.curated

Route(p) == IF p.vendor \in {"nvidia", "amd", "intel"} THEN "aggressive" ELSE "balanced"

\* _workload_family and _serving_stack, of a composed stack (whose task and
\* api are "custom"): the first family one of whose tokens the layers have.
FirstFamily(families, tokens, default) ==
    LET met == SelectSeq(families, LAMBDA f : f.tokens \intersect tokens # {})
    IN  IF met = <<>> THEN default ELSE Head(met).name

Workload(tokens) ==
    FirstFamily(<<[name |-> "rag",        tokens |-> {"rag", "retrieval", "agentic"}],
                  [name |-> "embeddings", tokens |-> {"embedding", "sentence", "vector"}],
                  [name |-> "asr",        tokens |-> {"whisper", "asr", "speech"}],
                  [name |-> "vision",     tokens |-> {"vision", "onnx", "detector", "segmentation"}],
                  [name |-> "diffusion",  tokens |-> {"diffusion", "flux", "syncdreamer", "hunyuan"}],
                  [name |-> "llm",        tokens |-> {"llm", "vllm", "sglang"}]>>,
                tokens, "general")

ServingStack(tokens) ==
    FirstFamily(<<[name |-> "grpc",    tokens |-> {"grpc"}],
                  [name |-> "fastapi", tokens |-> {"fastapi"}],
                  [name |-> "triton",  tokens |-> {"triton"}]>>,
                tokens, "generic")

\* _bounded_knobs: the settings written into the image.
Knobs(p, tokens) ==
    LET serves == tokens \intersect {"serving", "fastapi", "grpc"} # {}
    IN  [dtype    |-> IF p.vendor = "nvidia" THEN "bf16" ELSE "fp16",
         compile  |-> tokens \intersect {"inference", "runtime"} # {},
         serving  |-> IF ~serves THEN "none"
                      ELSE IF Route(p) = "balanced" THEN "balanced" ELSE ServingStack(tokens),
         workload |-> Workload(tokens),
         memory   |-> IF Route(p) = "aggressive" THEN "device_first" ELSE "portable",
         host     |-> <<p.arch, p.runtime, p.vendor, p.family, p.cc, p.driver, p.cores, p.memory>>]

\* Memory budget: what is left beside the system, or a guess.
Budget(p) == IF p.memory = 0 THEN 400 ELSE Greatest(150, p.memory - 200)

OomRisk(p, s) ==
    CASE 100 * EstimatedMemory(s) > 85 * Budget(p) -> "high"
      [] /\ 100 * EstimatedMemory(s) <= 85 * Budget(p)
         /\ 100 * EstimatedMemory(s) > 65 * Budget(p) -> "medium"
      [] OTHER -> "low"

\* Parallel build jobs: what the processors and the budget bear, at most two
\* when the build itself may not fit.
Jobs(p, s) ==
    LET cores == IF p.cores = 0 THEN 2 ELSE p.cores
        byCpu == Greatest(1, IF Route(p) = "aggressive" THEN cores ELSE cores - 1)
        byMem == Greatest(1, Budget(p) \div 150)
        most  == Least(byCpu, byMem)
    IN  IF OomRisk(p, s) = "high" THEN Least(most, 2) ELSE most

-----------------------------------------------------------------------------
\* canonicalize: what the fingerprint, and with it the tag, depends on.
Fingerprint(p, s, base) ==
    [base    |-> base,
     profile |-> <<p.id, p.arch, p.cudaVariant>>,
     stack   |-> <<s.id, s.baseRole, s.strategy, s.serve, s.pip, s.npm, s.apt, s.aptPins>>,
     modes   |-> <<s.aptMode, s.pipMode, s.wheelhouse, s.npmMode>>,
     rest    |-> <<s.copies, s.env, s.ports, s.baseImage, s.baseTag, s.wheelhouseHint>>]

-----------------------------------------------------------------------------
Init ==
    /\ served = 0 /\ request = Nothing /\ stage = "idle"
    /\ stack = Nothing /\ report = Nothing /\ plan = Nothing
    /\ error = ""

\* A request is an ensure, or (plan, check) stops at the plan.
Submit ==
    /\ \/ stage \in {"idle", "refused"}
       \/ stage = "planned" /\ ~request.ensure
    /\ served < MaxRequests
    /\ served' = served + 1
    /\ request' \in (IF served = 0 THEN Requests ELSE NextRequests)
    /\ stage' = "compose"
    /\ stack' = Nothing /\ report' = Nothing /\ plan' = Nothing
    /\ error' = ""

Refuse(why) ==
    /\ stage' = "refused"
    /\ error' = why
    /\ UNCHANGED <<served, request, stack, report, plan>>

\* load_stack composes the recipe; the preview of the wizard runs the
\* analyzers on the same recipe.
Compose ==
    /\ stage = "compose"
    /\ LET why == ComposeError(request.recipe)
       IN  \/ why # "" /\ Refuse(why)
           \/ /\ why = ""
              /\ stack' = MergedStack(request.recipe)
              /\ stage' = "evaluate"
              /\ UNCHANGED <<served, request, report, plan, error>>

\* resolve, steps 1 and 2: validation, compatibility, the rules on the stack.
Evaluate ==
    /\ stage = "evaluate"
    /\ LET p == request.profile
           errors == CompatErrors(p, stack, Layers(stack), request.mode, request.strict, Tuples)
                     \union StackErrors(p, stack)
       IN  \/ ~ProfileValid(p) /\ Refuse("profile")
           \/ ProfileValid(p) /\ ~StackValid(stack) /\ Refuse("stack")
           \/ ProfileValid(p) /\ StackValid(stack) /\ errors # {} /\ Refuse("incompatible")
           \/ /\ ProfileValid(p) /\ StackValid(stack) /\ errors = {}
              /\ report' = [tuple |-> TupleDecision(p, request.mode, Tuples),
                            warnings |-> RuleWarnings(p, request.strict)]
              /\ stage' = "select"
              /\ UNCHANGED <<served, request, stack, plan, error>>

\* Steps 4 and 5: the base image and the fingerprint, of the hinted stack.
Select ==
    /\ stage = "select"
    /\ LET hinted == Hinted(stack, report.tuple)
           base   == SelectBase(request.profile, hinted, request.explain)
       IN  /\ stack' = hinted
           /\ plan' = [base |-> base,
                       fingerprint |-> Fingerprint(request.profile, hinted, base),
                       jobs |-> 0, knobs |-> Nothing]
    /\ stage' = "optimize"
    /\ UNCHANGED <<served, request, report, error>>

\* Step 7.
Optimize ==
    /\ stage = "optimize"
    /\ \/ OptimizationRefused(request.profile, stack, request.strictHost) /\ Refuse("host facts")
       \/ /\ ~OptimizationRefused(request.profile, stack, request.strictHost)
          /\ plan' = [plan EXCEPT
                !.jobs  = Jobs(request.profile, stack),
                !.knobs = Knobs(request.profile, UNION {l.tokens : l \in Layers(stack)})]
          /\ stage' = "planned"
          /\ UNCHANGED <<served, request, stack, report, error>>

PlanStep == Compose \/ Evaluate \/ Select \/ Optimize

-----------------------------------------------------------------------------
\* The preview lists a dependency error exactly when composing would raise
\* one: the analyzers of analyze_recipe_dependency_conflicts and the merge of
\* compose_stack are two walks over the same layers that must agree.  (Its
\* wheelhouse errors are left out: composing settles those by precedence.)
PreviewPredictsCompose ==
    stage = "compose" /\ ComposeError(request.recipe) \notin {"duplicate", "unknown"} =>
        (ComposeError(request.recipe) = "dependency" <=>
            \E conflict \in Preview(request.recipe).errors : conflict[1] # "wheelhouse")

\* When the preview reports nothing, neither errors nor overlaps nor runtime
\* conflicts, the order of the layers does not matter: every permutation of
\* them composes to the same contents.  The fields no analyzer looks at must
\* not be overridden.
Contents(s) ==
    <<s.pip, s.npm, s.apt, s.aptPins, s.copies, s.ports, s.env, s.variants, s.baseRole, s.strategy,
      s.entrypoint>>

QuietPreviewMeansOrderFree ==
    stage = "compose" /\ ComposeError(request.recipe) = "" =>
        LET r == request.recipe
            quiet == Preview(r).errors = {} /\ Preview(r).overlaps = {} /\ Preview(r).runtime = {}
        IN  quiet /\ Unwatched(Parts(r)) = {} =>
                \A order \in [DOMAIN r.layers -> Range(r.layers)] :
                    Range(order) = Range(r.layers) =>
                        Contents(MergedStack([r EXCEPT !.layers = order])) = Contents(MergedStack(r))

\* When a supported tuple matches the profile, the plan is built on the base
\* image of a supported tuple, whatever experimental tuples match before it
\* and whatever bases the profile lists.
SupportedTupleWins ==
    stage \in {"optimize", "planned"} /\ request.mode # "off" =>
        LET supported == {t \in Range(Tuples) : t.status = "supported" /\ Matches(request.profile, t)}
        IN  supported # {} /\ (\A t \in supported : t.base.name # "") =>
                plan.base.name \in {t.base.name : t \in supported}

=============================================================================
