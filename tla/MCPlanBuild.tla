----------------------------- MODULE MCPlanBuild -----------------------------
(***************************************************************************)
(* Small specifications for ImageBuild: layers that agree and clash, hosts *)
(* with and without an accelerator, facts that are known, unknown or old.  *)
(***************************************************************************)
EXTENDS ImageBuild, HostProfile, GuidedStack

MCPackages  == {"torch", "vllm"}
MCNpmKeys   == {"vite"}
MCVersions  == {1, 2}
MCLockfiles == {"package-lock.json"}

NoRequires ==
    [arch |-> "", os |-> "", osFamily |-> "", osVersion |-> "", vendor |-> "", vendorId |-> "",
     familyId |-> "", runtime |-> "", driverMin |-> <<>>, cudaMin |-> <<>>, cudaMax |-> <<>>,
     cudaVariants |-> {}]

Plain(id) ==
    [id |-> id, schema |-> 2, baseRole |-> "", strategy |-> "", entrypoint |-> "", pip |-> <<>>, npm |-> <<>>,
     apt |-> {}, aptPins |-> <<>>, aptMode |-> "repo", pipMode |-> "index", wheelhouse |-> "",
     npmMode |-> "spec", copies |-> {}, env |-> <<>>, ports |-> {}, variants |-> <<>>,
     requires |-> NoRequires, incompatible |-> {}, tokens |-> {}, needs |-> {}, derived |-> {}]

Torch(spec) == <<[name |-> "torch", version |-> spec]>>
Vite(v)     == <<[name |-> "vite", version |-> v]>>
Entry(k, v) == <<[key |-> k, value |-> v]>>

MCLayerOf ==
    [cuda  |-> [Plain("cuda") EXCEPT
                    !.requires = [NoRequires EXCEPT !.vendor = "nvidia", !.driverMin = <<535>>,
                                                    !.cudaMin = <<12, 1>>, !.arch = "x86_64"],
                    !.pip = Torch(Ranging({1, 2})) \o <<[name |-> "vllm", version |-> Latest]>>,
                    !.baseRole = "pytorch", !.tokens = {"inference", "llm"}],
     old   |-> [Plain("old") EXCEPT !.pip = Torch(Pinned(1)), !.env = Entry("MODE", "old")],
     new   |-> [Plain("new") EXCEPT !.pip = Torch(Pinned(2)), !.entrypoint = "serve",
                                    !.env = Entry("MODE", "new")],
     any   |-> [Plain("any") EXCEPT !.pip = Torch(Latest), !.ports = {8000}, !.apt = {"curl"}],
     tools |-> [Plain("tools") EXCEPT !.apt = {"git"}, !.aptPins = Entry("git", "=1"), !.incompatible = {"old"},
                                      !.tokens = {"serving", "fastapi"}, !.strategy = "pull"],
     site  |-> [Plain("site") EXCEPT !.npm = Vite("4"), !.copies = {"package-lock.json"}, !.npmMode = "lock_only",
                                     !.apt = {"git"}, !.aptPins = Entry("git", "=2"), !.variants = Entry("size", "s")],
     site5 |-> [Plain("site5") EXCEPT !.npm = Vite("5"), !.requires.osVersion = "22.04", !.strategy = "overlay",
                                      !.variants = Entry("size", "l")],
     \* Installs from wheels only, each from its own.
     wheels |-> [Plain("wheels") EXCEPT !.pipMode = "wheelhouse_only", !.wheelhouse = "wheels",
                                       !.tokens = {"lora"}],
     \* "serve" and "tools" declare a conflict with a layer of an earlier
     \* group, "torch" one with a layer of a later group.
     torch |-> [Plain("torch") EXCEPT !.incompatible = {"tools"}, !.requires = [NoRequires EXCEPT !.runtime = "nvidia"]],
     onnx  |-> [Plain("onnx") EXCEPT !.baseRole = "python", !.tokens = {"vision", "asr"}],
     serve |-> [Plain("serve") EXCEPT !.incompatible = {"new", "onnx"}]]

MCGroupOf ==
    [any |-> "system_runtime_layer", site5 |-> "system_runtime_layer",
     old |-> "core_compute_layer", new |-> "core_compute_layer",
     wheels |-> "optimization_compilation_layer",
     cuda |-> "inference_engine_layer", torch |-> "inference_engine_layer", onnx |-> "inference_engine_layer",
     tools |-> "serving_layer", serve |-> "serving_layer"]

Recipe(ids) == Plain("app") @@ [layers |-> ids]
\* The layers whose every order is composed.
Composed == {"cuda", "old", "new", "any", "tools", "site", "site5", "wheels"}

\* Every order of up to three layers, and two recipes no loader accepts.
LayerLists ==
    {s \in UNION {[1..n -> Composed] : n \in 1..3} : Cardinality(Range(s)) = Len(s)}
    \union {<<"old", "old">>, <<"cuda", "gone">>}

\* Recipes the loader accepts.
Policies(ids) ==
    {Recipe(ids),
     [Recipe(ids) EXCEPT !.aptMode = "pin_only"],
     [Recipe(ids) EXCEPT !.npmMode = "lock_only", !.copies = {"package-lock.json"}],
     [Recipe(ids) EXCEPT !.pipMode = "wheelhouse_only", !.wheelhouse = "dist", !.pip = Torch(Pinned(2))]}

-----------------------------------------------------------------------------
Gpu ==
    [id |-> "gpu", arch |-> "amd64", os |-> "linux", osFamily |-> "ubuntu", osFamilyId |-> "ubuntu",
     osVersion |-> "ubuntu_22_04", runtime |-> "nvidia", vendor |-> "nvidia", family |-> "ampere",
     cuda |-> <<12, 4>>, cudaVariant |-> "cuda12.4", driver |-> <<550, 54>>, driverDetected |-> TRUE,
     cc |-> <<8, 0>>, caps |-> {"cuda"}, schema |-> 3, cores |-> 8, memory |-> 600,
     candidates |-> <<[name |-> "python", tags |-> <<"3.11">>, bias |-> 100],
                      [name |-> "nvcr.io/nvidia/pytorch", tags |-> <<"py3", "cuda12.4-py3">>, bias |-> 0]>>,
     disallowed |-> {}, curated |-> FALSE]

Cpu == [Gpu EXCEPT !.id = "cpu", !.runtime = "runc", !.vendor = "", !.family = "", !.cuda = <<>>,
                   !.cudaVariant = "", !.driver = <<>>, !.cc = <<>>, !.caps = {}, !.cores = 6,
                   !.memory = 1600, !.candidates = <<>>, !.driverDetected = FALSE]

MCProfiles ==
    {Gpu, Cpu,
     [Gpu EXCEPT !.id = "dotted", !.driver = <<550, 54, 15>>, !.memory = 0],
     [Gpu EXCEPT !.id = "stale", !.driver = <<470, 10>>, !.cuda = <<11, 2>>],
     [Gpu EXCEPT !.id = "curated", !.curated = TRUE, !.cores = 0, !.memory = 300],
     [Gpu EXCEPT !.id = "unknown", !.cores = 0, !.candidates = <<>>],
     [Gpu EXCEPT !.id = "arm", !.arch = "arm64", !.disallowed = {"custom"}],
     [Cpu EXCEPT !.id = "v1", !.schema = 1],
     [Cpu EXCEPT !.id = "twins", !.candidates = <<[name |-> "python", tags |-> <<"3.11">>, bias |-> 0],
                                                  [name |-> "python", tags |-> <<"3.12">>, bias |-> 5],
                                                  [name |-> "node", tags |-> <<"20">>, bias |-> 5]>>]}

Selector ==
    [arch |-> "", osFamily |-> "", osVersion |-> "", runtime |-> "", vendor |-> "", family |-> "",
     cudaMin |-> <<>>, cudaMax |-> <<>>, driverMin |-> <<>>]
Tuple(id, status, selector, base) ==
    [id |-> id, status |-> status, selector |-> selector, base |-> base, wheelhouse |-> ""]

MCBuiltinTuples ==
    <<Tuple("wide", "experimental", [Selector EXCEPT !.vendor = "nvidia", !.runtime = "nvidia"],
            [name |-> "nvcr.io/nvidia/pytorch", tag |-> "wide"]),
      Tuple("amd64", "supported", [Selector EXCEPT !.arch = "amd64", !.vendor = "nvidia",
                                                   !.cudaMin = <<12, 4>>, !.driverMin = <<535>>],
            [name |-> "nvidia/cuda", tag |-> "12.4"])>>
MCRootTuples ==
    <<Tuple("local", "supported", [Selector EXCEPT !.vendor = "nvidia", !.family = "ampere", !.cudaMin = <<12>>],
            [name |-> "nvidia/cuda", tag |-> ""]),
      Tuple("wide", "experimental", [Selector EXCEPT !.vendor = "nvidia", !.runtime = "nvidia"],
            [name |-> "nvcr.io/nvidia/pytorch", tag |-> "wider"])>>

NoWhen    == [arch |-> "", osFamily |-> "", vendor |-> "", family |-> "", ccMin |-> <<>>, ccMax |-> <<>>]
NoDemand  == [runtime |-> "", driverMin |-> <<>>, cudaMin |-> <<>>, cudaMax |-> <<>>]
MCRules ==
    {[id |-> "runtime", enabled |-> TRUE, deprecated |-> FALSE, strictHard |-> TRUE, severity |-> "error",
      when |-> [NoWhen EXCEPT !.vendor = "nvidia"], requires |-> [NoDemand EXCEPT !.runtime = "nvidia"]],
     [id |-> "driver", enabled |-> TRUE, deprecated |-> FALSE, strictHard |-> TRUE, severity |-> "error",
      when |-> [NoWhen EXCEPT !.vendor = "nvidia"], requires |-> [NoDemand EXCEPT !.driverMin = <<535>>]],
     [id |-> "window", enabled |-> TRUE, deprecated |-> FALSE, strictHard |-> FALSE, severity |-> "warning",
      when |-> [NoWhen EXCEPT !.family = "ampere"],
      requires |-> [NoDemand EXCEPT !.cudaMin = <<11, 8>>, !.cudaMax = <<12, 5>>]]}

MCCanonical   == [a \in {"x86_64", "22.04"} |-> IF a = "x86_64" THEN "amd64" ELSE "ubuntu_22_04"]
MCRoleMatches == {<<"pytorch", "nvcr.io/nvidia/pytorch">>, <<"python", "python">>}
MCTagMatches  == {<<"cuda12.4", "cuda12.4-py3">>}
Names         == <<"node", "nvcr.io/nvidia/pytorch", "nvcr.io/nvidia/tritonserver", "nvidia/cuda", "python">>
MCNameRank    == [n \in Range(Names) |-> CHOOSE i \in DOMAIN Names : Names[i] = n]

-----------------------------------------------------------------------------
Item(id, label, aliases, parent) == [id |-> id, label |-> label, aliases |-> aliases, parent |-> parent]
Plainly(id, parent) == Item(id, id, {}, parent)

MCHardware ==
    [arch      |-> <<Item("amd64", "amd64", {"x86_64"}, ""), Item("arm64", "arm64", {"aarch64"}, ""),
                     Item("ppc64le", "ppc64le", {"powerpc64le"}, "")>>,
     osFamily  |-> <<Plainly("linux", ""), Plainly("ubuntu", ""), Plainly("fedora", "")>>,
     osVersion |-> <<Item("linux_generic", "Generic Linux", {"linux"}, "linux"),
                     Item("ubuntu_22_04", "Ubuntu 22.04", {"22.04"}, "ubuntu"),
                     Item("ubuntu_24_04", "Ubuntu 24.04", {"24.04"}, "ubuntu")>>,
     runtime   |-> <<Plainly("nvidia", ""), Plainly("runc", "")>>,
     vendor    |-> <<Plainly("nvidia", ""), Plainly("amd", "")>>,
     family    |-> <<Plainly("blackwell", "nvidia"), Plainly("ampere", "nvidia"), Plainly("cdna3", "amd")>>,
     model     |-> <<Item("nvidia_gb10", "nvidia gb10", {"gb10"}, "blackwell"),
                     Item("nvidia_a100", "nvidia a100", {"a100"}, "ampere")>>]

MCInName ==
    {<<"blackwell", "nvidia gb10">>, <<"gb10", "nvidia gb10">>,
     <<"ampere", "nvidia a100-sxm4">>, <<"a100", "nvidia a100-sxm4">>}

Cuda124 == [version |-> <<12, 4>>, variant |-> "cuda12.4"]

Server ==
    [machine |-> "x86_64", os |-> "linux", osFamily |-> {"ubuntu"}, osVersion |-> {"22.04"},
     procNamed |-> TRUE, cpuCount |-> {8}, lscpu |-> {8}, meminfo |-> {600}, sysconf |-> {},
     dockerHere |-> TRUE, daemon |-> [machine |-> "x86_64", os |-> "linux", nvidia |-> TRUE],
     smiHere |-> TRUE, gpu |-> {"nvidia a100-sxm4"}, cuda |-> {Cuda124}, cc |-> {<<8, 0>>}, driver |-> {<<550, 54>>}]

\* An accelerator, one whose CUDA version and driver cannot be read, none
\* at all, an arm64 board, and a machine no profile is made for.
MCHosts ==
    {Server,
     [Server EXCEPT !.cuda = {}, !.driver = {}, !.daemon.nvidia = FALSE, !.osVersion = {"22.04.4"}],
     [Server EXCEPT !.smiHere = FALSE, !.daemon.nvidia = FALSE, !.lscpu = {}],
     [Server EXCEPT !.machine = "aarch64", !.osVersion = {"24.04"}, !.gpu = {"nvidia gb10"}, !.procNamed = FALSE,
                    !.daemon.machine = "x86_64", !.cc = {<<12, 1>>}],
     [Server EXCEPT !.osFamily = {"gentoo"}, !.osVersion = {}, !.gpu = {}, !.lscpu = {}, !.cpuCount = {},
                    !.dockerHere = FALSE],
     [Server EXCEPT !.machine = "ppc64le"], [Server EXCEPT !.os = "darwin", !.smiHere = FALSE]}

NoAnswer == [k \in Keys |-> {}]
MCAnswers ==
    {NoAnswer, [NoAnswer EXCEPT !.vendor = {"amd"}], [NoAnswer EXCEPT !.runtime = {"runc"}, !.family = {"ampere"}],
     [NoAnswer EXCEPT !.vendor = {"amd"}, !.runtime = {"nvidia"}],
     [NoAnswer EXCEPT !.model = {"nvidia_gb10"}, !.family = {"blackwell"}]}

MCWithin     == {<<"nvcr.io/nvidia/pytorch", "nvcr.io/nvidia/pytorch:24">>}
MCKnownFixes == [p \in {"vllm"} |-> Ranging({2})]
MCFamilyOf   == [b \in {"nvidia/cuda"} |-> "nvidia/cuda"]
MCPipRules   == <<[contains |-> "nvcr.io/nvidia/pytorch", packages |-> MCKnownFixes, noBinary |-> {"opencc"}]>>
MCOnDisk     == {"package-lock.json"}
MCEscaping   == {"linked", "../wheels"}
MCAlike      == {<<"22.04", "22.04.4">>, <<"nvidia a100", "nvidia a100-sxm4">>}

\* Plans that vary the composition, plans that vary the host, and builds.
Ask(recipe, profile, mode, strict, strictHost, explain) ==
    [recipe |-> recipe, profile |-> profile, mode |-> mode, strict |-> strict,
     strictHost |-> strictHost, explain |-> explain, ensure |-> FALSE,
     cudaSeen |-> TRUE, guide |-> {}]
Ensure(recipe, profile) == [Ask(recipe, profile, "warn", FALSE, FALSE, FALSE) EXCEPT !.ensure = TRUE]

Compositions == {Ask(r, Cpu, "off", FALSE, TRUE, FALSE) : r \in UNION {Policies(ids) : ids \in LayerLists}}

\* Without the needs its derived capabilities come from.
HandWritten == [Recipe(<<"tools">>) EXCEPT !.schema = 3, !.derived = {"cuda"}]

Profiled ==
    {Ask(r, p, mode, strict, strictHost, explain) :
        r \in {Recipe(<<"cuda">>), Recipe(<<"any", "site5">>), Recipe(<<"tools", "old">>), HandWritten},
        p \in MCProfiles, mode \in {"off", "warn", "enforce"},
        strict \in BOOLEAN, strictHost \in BOOLEAN, explain \in BOOLEAN}

Builds ==
    {Ensure(r, p) :
        r \in {Recipe(<<"cuda">>), [Recipe(<<"any">>) EXCEPT !.strategy = "pull"], Recipe(<<"any">>), Recipe(<<"site", "any">>),
               [Recipe(<<"any">>) EXCEPT !.copies = {"linked"}],
               [Recipe(<<"any">>) EXCEPT !.pipMode = "wheelhouse_prefer", !.wheelhouse = "wheels"],
               [Recipe(<<"any">>) EXCEPT !.pipMode = "wheelhouse_prefer", !.wheelhouse = "../wheels"]},
        p \in {Gpu, Cpu}}

\* Profiles made on a detected host.
Detections ==
    {[Ask(r, g.profile, "warn", FALSE, strictHost, FALSE) EXCEPT !.cudaSeen = g.cudaSeen] :
        g \in GuidedProfiles, strictHost \in BOOLEAN,
        r \in {Recipe(<<"cuda">>), Recipe(<<"any", "old">>)}}

\* Stacks made with the wizard, for a target profile and a type of inference.
Blanks == [Recipe(<<>>) EXCEPT !.schema = 3, !.needs = {"serve"}, !.derived = {"serve"}]
Wizards ==
    UNION {{[Ask(g.recipe, p, "warn", FALSE, FALSE, FALSE) EXCEPT
                !.guide = {[inference |-> t, warned |-> g.warned]}] : g \in GuidedStacks(Blanks, p, t)} :
           p \in {Gpu, Cpu, [Gpu EXCEPT !.arch = "arm64", !.driver = <<470, 10>>]},
           t \in {"llm_chat", "asr", "general_api_inference"}}

MCRequests == Compositions \union Profiled \union Builds \union Detections \union Wizards

\* The second request asks for an image the first one may have built, from
\* a profile that may have been rewritten meanwhile.
MCNextRequests ==
    {Ensure(Recipe(<<"any">>), p) : p \in {Cpu, [Cpu EXCEPT !.schema = 2]}}

\* A build for a host that a compatibility tuple has hints for.
HintedRequests == {Ensure(Recipe(<<"cuda">>), Gpu)}

\* Two recipes that differ in their entrypoint only.
EntrypointRequests ==
    {Ensure([Recipe(<<"any">>) EXCEPT !.entrypoint = e], Cpu) : e \in {"serve", "train"}}

=============================================================================
