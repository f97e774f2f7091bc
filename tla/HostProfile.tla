------------------------------ MODULE HostProfile ------------------------------
(***************************************************************************)
(* From a host to a profile: the probes and the merge of what they find    *)
(* (web/services/host_detection*.py), its reconciliation with the hardware *)
(* catalog (domain/hardware_catalog.py), what a guided client proposes     *)
(* (ui/wizard_entities/profile.py, and the web form), and the profile the  *)
(* server makes of the request (application/create_flows.py).              *)
(*                                                                         *)
(* A fact is the set of its value, empty when it was not found.  A host is *)
(* what the probes can read of a machine; names are in lower case.         *)
(***************************************************************************)
EXTENDS Planner

CONSTANTS
    Hosts,         \* machines
    Hardware,      \* the hardware catalog: a sequence of items by key
    InName,        \* pairs <<word, model>>: the model's name contains the word
    Alike,         \* pairs <<name, text>>: one contains the other, punctuation aside
    Answers        \* what a user may pick instead of the proposal, by key

\* The catalog lists GPU vendors (the wizard stops when there is none to
\* choose from), their ids are not empty (HardwareCatalogItem), and a vendor
\* that is not picked is no answer.
ASSUME HardwareAssumption ==
    /\ Hardware.vendor \in Seq(Range(Hardware.vendor)) \ {<<>>}
    /\ \A i \in DOMAIN Hardware.vendor : Hardware.vendor[i].id # ""
    /\ \A a \in Answers : "" \notin a.vendor

Keys  == {"arch", "osFamily", "osVersion", "runtime", "vendor", "family", "model"}
Facts == Keys \union {"os", "cuda", "cc", "driver", "cores", "memory"}

Blank == [k \in Facts |-> {}]

The(set, none) == IF set = {} THEN none ELSE CHOOSE x \in set : TRUE

FirstFound(sets) ==
    LET found == {i \in DOMAIN sets : sets[i] # {}}
    IN  IF found = {} THEN {} ELSE sets[Min(found)]

-----------------------------------------------------------------------------
NormalArch(machine) ==
    CASE machine = "x86_64" -> "amd64" [] machine = "aarch64" -> "arm64" [] OTHER -> machine

\* probe_bootstrap_invariants
Bootstrap(h) ==
    [Blank EXCEPT !.arch = {NormalArch(h.machine)}, !.os = {h.os},
                  !.osFamily = h.osFamily, !.osVersion = h.osVersion]

\* route_os_branch
Debian(h) == h.osFamily \intersect {"ubuntu", "debian"} # {}

\* probe_host_resources, on linux only: which source is asked first depends
\* on the family.  /proc/cpuinfo need not name the model (it does not on
\* arm64), and then lscpu is preferred.
HostResources(h) ==
    LET cores  == IF Debian(h) /\ h.procNamed THEN <<h.cpuCount, h.lscpu>> ELSE <<h.lscpu, h.cpuCount>>
        memory == IF Debian(h) THEN <<h.meminfo, h.sysconf>> ELSE <<h.sysconf, h.meminfo>>
    IN  IF h.os # "linux" THEN Blank
        ELSE [Blank EXCEPT !.cores = FirstFound(cores), !.memory = FirstFound(memory)]

\* probe_docker: of the daemon, which may run on another machine.
DockerInfo(h) ==
    [Blank EXCEPT !.arch = {NormalArch(h.daemon.machine)}, !.os = {h.daemon.os},
                  !.runtime = {IF h.daemon.nvidia THEN "nvidia" ELSE "runc"}]

\* infer_gpu_family: the first family whose words the name contains.
InferFamily(models) ==
    LET met == SelectSeq(<<"blackwell", "hopper", "ada", "ampere", "turing", "volta">>,
                         LAMBDA f : \E m \in models : <<f, m>> \in InName)
    IN  IF met = <<>> THEN "gpu" ELSE Head(met)

\* probe_nvidia_smi: of the first GPU.
NvidiaSmi(h) ==
    [Blank EXCEPT !.vendor = {"nvidia"}, !.family = {InferFamily(h.gpu)}, !.model = h.gpu,
                  !.cuda = h.cuda, !.cc = h.cc, !.driver = h.driver]

\* merge_payload: what is known stays.  (The keys it does overwrite are
\* found by one probe only.)
Merge(facts, found) == [k \in Facts |-> IF facts[k] = {} THEN found[k] ELSE facts[k]]

\* detect_server_hints.  A probe runs when its program is there, and one
\* that fails ("down") finds nothing.
Detected(h, down) ==
    LET found(name, present, payload) == IF present /\ name \notin down THEN payload ELSE Blank
        merged == FoldLeft(Merge, Bootstrap(h),
                           <<HostResources(h), found("docker", h.dockerHere, DockerInfo(h)),
                             found("nvidia_smi", h.smiHere, NvidiaSmi(h))>>)
    IN  IF merged.cuda # {} /\ merged.runtime = {}
        THEN [merged EXCEPT !.runtime = {"nvidia"}] ELSE merged

\* The first of the given items whose id or label is the value, else one of
\* whose aliases is, else one with a name that is close to it.
FirstMeant(items, places, value, close) ==
    LET Meets(rank, i) ==
            CASE rank = 1 -> value \in {i.id, i.label}
              [] rank = 2 -> value \in i.aliases
              [] rank = 3 -> \E n \in i.aliases \union {i.id, i.label} : <<n, value>> \in close
        met == FirstFound([rank \in 1..3 |-> {k \in places : Meets(rank, items[k])}])
    IN  IF met = {} THEN {} ELSE {items[Min(met)].id}

\* HardwareCatalog.resolve: only a gpu model may be named by a text that
\* contains its name.
Resolve(key, value) ==
    FirstMeant(Hardware[key], DOMAIN Hardware[key], value, IF key = "model" THEN InName ELSE {})

\* reconcile_detected_fields
Resolved(facts) == [k \in Keys |-> UNION {Resolve(k, v) : v \in facts[k]}]

-----------------------------------------------------------------------------
\* WizardPrompts.choose among the items of the catalog that fit the parent,
\* or all when none does: the first wanted one that is offered, else the
\* first item.
Choose(key, parent, wanted) ==
    LET items   == Hardware[key]
        fitting == {k \in DOMAIN items : items[k].parent \in {"", parent}}
        offered == IF fitting = {} THEN DOMAIN items ELSE fitting
        ids     == {items[k].id : k \in offered}
    IN  The(FirstFound([i \in DOMAIN wanted |-> wanted[i] \intersect ids]), items[Min(offered)].id)

\* run_profile_create_wizard: the request, which holds no host facts.  A
\* detection that fails as a whole finds nothing, not even a runtime.
WizardRequest(facts, answers) ==
    LET ids      == Resolved(facts)
        Pick(key, parent, default) ==
            Choose(key, parent, <<answers[key], ids[key], default>>)
        osFamily == Pick("osFamily", "", {"linux"})
        vendor   == Pick("vendor", "", {"nvidia"})
    IN  [arch      |-> Pick("arch", "", {}),
         os        |-> "linux",
         osFamily  |-> osFamily,
         osVersion |-> Pick("osVersion", osFamily, {}),
         runtime   |-> Pick("runtime", "", IF facts = Blank THEN {"nvidia"} ELSE {}),
         vendor    |-> vendor,
         family    |-> Pick("family", vendor, {}),
         model     |-> ids.model, cuda |-> facts.cuda, cc |-> facts.cc,
         driver    |-> {}, cores |-> {}, memory |-> {}]

\* The web form, which starts as an nvidia host of the ampere family.
\* syncResolvedIdsFromHints, when it is opened on the facts of a detection.
OpenedForm(facts) ==
    LET ids == Resolved(facts)
    IN  [arch |-> {}, os |-> {"linux"}, runtime |-> {"nvidia"}, model |-> {},
         osFamily |-> ids.osFamily, osVersion |-> ids.osVersion,
         vendor   |-> FirstFound(<<ids.vendor, {"nvidia"}>>),
         family   |-> FirstFound(<<ids.family, {"ampere"}>>)]

\* resolveCatalogId: among the items that fit the parent, when there is one.
FormIds(key, parent, values) ==
    LET items  == Hardware[key]
        fit    == {k \in DOMAIN items : parent = "" \/ items[k].parent \in {"", parent}}
    IN  UNION {FirstMeant(items, fit, v, Alike) : v \in values}

\* autofillHardware, with the facts of one more detection: applyHintsInternal.
Autofilled(form, facts) ==
    LET ids == Resolved(facts)
        Filled(key, parent) == FirstFound(<<ids[key], FormIds(key, parent, facts[key]), form[key]>>)
        Taken(key) == FirstFound(<<facts[key], form[key]>>)
        osFamily == Filled("osFamily", "")
        vendor   == Filled("vendor", "")
    IN  [arch |-> Taken("arch"), os |-> Taken("os"), runtime |-> Taken("runtime"),
         model     |-> FirstFound(<<ids.model, form.model>>),
         osFamily  |-> osFamily,
         osVersion |-> Filled("osVersion", The(osFamily, "")),
         vendor    |-> vendor,
         family    |-> Filled("family", The(vendor, ""))]

\* buildPayload, of the form with what the user picked; it passes on the host
\* facts of the last detection.
WebRequest(form, facts, answers) ==
    LET Picked(key, default) == The(FirstFound(<<answers[key], form[key]>>), default)
    IN  [arch      |-> Picked("arch", ""),
         os        |-> The(form.os, "linux"),
         osFamily  |-> Picked("osFamily", The(facts.osFamily, The(form.os, "linux"))),
         osVersion |-> Picked("osVersion", The(facts.osVersion, "")),
         runtime   |-> Picked("runtime", ""),
         vendor    |-> Picked("vendor", "nvidia"),
         family    |-> Picked("family", "gpu"),
         model     |-> FirstFound(<<answers.model, form.model>>),
         cuda |-> facts.cuda, cc |-> facts.cc,
         driver |-> facts.driver, cores |-> facts.cores, memory |-> facts.memory]

-----------------------------------------------------------------------------
IsBlackwell(r) == r.vendor = "nvidia" /\ r.family = "blackwell"
IsDgxSpark(r)  == /\ IsBlackwell(r) /\ r.arch = "arm64" /\ r.model = {"nvidia_gb10"}
                  /\ r.osVersion = "ubuntu_24_04"

\* Mutant of Capabilities: only a CUDA runtime that was seen implies cuda.
CapabilitiesSeen(r) ==
    (IF r.cuda # {} THEN {"cuda", "tensor_cores"} ELSE {})
    \union (IF IsBlackwell(r) THEN {"fp8"} ELSE {})
    \union (IF IsDgxSpark(r) THEN {"unified_memory"} ELSE {})

\* normalize_profile_request: a guided request names no needs, so that the
\* capabilities are inferred, the vendor alone implying cuda ...
Capabilities(r) ==
    (IF r.cuda # {} \/ r.vendor = "nvidia" THEN {"cuda", "tensor_cores"} ELSE {})
    \union (IF IsBlackwell(r) THEN {"fp8"} ELSE {})
    \union (IF IsDgxSpark(r) THEN {"unified_memory"} ELSE {})

\* ... and names no base image either.
BaseCandidates(r) ==
    LET Pair(tag, first, second) ==
            <<[name |-> "nvcr.io/nvidia/pytorch", tags |-> <<tag>>, bias |-> first],
              [name |-> "nvcr.io/nvidia/tritonserver", tags |-> <<tag>>, bias |-> second]>>
    IN  CASE IsBlackwell(r) -> Pair("25.03-py3", 180, 140)
          [] r.vendor = "nvidia" /\ ~IsBlackwell(r) -> Pair("24.08-py3", 120, 100)
          [] OTHER -> <<[name |-> "python", tags |-> <<"3.11-slim">>, bias |-> 0]>>

\* build_profile, of the normalized request.
Built(r) ==
    [id |-> "guided", schema |-> 3, arch |-> r.arch, os |-> r.os,
     osFamily |-> r.osFamily, osFamilyId |-> r.osFamily, osVersion |-> r.osVersion,
     runtime |-> r.runtime, vendor |-> r.vendor, family |-> r.family,
     cuda |-> The(r.cuda, [version |-> <<>>]).version,
     cudaVariant |-> The(r.cuda, [variant |-> ""]).variant,
     driver |-> The(r.driver, <<>>), driverDetected |-> r.driver # {}, cc |-> The(r.cc, <<>>),
     caps |-> Capabilities(r), cores |-> The(r.cores, 0), memory |-> The(r.memory, 0),
     candidates |-> BaseCandidates(r), disallowed |-> {}, curated |-> FALSE]

\* run_profile_security_validation
Acceptable(r) ==
    /\ r.arch \in {"amd64", "arm64"}
    /\ r.runtime \in {"nvidia", "runc"}
    /\ r.os = "linux"

\* The profiles that can come of it, with what was seen of the host:
\* prepare_profile refuses the others.
Created(requests) == {p \in {Built(r) : r \in {q \in requests : Acceptable(q)}} : ProfileValid(p)}

\* The facts a client may be given.
Found(h) == {Blank} \union {Detected(h, down) : down \in SUBSET {"docker", "nvidia_smi"}}

\* The form is sent as it was opened, or filled in after another detection.
RequestsFrom(opened, facts) ==
    UNION {{WizardRequest(facts, a), WebRequest(OpenedForm(facts), facts, a),
            WebRequest(Autofilled(OpenedForm(opened), facts), facts, a)} : a \in Answers}

MadeFrom(opened, facts) ==
    {[profile |-> p, cudaSeen |-> facts.cuda # {}] : p \in Created(RequestsFrom(opened, facts))}

GuidedProfiles ==
    UNION {UNION {MadeFrom(seen[1], seen[2]) : seen \in Found(h) \X Found(h)} : h \in Hosts}

\* A request that says that no CUDA runtime was seen has the profile of such
\* a host.
ASSUME GuidedAssumption ==
    \A r \in Requests \union NextRequests :
        r.cudaSeen \/ [profile |-> r.profile, cudaSeen |-> FALSE] \in GuidedProfiles

-----------------------------------------------------------------------------
\* The clients propose an nvidia GPU for every host, and creation infers the
\* capabilities from the vendor's name.  Still, no stack with a layer for an
\* nvidia GPU is planned for a profile made on a host where no CUDA runtime
\* was seen, whichever probe failed and whatever the user picked.
NoGpuPlannedUnseen ==
    stage = "planned" /\ ~request.cudaSeen =>
        /\ "cuda" \notin request.profile.caps
        /\ \A l \in Layers(stack) : l.requires.vendor # "nvidia" /\ l.requires.vendorId # "nvidia"

=============================================================================
