------------------------------- MODULE FixFile -------------------------------
(***************************************************************************)
(* Failed builds that are retried with a compatibility fix: by the server  *)
(* (routes/jobs.py) and by the CLI's ensure (cli.py), which read, change   *)
(* and write the overrides file in place (domain/compatibility_fix.py)     *)
(* while other builds read it (domain/pip_compatibility.py).               *)
(*                                                                         *)
(* A file that was truncated and not written yet reads as one without      *)
(* rules.                                                                  *)
(***************************************************************************)
EXTENDS PipOverrides, FiniteSets, Functions

CONSTANTS
    Retries,      \* failed builds
    InServer,     \* those of the server, the others are of CLI processes
    Failures,     \* [pipConflict, mentions, base]: what a failure shows
    FirstRules,   \* rule lists the file may hold at first
    NoRules       \* the overrides file does not exist

ASSUME FixAssumption ==
    /\ \A rs \in FirstRules : rs \in Seq(Range(rs))
    /\ \A i \in DOMAIN NoRules : DOMAIN NoRules[i].packages = {}
    /\ NgcHint # "" /\ \A base \in DOMAIN FamilyOf : FamilyOf[base] # ""

VARIABLES
    rules,        \* the rules in the file, or NoRules
    truncated,    \* whether the file is open and empty
    step,         \* where each retry is
    failure,      \* the failure it is about
    toWrite,      \* the rules it will write
    fixed,        \* whether it applied a fix
    used,         \* the rules its build was rendered with
    known,        \* <<text, package>> pairs that were ever written
    damaged       \* whether a writer overlapped with a writer or a reader, or
                  \* was cut short

fixVars == <<rules, truncated, step, failure, toWrite, fixed, used, known, damaged>>

Unread == "unread"

\* The packages each text has a rule for.
Pairs(rs) == UNION {{rs[i].contains} \X DOMAIN rs[i].packages : i \in DOMAIN rs}

\* What reading the file gives.
RulesRead == IF rules = NoRules \/ truncated THEN <<>> ELSE rules

FixInit ==
    /\ rules \in FirstRules
    /\ truncated = FALSE
    /\ step = [r \in Retries |-> "building"]
    /\ failure \in [Retries -> Failures]
    /\ toWrite = [r \in Retries |-> <<>>]
    /\ fixed = [r \in Retries |-> FALSE]
    /\ used = [r \in Retries |-> Unread]
    /\ known = IF rules = NoRules THEN {} ELSE Pairs(rules)
    /\ damaged = FALSE

Goes(r, to) == step' = [step EXCEPT ![r] = to]

\* A build ends in an error.
BuildFailed(r) ==
    /\ step[r] = "building"
    /\ Goes(r, "failed")
    /\ UNCHANGED <<rules, truncated, failure, toWrite, fixed, used, known, damaged>>

\* POST /jobs/{id}/retry: built again as it was.
RetryPlain(r) ==
    /\ step[r] = "failed" /\ r \in InServer
    /\ Goes(r, "retrying")
    /\ UNCHANGED <<rules, truncated, failure, toWrite, fixed, used, known, damaged>>

\* There is no fix for the failure, or the CLI's user declines it.
NoRetry(r) ==
    /\ step[r] = "failed"
    /\ DOMAIN Suggested(failure[r]) = {} \/ r \notin InServer
    /\ Goes(r, "ended")
    /\ UNCHANGED <<rules, truncated, failure, toWrite, fixed, used, known, damaged>>

\* The handlers of the server run one at a time.
Writing(r) == step[r] \in {"read", "opened"}
HandlerFree(r) == r \in InServer => \A q \in InServer \ {r} : ~Writing(q)

\* apply_compatibility_fix, as far as it reads: the rules it will write.
ReadRules(r) ==
    /\ step[r] = "failed"
    /\ DOMAIN Suggested(failure[r]) # {}
    /\ HandlerFree(r)
    /\ toWrite' = [toWrite EXCEPT ![r] =
                     WithFix(RulesRead, Suggested(failure[r]), Hint(failure[r].base))]
    /\ damaged' = (damaged \/ \E q \in Retries \ {r} : Writing(q))
    /\ Goes(r, IF toWrite'[r] = RulesRead THEN "retrying" ELSE "read")
    /\ fixed' = [fixed EXCEPT ![r] = TRUE]
    /\ UNCHANGED <<rules, truncated, failure, used, known>>

\* open(path, "w") ...
OpenRules(r) ==
    /\ step[r] = "read"
    /\ truncated' = TRUE
    /\ Goes(r, "opened")
    /\ UNCHANGED <<rules, failure, toWrite, fixed, used, known, damaged>>

\* ... and yaml.dump; the job is created, or ensure repeated, after it.
WriteRules(r) ==
    /\ step[r] = "opened"
    /\ rules' = toWrite[r]
    /\ truncated' = FALSE
    /\ known' = known \union Pairs(toWrite[r])
    /\ Goes(r, "retrying")
    /\ UNCHANGED <<failure, toWrite, fixed, used, damaged>>

\* The build renders its requirements with the rules it finds.
RenderWithRules(r) ==
    /\ step[r] = "retrying"
    /\ used' = [used EXCEPT ![r] = RulesRead]
    /\ damaged' = (damaged \/ truncated)
    /\ Goes(r, "ended")
    /\ UNCHANGED <<rules, truncated, failure, toWrite, fixed, known>>

\* The process of a retry dies.
Die(r) ==
    /\ step[r] \notin {"ended", "building"}
    /\ damaged' = (damaged \/ step[r] = "opened")
    /\ Goes(r, "ended")
    /\ UNCHANGED <<rules, truncated, failure, toWrite, fixed, used, known>>

FixNext ==
    \E r \in Retries :
        \/ BuildFailed(r) \/ RetryPlain(r) \/ NoRetry(r)
        \/ ReadRules(r) \/ OpenRules(r) \/ WriteRules(r)
        \/ RenderWithRules(r) \/ Die(r)

-----------------------------------------------------------------------------
\* A fix adds to the file: what a rule says of a package is never forgotten,
\* unless two writers overlap or one dies with the file open.
FixesAccumulate ==
    ~damaged /\ ~truncated => known \subseteq (IF rules = NoRules THEN {} ELSE Pairs(rules))

\* "Apply fix and retry build" (cli.py:790): when the rules for the base
\* image are the rules of its family, the build that follows a fix installs
\* the suggested version of every package the fix names, whatever the rules
\* said of it before.  (A rule of the family that is narrower than the base
\* gets the fix in vain, and a build that renders while another fix is being
\* written finds no rules.)
FixTakesEffect ==
    \A r \in Retries :
        LET base == failure[r].base
            hint == Hint(base)
            fix  == Suggested(failure[r])
        IN  (/\ ~damaged /\ fixed[r] /\ used[r] # Unread
             /\ \A rule \in Range(used[r]) : SameFamily(rule, hint) <=> PartOf(rule.contains, base))
                => \A pkg \in DOMAIN fix : OverriddenVersion(pkg, {}, base, used[r]) = fix[pkg]

=============================================================================
