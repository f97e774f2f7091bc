--------------------------- MODULE PlanBuildProofs ---------------------------
(***************************************************************************)
(* For any layers, recipes, profiles, catalogs and hosts, and any number   *)
(* of requests: what is planned, built and answered is what the checked    *)
(* properties say.                                                         *)
(*                                                                         *)
(* The invariant has a part for each thing that must be remembered over    *)
(* several steps.  StageInv says which outcomes and runs go with which     *)
(* stage.  OutputInv says that what buildx has written is what was         *)
(* collected, then what the reader has passed on, then what it has not     *)
(* read; the end of the output is queued last.  PlanInv says that the      *)
(* stack of a plan is the merged stack with the hints of the decided       *)
(* tuple, and that base and fingerprint are those of this stack.  StoreInv *)
(* ties images, records and snapshots to the fingerprint they go by.       *)
(* EvaluatedInv says that the profile meets the layers.                    *)
(*                                                                         *)
(* Of the planner's operators the proofs know only what a few lemmas say:  *)
(* what hints change, what a fingerprint tells, how a base is selected,    *)
(* that half the jobs are fewer.                                           *)
(***************************************************************************)
EXTENDS ImageBuild, HostProfile, GuidedStack, CompositionProofs, SequenceTheorems, TLAPS

\* The stages at which nothing of the build has begun.
Planned == {"compose", "evaluate", "select", "optimize", "planned"}

\* How far the request and its build are.
StageInv ==
    /\ stage \in Planned \union {"idle", "refused", "buildx"}
    /\ attempt \in 0..2
    /\ stage \in Planned \union {"refused"} => outcome = "none" /\ attempt = 0
    /\ stage = "buildx" => outcome = "none" /\ attempt > 0
    /\ outcome \in {"none", "built", "reused", "failed", "timeout"}
    /\ outcome \in {"built", "failed"} /\ attempt > 0 => proc = "exited"

\* The reader has passed on some of what the process has written, and then
\* perhaps the end of the output.
PassedOn(passed) ==
    /\ written = (collected \o passed) \o pipe
    /\ \/ queue = passed
       \/ queue = Append(passed, EndOfOutput) /\ pipe = <<>> /\ pipeClosed

OutputInv ==
    /\ written \in Seq(Lines) /\ pipe \in Seq(Lines) /\ collected \in Seq(Lines)
    /\ proc = "exited" => pipeClosed
    /\ \E passed \in Seq(Lines) : PassedOn(passed)
    /\ streamClosed => queue = <<>> /\ pipe = <<>> /\ pipeClosed
    /\ outcome \in {"built", "failed"} /\ attempt > 0 => collected = written

\* What may be asked, and what the planner makes of what is asked.
Asked         == Requests \union NextRequests
Composes(r)   == ComposeError(r.recipe) = ""
Merging(r)    == MergedStack(r.recipe)
Decision(r)   == TupleDecision(r.profile, r.mode, Tuples)
Resolution(r) == Hinted(Merging(r), Decision(r))

\* The plan has its base image and its fingerprint.
BaseChosen == stage \in {"optimize", "planned", "buildx"} \/ outcome # "none"

PlanInv ==
    /\ stage \in Planned \union {"buildx"} => request \in Asked
    /\ stage \in {"evaluate", "select"} => stack = Merging(request) /\ Composes(request)
    /\ stage = "select" => report.tuple = Decision(request)
    /\ BaseChosen =>
          /\ Composes(request)
          /\ stack = Resolution(request)
          /\ plan.base = SelectBase(request.profile, stack, request.explain)
          /\ plan.fingerprint = Fingerprint(request.profile, stack, plan.base)
    /\ stage = "optimize" => DOMAIN plan = {"base", "fingerprint", "jobs", "knobs"}
    /\ stage = "planned" \/ attempt > 0 => plan.jobs \in Nat \ {0}

\* An image has the labels of some plan with its fingerprint, a record the
\* base that the fingerprint names, a snapshot the request it was made for.
StoreInv ==
    /\ \A f \in DOMAIN images :
          f \in DOMAIN records /\ \E p, s : images[f].labels = Labels(p, s, f)
    /\ \A f \in DOMAIN records : records[f].base = f.base
    /\ \A f \in DOMAIN snapshots : \E r, base :
          /\ f = Fingerprint(r.profile, Resolution(r), base)
          /\ snapshots[f] = Snapshot(r.profile, r.recipe)
    /\ stage = "buildx" => plan.fingerprint \in DOMAIN records
    /\ outcome \in {"built", "reused"} =>
          /\ plan.fingerprint \in DOMAIN images
          /\ images[plan.fingerprint].labels.schemas = SchemaLabels(request.profile, stack)

-----------------------------------------------------------------------------
\* One element moves from the front of a sequence to the end of another.
LEMMA HeadMoves ==
    ASSUME NEW S, NEW a \in Seq(S), NEW b \in Seq(S), b # <<>>
    PROVE  a \o b = Append(a, Head(b)) \o Tail(b)
<1>1. a \o b \in Seq(S) /\ Append(a, Head(b)) \o Tail(b) \in Seq(S)
  BY ConcatProperties, AppendProperties, HeadTailProperties
<1>2. Len(a \o b) = Len(Append(a, Head(b)) \o Tail(b))
  BY ConcatProperties, AppendProperties, HeadTailProperties
<1>3. ASSUME NEW i \in 1..Len(a \o b)
      PROVE  (a \o b)[i] = (Append(a, Head(b)) \o Tail(b))[i]
  BY <1>3, ConcatProperties, AppendProperties, HeadTailProperties
<1>4. QED
  BY <1>1, <1>2, <1>3, SeqEqual

\* A queue that is not empty may be read and written in either order.
LEMMA TailOfAppend ==
    ASSUME NEW S, NEW s \in Seq(S), NEW e, s # <<>>
    PROVE  Tail(Append(s, e)) = Append(Tail(s), e)
<1> DEFINE T == S \union {e}
<1>1. s \in Seq(T) /\ Tail(s) \in Seq(T) /\ Append(s, e) \in Seq(T)
  BY SeqMonotonic, HeadTailProperties, AppendProperties
<1>2. Tail(Append(s, e)) \in Seq(T) /\ Append(Tail(s), e) \in Seq(T)
  BY <1>1, HeadTailProperties, AppendProperties
<1>3. Len(Tail(Append(s, e))) = Len(Append(Tail(s), e))
  BY <1>1, HeadTailProperties, AppendProperties
<1>4. ASSUME NEW i \in 1..Len(Tail(Append(s, e)))
      PROVE  Tail(Append(s, e))[i] = Append(Tail(s), e)[i]
  BY <1>1, <1>4, HeadTailProperties, AppendProperties
<1> HIDE DEF T
<1>5. QED
  BY <1>2, <1>3, <1>4, SeqEqual

-----------------------------------------------------------------------------
\* Every step keeps the stages in order.
LEMMA StageStep ==
    ASSUME StageInv, [Next]_vars
    PROVE  StageInv'
<1> USE DEF StageInv, Planned, planVars, buildVars, runVars, storeVars
<1>1. CASE NewRequest
  <2>1. stage' = "compose" /\ attempt' = 0 /\ outcome' = "none"
    BY <1>1, Zenon DEF NewRequest, Submit
  <2>2. QED
    BY <2>1
<1>2. CASE Planning
  BY <1>2 DEF Planning, PlanStep, Compose, Evaluate, Select, Optimize, Refuse
<1>3. CASE Reuse
  BY <1>3 DEF Reuse, Finish
<1>4. CASE Pull
  <2>1. \/ stage' = "idle" /\ outcome' = "failed" /\ attempt' = attempt
        \/ stage' = "buildx" /\ outcome' = outcome /\ attempt' = attempt + 1
    BY <1>4, Zenon DEF Pull, Finish, StartBuild, StartRun
  <2>2. stage = "planned"
    BY <1>4, Zenon DEF Pull
  <2>3. QED
    BY <2>1, <2>2
<1>5. CASE Render
  <2>1. \/ stage' = "idle" /\ outcome' = "failed" /\ attempt' = attempt
        \/ stage' = "buildx" /\ outcome' = outcome /\ attempt' = attempt + 1
    BY <1>5, Zenon DEF Render, Finish, StartBuild, StartRun
  <2>2. stage = "planned"
    BY <1>5, Zenon DEF Render
  <2>3. QED
    BY <2>1, <2>2
<1>6. ASSUME NEW l \in Lines, WriteLine(l) PROVE StageInv'
  BY <1>6 DEF WriteLine
<1>7. CASE CloseOutput \/ ReadLine \/ ReadEnd
  BY <1>7 DEF CloseOutput, ReadLine, ReadEnd
<1>8. ASSUME NEW c \in {0, 1}, Exit(c) PROVE StageInv'
  BY <1>8 DEF Exit
<1>9. CASE Expire \/ TakeLine \/ TakeEndEarly
  BY <1>9 DEF Expire, TakeLine, TakeEndEarly
<1>10. CASE TimeOut
  BY <1>10 DEF TimeOut, Finish
<1>11. CASE TakeEnd
  <2>1. stage = "buildx" /\ proc = "exited"
    BY <1>11, Zenon DEF TakeEnd
  <2>2. \/ stage' = "idle" /\ outcome' \in {"built", "failed"} /\ attempt' = attempt /\ proc' = proc
        \/ stage' = stage /\ outcome' = outcome /\ attempt = 1 /\ attempt' = attempt + 1
    BY <1>11, Zenon DEF TakeEnd, Ended, StartRun, Finish
  <2>3. QED
    BY <2>1, <2>2
<1>12. CASE UNCHANGED vars
  BY <1>12 DEF vars
<1>13. QED
  BY <1>1, <1>2, <1>3, <1>4, <1>5, <1>6, <1>7, <1>8, <1>9, <1>10, <1>11, <1>12
     DEF Next, BuildStep

-----------------------------------------------------------------------------
\* A run that starts has no output yet.
LEMMA NoOutputYet ==
    ASSUME written' = <<>>, pipe' = <<>>, queue' = <<>>, collected' = <<>>, ~streamClosed',
           proc' # "exited", outcome' = "none"
    PROVE  OutputInv'
<1>1. <<>> \in Seq(Lines)
  OBVIOUS
<1>2. <<>> = <<>> \o <<>>
  BY <1>1, ConcatEmptySeq
<1>3. PassedOn(<<>>)'
  BY <1>2 DEF PassedOn
<1>4. QED
  BY <1>1, <1>3 DEF OutputInv

\* The output stays as it is while nobody reads, writes or closes it.
LEMMA SameOutput ==
    ASSUME OutputInv, UNCHANGED <<written, pipe, queue, collected, streamClosed>>,
           pipeClosed => pipeClosed', proc' = "exited" => pipeClosed',
           outcome' \in {"built", "failed"} /\ attempt' > 0 => collected = written
    PROVE  OutputInv'
<1>1. PICK passed \in Seq(Lines) : PassedOn(passed)
  BY DEF OutputInv
<1>2. PassedOn(passed)'
  BY <1>1 DEF PassedOn
<1>3. QED
  BY <1>2 DEF OutputInv

\* When the loop finds the end of the output, it has had all the lines.
LEMMA EndComesLast ==
    ASSUME NEW passed \in Seq(Lines), PassedOn(passed), queue # <<>>, Head(queue) = EndOfOutput
    PROVE  passed = <<>> /\ queue = Append(passed, EndOfOutput) /\ pipe = <<>> /\ pipeClosed
<1>1. EndOfOutput \notin Lines
  BY DEF EndOfOutput, Lines
<1>2. queue # passed
  BY <1>1, HeadTailProperties
<1>3. queue = Append(passed, EndOfOutput) /\ pipe = <<>> /\ pipeClosed
  BY <1>2 DEF PassedOn
<1>4. ASSUME passed # <<>> PROVE FALSE
  <2>1. passed \in Seq(Lines \union {EndOfOutput})
    BY SeqMonotonic
  <2>2. Head(queue) = passed[1] /\ passed[1] \in Lines
    BY <1>3, <1>4, <2>1, AppendProperties, HeadTailProperties, ElementOfSeq
  <2>3. QED
    BY <1>1, <2>2
<1>5. QED
  BY <1>3, <1>4

\* When the loop stops by itself, it has had all the lines.
LEMMA EndHasAll ==
    ASSUME OutputInv, TakeEnd
    PROVE  collected = written
<1>1. PICK passed \in Seq(Lines) : PassedOn(passed)
  BY DEF OutputInv
<1>2. passed = <<>> /\ pipe = <<>>
  <2>1. CASE queue # <<>> /\ Head(queue) = EndOfOutput
    BY <1>1, <2>1, EndComesLast
  <2>2. CASE queue = <<>> /\ streamClosed
    <3>1. queue # Append(passed, EndOfOutput)
      BY <2>2, AppendProperties, SeqMonotonic
    <3>2. QED
      BY <1>1, <2>2, <3>1 DEF PassedOn, OutputInv
  <2>3. QED
    BY <2>1, <2>2 DEF TakeEnd
<1>3. QED
  BY <1>1, <1>2, ConcatEmptySeq DEF PassedOn, OutputInv

\* Every step keeps the output together.
LEMMA OutputStep ==
    ASSUME StageInv, OutputInv, [Next]_vars
    PROVE  OutputInv'
<1> USE DEF planVars, buildVars, runVars, storeVars
<1>0. PICK passed \in Seq(Lines) : PassedOn(passed)
  BY DEF OutputInv
<1>1. CASE NewRequest
  BY <1>1, NoOutputYet DEF NewRequest
<1>2. CASE Planning \/ UNCHANGED vars
  BY <1>2, SameOutput DEF Planning, vars, OutputInv
<1>3. CASE Reuse
  BY <1>3, SameOutput DEF Reuse, Finish, OutputInv
<1>4. CASE Pull
  <2>1. CASE StartBuild([base |-> plan.base])
    BY <1>4, <2>1, NoOutputYet DEF Pull, StartBuild, StartRun, StageInv, Planned
  <2>2. CASE Finish("failed") /\ UNCHANGED <<attempt, runVars>>
    <3>1. stage = "planned" /\ outcome' = "failed" /\ attempt' = attempt /\ UNCHANGED runVars
      BY <1>4, <2>2, Zenon DEF Pull, Finish
    <3>2. attempt' = 0
      BY <3>1 DEF StageInv, Planned
    <3>3. QED
      BY <3>1, <3>2, SameOutput DEF OutputInv
  <2>3. QED
    BY <1>4, <2>1, <2>2 DEF Pull
<1>5. CASE Render
  <2>1. CASE StartBuild(Dockerfile(stack, plan))
    BY <1>5, <2>1, NoOutputYet DEF Render, StartBuild, StartRun, StageInv, Planned
  <2>2. CASE Finish("failed") /\ UNCHANGED <<attempt, runVars>>
    <3>1. stage = "planned" /\ outcome' = "failed" /\ attempt' = attempt /\ UNCHANGED runVars
      BY <1>5, <2>2, Zenon DEF Render, Finish
    <3>2. attempt' = 0
      BY <3>1 DEF StageInv, Planned
    <3>3. QED
      BY <3>1, <3>2, SameOutput DEF OutputInv
  <2>3. QED
    BY <1>5, <2>1, <2>2 DEF Render
<1>6. ASSUME NEW l \in Lines, WriteLine(l) PROVE OutputInv'
  <2>1. collected \o passed \in Seq(Lines) /\ pipe \in Seq(Lines)
    BY ConcatProperties DEF OutputInv
  <2>2. Append(written, l) = (collected \o passed) \o Append(pipe, l)
    <3>1. written = (collected \o passed) \o pipe
      BY <1>0 DEF PassedOn
    <3> DEFINE before == collected \o passed
    <3> HIDE DEF before
    <3>2. before \in Seq(Lines)
      BY <2>1 DEF before
    <3>3. /\ <<l>> \in Seq(Lines) /\ before \o pipe \in Seq(Lines)
          /\ Append(before \o pipe, l) = (before \o pipe) \o <<l>>
          /\ Append(pipe, l) = pipe \o <<l>>
      BY <1>6, <2>1, <3>2, ConcatProperties, AppendIsConcat
    <3>4. Append(before \o pipe, l) = before \o Append(pipe, l)
      BY <2>1, <3>2, <3>3, ConcatAssociative
    <3>5. QED
      BY <3>1, <3>4 DEF before
  <2>3. PassedOn(passed)'
    BY <1>0, <1>6, <2>2 DEF PassedOn, WriteLine
  <2>4. Append(written, l) \in Seq(Lines) /\ Append(pipe, l) \in Seq(Lines)
    BY AppendProperties DEF OutputInv
  <2>5. QED
    BY <1>6, <2>3, <2>4 DEF OutputInv, WriteLine, StageInv
<1>7. CASE CloseOutput
  BY <1>7, SameOutput DEF CloseOutput, OutputInv
<1>8. ASSUME NEW c \in {0, 1}, Exit(c) PROVE OutputInv'
  BY <1>8, SameOutput DEF Exit, OutputInv
<1>9. CASE ReadLine
  <2>0. PICK l : l = Head(pipe)
    OBVIOUS
  <2>1. l \in Lines /\ Tail(pipe) \in Seq(Lines) /\ Append(passed, l) \in Seq(Lines)
    BY <1>9, <2>0, HeadTailProperties, AppendProperties DEF ReadLine, OutputInv
  <2>2. collected \o passed \in Seq(Lines)
    BY ConcatProperties DEF OutputInv
  <2>3. (collected \o passed) \o pipe = (collected \o Append(passed, l)) \o Tail(pipe)
    <3> DEFINE before == collected \o passed
    <3>1. before \in Seq(Lines) /\ pipe \in Seq(Lines) /\ pipe # <<>>
      BY <1>9, <2>2 DEF ReadLine, OutputInv
    <3>2. Append(before, l) = collected \o Append(passed, l)
      <4>1. /\ <<l>> \in Seq(Lines) /\ collected \in Seq(Lines)
            /\ Append(collected \o passed, l) = (collected \o passed) \o <<l>>
            /\ Append(passed, l) = passed \o <<l>>
        <5>1. collected \in Seq(Lines)
          BY DEF OutputInv
        <5>2. QED
          BY <2>1, <2>2, <5>1, AppendIsConcat
      <4>2. QED
        BY <4>1, ConcatAssociative
    <3> HIDE DEF before
    <3>3. before \o pipe = Append(before, l) \o Tail(pipe)
      BY <2>0, <3>1, HeadMoves
    <3>4. QED
      BY <3>2, <3>3 DEF before
  <2>4. queue = passed /\ queue' = Append(passed, l) /\ pipe' = Tail(pipe)
    BY <1>0, <1>9, <2>0 DEF PassedOn, ReadLine
  <2>5. PassedOn(Append(passed, l))'
    BY <1>0, <1>9, <2>3, <2>4 DEF PassedOn, ReadLine
  <2>6. QED
    BY <1>9, <2>1, <2>5 DEF OutputInv, ReadLine
<1>10. CASE ReadEnd
  <2>1. queue = passed
    <3>1. ASSUME queue = Append(passed, EndOfOutput) PROVE FALSE
      <4>1. passed \in Seq(Lines \union {EndOfOutput})
        BY SeqMonotonic
      <4>2. /\ DOMAIN queue = 1..(Len(passed) + 1) /\ Len(passed) \in Nat
            /\ queue[Len(passed) + 1] = EndOfOutput
        BY <3>1, <4>1, AppendProperties
      <4>3. EndOfOutput \in Range(queue)
        BY <4>2 DEF Range
      <4>4. QED
        BY <1>10, <4>3 DEF ReadEnd
    <3>2. QED
      BY <1>0, <3>1 DEF PassedOn
  <2>2. PassedOn(passed)'
    BY <1>0, <1>10, <2>1 DEF PassedOn, ReadEnd
  <2>3. QED
    BY <1>10, <2>2 DEF OutputInv, ReadEnd
<1>11. CASE Expire
  BY <1>11, SameOutput DEF Expire, OutputInv
<1>12. CASE TimeOut
  BY <1>12, SameOutput DEF TimeOut, Finish, OutputInv
<1>13. CASE TakeLine
  <2>0. PICK l : l = Head(queue)
    OBVIOUS
  <2>1. /\ stage = "buildx" /\ queue # <<>> /\ l # EndOfOutput
        /\ collected' = Append(collected, l) /\ queue' = Tail(queue)
        /\ UNCHANGED <<written, pipe, pipeClosed, streamClosed, proc, outcome>>
    BY <1>13, <2>0 DEF TakeLine
  <2>2. ASSUME passed = <<>> PROVE FALSE
    BY <1>0, <2>0, <2>1, <2>2 DEF PassedOn
  <2>3. l \in Lines /\ Tail(passed) \in Seq(Lines) /\ l = Head(passed)
    <3>1. Head(queue) = Head(passed)
      <4>1. ASSUME queue = Append(passed, EndOfOutput) PROVE Head(queue) = Head(passed)
        <5>1. passed \in Seq(Lines \union {EndOfOutput})
          BY SeqMonotonic
        <5>2. QED
          BY <2>2, <4>1, <5>1, AppendProperties, HeadTailProperties
      <4>2. QED
        BY <1>0, <4>1 DEF PassedOn
    <3>2. QED
      BY <2>0, <2>2, <3>1, HeadTailProperties
  <2>4. collected \o passed = Append(collected, l) \o Tail(passed)
    BY <2>2, <2>3, HeadMoves DEF OutputInv
  <2>5. PICK rest \in Seq(Lines) : rest = Tail(passed)
    BY <2>3
  <2>6. \/ Tail(queue) = rest
        \/ Tail(queue) = Append(rest, EndOfOutput) /\ pipe = <<>> /\ pipeClosed
    <3>1. ASSUME queue = Append(passed, EndOfOutput) PROVE Tail(queue) = Append(rest, EndOfOutput)
      BY <2>2, <2>5, <3>1, TailOfAppend
    <3>2. QED
      BY <1>0, <2>5, <3>1 DEF PassedOn
  <2>7. PassedOn(rest)'
    BY <1>0, <2>1, <2>4, <2>5, <2>6 DEF PassedOn
  <2>8. Append(collected, l) \in Seq(Lines)
    BY <2>3, AppendProperties DEF OutputInv
  <2>9. ~streamClosed /\ outcome = "none"
    BY <2>1 DEF OutputInv, StageInv
  <2>10. QED
    BY <2>1, <2>7, <2>8, <2>9 DEF OutputInv
<1>14. CASE TakeEndEarly
  <2>1. /\ stage = "buildx" /\ queue # <<>> /\ Head(queue) = EndOfOutput
        /\ streamClosed' = TRUE /\ queue' = Tail(queue)
        /\ UNCHANGED <<written, pipe, pipeClosed, collected, proc, outcome>>
    BY <1>14 DEF TakeEndEarly
  <2>2. passed = <<>> /\ queue = Append(passed, EndOfOutput) /\ pipe = <<>> /\ pipeClosed
    BY <1>0, <2>1, EndComesLast
  <2>3. Tail(queue) = <<>>
    BY <2>2
  <2>4. PassedOn(passed)'
    BY <1>0, <2>1, <2>2, <2>3 DEF PassedOn
  <2>5. outcome = "none"
    BY <2>1 DEF StageInv
  <2>6. QED
    BY <2>1, <2>2, <2>3, <2>4, <2>5 DEF OutputInv
<1>15. CASE TakeEnd
  <2>1. stage = "buildx" /\ proc = "exited"
    BY <1>15 DEF TakeEnd
  <2>3. collected = written
    BY <1>15, EndHasAll
  <2>4. \/ UNCHANGED runVars
        \/ \E j : StartRun(j) /\ UNCHANGED outcome
    BY <1>15, Zenon DEF TakeEnd, Ended
  <2>5. CASE UNCHANGED runVars
    BY <2>3, <2>5, SameOutput DEF OutputInv
  <2>6. ASSUME NEW j, StartRun(j), UNCHANGED outcome PROVE OutputInv'
    BY <2>1, <2>6, NoOutputYet DEF StartRun, StageInv
  <2>7. QED
    BY <2>4, <2>5, <2>6
<1>16. QED
  BY <1>1, <1>2, <1>3, <1>4, <1>5, <1>6, <1>7, <1>8, <1>9, <1>10, <1>11, <1>12, <1>13, <1>14, <1>15
     DEF Next, BuildStep

-----------------------------------------------------------------------------
\* Every plan has a build job at least.
LEMMA JobsPositive ==
    ASSUME NEW p, NEW s, p.cores \in Nat, p.memory \in Nat
    PROVE  Jobs(p, s) \in Nat \ {0}
<1> DEFINE cores == IF p.cores = 0 THEN 2 ELSE p.cores
           byCpu == Greatest(1, IF Route(p) = "aggressive" THEN cores ELSE cores - 1)
           byMem == Greatest(1, Budget(p) \div 150)
           most  == Least(byCpu, byMem)
<1>1. Budget(p) \in Nat /\ Budget(p) \div 150 \in Int
  BY DEF Budget, Greatest
<1>2. byCpu \in Nat \ {0} /\ byMem \in Nat \ {0}
  BY <1>1 DEF Greatest
<1> HIDE DEF byCpu, byMem
<1>3. most \in Nat \ {0} /\ Least(most, 2) \in Nat \ {0}
  BY <1>2 DEF Least
<1> HIDE DEF most
<1>4. Jobs(p, s) = IF OomRisk(p, s) = "high" THEN Least(most, 2) ELSE most
  BY DEF Jobs, most, byCpu, byMem
<1>5. QED
  BY <1>3, <1>4

\* A step that leaves the plan alone, and ends or starts a build of it.
LEMMA SamePlan ==
    ASSUME PlanInv, UNCHANGED <<request, stack, report, plan>>,
           stage' = stage \/ (BaseChosen /\ stage' \in {"idle", "buildx"}),
           stage' = "buildx" => stage \in {"planned", "buildx"},
           outcome' # outcome => BaseChosen,
           attempt' = attempt \/ stage = "planned" \/ (attempt > 0 /\ attempt' > 0)
    PROVE  PlanInv'
<1>1. BaseChosen' => BaseChosen
  BY DEF BaseChosen
<1>2. QED
  BY <1>1 DEF PlanInv, Planned

\* Optimize fills in what the plan still lacks.
LEMMA Filled ==
    ASSUME NEW pl, NEW j, NEW k, NEW full, DOMAIN pl = {"base", "fingerprint", "jobs", "knobs"},
           full = [pl EXCEPT !.jobs = j, !.knobs = k]
    PROVE  full.base = pl.base /\ full.fingerprint = pl.fingerprint /\ full.jobs = j
  BY Zenon

\* The stages of planning keep what is known of the plan.
LEMMA PlanStepKeeps ==
    ASSUME StageInv, PlanInv, Planning
    PROVE  PlanInv'
<1>1. /\ request' = request /\ attempt' = attempt /\ outcome' = outcome
      /\ stage \in {"compose", "evaluate", "select", "optimize"}
  BY Zenon DEF Planning, PlanStep, Compose, Evaluate, Select, Optimize, Refuse, buildVars
<1>2. attempt' = 0 /\ outcome' = "none" /\ request' \in Asked
  BY <1>1 DEF StageInv, Planned, PlanInv
<1>3. CASE stage' = "refused"
  BY <1>1, <1>2, <1>3 DEF PlanInv, BaseChosen, Planned
<1>4. CASE Compose
  <2>1. \/ stage' = "refused"
        \/ stage' = "evaluate" /\ stack' = Merging(request) /\ Composes(request)
    BY <1>4, Zenon DEF Compose, Refuse, Merging, Composes
  <2>2. QED
    BY <1>1, <1>2, <1>3, <2>1 DEF PlanInv, BaseChosen, Planned
<1>5. CASE Evaluate
  <2>1. /\ stage = "evaluate"
        /\ \/ stage' = "refused"
           \/ /\ stage' = "select" /\ stack' = stack
              /\ \E w : report' = [tuple |-> Decision(request), warnings |-> w]
    BY <1>5, Zenon DEF Evaluate, Refuse, Decision
  <2>2. CASE stage' = "select"
    <3>1. stack' = stack /\ report'.tuple = Decision(request)
      BY <2>1, <2>2
    <3>2. QED
      BY <1>1, <1>2, <2>1, <2>2, <3>1 DEF PlanInv, BaseChosen, Planned
  <2>3. QED
    BY <1>3, <2>1, <2>2
<1>6. CASE Select
  <2> DEFINE hinted == Hinted(stack, report.tuple)
             base   == SelectBase(request.profile, hinted, request.explain)
  <2>1. /\ stage = "select" /\ stage' = "optimize"
        /\ stack' = hinted
        /\ plan' = [base |-> base, fingerprint |-> Fingerprint(request.profile, hinted, base),
                    jobs |-> 0, knobs |-> Nothing]
    BY <1>6, Zenon DEF Select
  <2>2. hinted = Resolution(request) /\ Composes(request)
    BY <2>1 DEF PlanInv, Resolution
  <2>3. /\ DOMAIN plan' = {"base", "fingerprint", "jobs", "knobs"}
        /\ plan'.base = base /\ plan'.fingerprint = Fingerprint(request.profile, hinted, base)
    BY <2>1
  <2> HIDE DEF hinted, base
  <2>4. QED
    BY <1>1, <1>2, <2>1, <2>2, <2>3 DEF PlanInv, BaseChosen, Planned, hinted, base
<1>7. CASE Optimize
  <2>1. /\ stage = "optimize"
        /\ \/ stage' = "refused"
           \/ /\ stage' = "planned" /\ stack' = stack
              /\ \E k : plan' = [plan EXCEPT !.jobs = Jobs(request.profile, stack), !.knobs = k]
    BY <1>7, Zenon DEF Optimize, Refuse
  <2>2. request.profile.cores \in Nat /\ request.profile.memory \in Nat
    BY <2>1, PlannerAssumption DEF PlannerAssumption, PlanInv, Planned, Asked
  <2>3. Jobs(request.profile, stack) \in Nat \ {0}
    BY <2>2, JobsPositive
  <2>4. CASE stage' = "planned"
    <3>1. PICK j : j = Jobs(request.profile, stack)
      OBVIOUS
    <3>2. PICK k : plan' = [plan EXCEPT !.jobs = j, !.knobs = k]
      BY <2>1, <2>4, <3>1, Zenon
    <3>3. DOMAIN plan = {"base", "fingerprint", "jobs", "knobs"}
      BY <2>1 DEF PlanInv
    <3>4. /\ plan'.base = plan.base /\ plan'.fingerprint = plan.fingerprint /\ plan'.jobs = j
      BY <3>2, <3>3, Filled, Zenon
    <3>5. stack' = stack
      BY <2>1, <2>4, Zenon
    <3>6. QED
      BY <1>1, <1>2, <2>1, <2>3, <2>4, <3>1, <3>4, <3>5 DEF PlanInv, BaseChosen, Planned
  <2>5. QED
    BY <1>3, <2>1, <2>4
<1>8. QED
  BY <1>4, <1>5, <1>6, <1>7 DEF Planning, PlanStep

\* Every step does.
LEMMA PlanInvStep ==
    ASSUME StageInv, PlanInv, [Next]_vars
    PROVE  PlanInv'
<1> USE DEF planVars, buildVars, runVars, storeVars
<1>1. CASE NewRequest
  <2>1. /\ stage' = "compose" /\ attempt' = 0 /\ outcome' = "none"
        /\ request' \in (IF served = 0 THEN Requests ELSE NextRequests)
    BY <1>1, Zenon DEF NewRequest, Submit
  <2>2. QED
    BY <2>1 DEF PlanInv, BaseChosen, Planned, Asked
<1>2. CASE Planning
  BY <1>2, PlanStepKeeps
<1>3. CASE Reuse
  <2>1. /\ stage = "planned" /\ stage' = "idle" /\ attempt' = attempt
        /\ UNCHANGED <<request, stack, report, plan>>
    BY <1>3, Zenon DEF Reuse, Finish
  <2>2. QED
    BY <2>1, SamePlan DEF BaseChosen
<1>4. CASE Pull
  <2>1. /\ stage = "planned" /\ stage' \in {"idle", "buildx"}
        /\ UNCHANGED <<request, stack, report, plan>>
    BY <1>4, Zenon DEF Pull, Finish, StartBuild, StartRun
  <2>2. QED
    BY <2>1, SamePlan DEF BaseChosen
<1>5. CASE Render
  <2>1. /\ stage = "planned" /\ stage' \in {"idle", "buildx"}
        /\ UNCHANGED <<request, stack, report, plan>>
    BY <1>5, Zenon DEF Render, Finish, StartBuild, StartRun
  <2>2. QED
    BY <2>1, SamePlan DEF BaseChosen
<1>6. CASE UNCHANGED <<planVars, buildVars>>
  BY <1>6, SamePlan
<1>7. ASSUME NEW l \in Lines, WriteLine(l) PROVE PlanInv'
  BY <1>6, <1>7 DEF WriteLine
<1>8. CASE CloseOutput \/ ReadLine \/ ReadEnd
  BY <1>6, <1>8 DEF CloseOutput, ReadLine, ReadEnd
<1>9. ASSUME NEW c \in {0, 1}, Exit(c) PROVE PlanInv'
  BY <1>6, <1>9 DEF Exit
<1>10. CASE Expire \/ TakeLine \/ TakeEndEarly
  BY <1>6, <1>10 DEF Expire, TakeLine, TakeEndEarly
<1>11. CASE TimeOut
  <2>1. /\ stage = "buildx" /\ stage' = "idle" /\ attempt' = attempt
        /\ UNCHANGED <<request, stack, report, plan>>
    BY <1>11, Zenon DEF TimeOut, Finish
  <2>2. QED
    BY <2>1, SamePlan DEF BaseChosen
<1>12. CASE TakeEnd
  <2>1. /\ stage = "buildx" /\ stage' \in {"idle", "buildx"}
        /\ attempt' = attempt \/ attempt' = attempt + 1
        /\ UNCHANGED <<request, stack, report, plan>>
    BY <1>12, Zenon DEF TakeEnd, Ended, Finish, StartRun
  <2>2. attempt > 0 /\ (attempt' = attempt \/ attempt' > 0)
    BY <2>1 DEF StageInv
  <2>3. QED
    BY <2>1, <2>2, SamePlan DEF BaseChosen
<1>13. CASE UNCHANGED vars
  BY <1>6, <1>13 DEF vars
<1>14. QED
  BY <1>1, <1>2, <1>3, <1>4, <1>5, <1>7, <1>8, <1>9, <1>10, <1>11, <1>12, <1>13
     DEF Next, BuildStep

-----------------------------------------------------------------------------
\* Half the jobs are fewer, unless there is one.
LEMMA FewerJobs ==
    ASSUME NEW j \in Nat \ {0}
    PROVE  /\ Lowered(j) \in Nat \ {0} /\ Lowered(j) <= j
           /\ stack.strategy = "overlay" /\ j > 1 => Lowered(j) # j
<1>1. j \div 2 \in Nat /\ j \div 2 <= j /\ (j > 1 => j \div 2 < j)
  OBVIOUS
<1>2. Greatest(1, j \div 2) \in Nat \ {0} /\ Greatest(1, j \div 2) <= j
      /\ (j > 1 => Greatest(1, j \div 2) # j)
  BY <1>1 DEF Greatest
<1>3. Lowered(j) = j \/ (stack.strategy = "overlay" /\ Lowered(j) = Greatest(1, j \div 2))
  BY DEF Lowered
<1>4. stack.strategy = "overlay" => Lowered(j) = Greatest(1, j \div 2)
  BY DEF Lowered
<1>5. QED
  BY <1>2, <1>3, <1>4

\* A step that touches neither plan nor runs keeps it, unless it ends a second run.
LEMMA SameBuild ==
    ASSUME OomIsRetriedOnce,
           UNCHANGED <<stack, plan, attempt, jobs>>,
           outcome' = "failed" /\ attempt = 1 => outcome = "failed" /\ written' = written
    PROVE  OomIsRetriedOnce'
<1>1. \A j : Lowered(j)' = Lowered(j)
  BY DEF Lowered
<1>2. Range(written') = Range(written)' 
  OBVIOUS
<1>3. QED
  BY <1>1 DEF OomIsRetriedOnce

\* Every step keeps what is known of jobs and runs.
LEMMA OomStep ==
    ASSUME StageInv, OutputInv, PlanInv, OomIsRetriedOnce, [Next]_vars
    PROVE  OomIsRetriedOnce'
<1> USE DEF planVars, buildVars, runVars, storeVars
<1>1. CASE attempt' = 0
  BY <1>1 DEF OomIsRetriedOnce
<1>2. CASE NewRequest
  BY <1>1, <1>2 DEF NewRequest
<1>3. CASE Planning
  <2>1. stage \in Planned
    BY <1>3, Zenon DEF Planning, PlanStep, Compose, Evaluate, Select, Optimize, Planned
  <2>2. attempt' = 0
    BY <1>3, <2>1 DEF Planning, StageInv
  <2>3. QED
    BY <1>1, <2>2
<1>4. CASE Reuse
  <2>1. stage = "planned" /\ attempt' = attempt
    BY <1>4, Zenon DEF Reuse
  <2>2. QED
    BY <1>1, <2>1 DEF StageInv, Planned
<1>5. ASSUME NEW contents, stage = "planned", StartBuild(contents) PROVE OomIsRetriedOnce'
  <2>1. attempt' = attempt + 1 /\ jobs' = plan.jobs /\ plan' = plan /\ outcome' = outcome
    BY <1>5, Zenon DEF StartBuild, StartRun
  <2>2. attempt = 0 /\ outcome = "none"
    BY <1>5 DEF StageInv, Planned
  <2>3. QED
    BY <2>1, <2>2 DEF OomIsRetriedOnce
<1>6. CASE Pull \/ Render
  <2>1. stage = "planned" /\ (attempt' = attempt \/ \E contents : StartBuild(contents))
    BY <1>6, Zenon DEF Pull, Render
  <2>2. attempt = 0
    BY <2>1 DEF StageInv, Planned
  <2>3. QED
    BY <1>1, <1>5, <2>1, <2>2
<1>7. ASSUME NEW l \in Lines, WriteLine(l) PROVE OomIsRetriedOnce'
  <2>1. ~(outcome = "failed" /\ attempt = 1)
    BY <1>7 DEF WriteLine, StageInv
  <2>2. QED
    BY <1>7, <2>1, SameBuild DEF WriteLine
<1>8. CASE CloseOutput \/ ReadLine \/ ReadEnd
  BY <1>8, SameBuild DEF CloseOutput, ReadLine, ReadEnd
<1>9. ASSUME NEW c \in {0, 1}, Exit(c) PROVE OomIsRetriedOnce'
  BY <1>9, SameBuild DEF Exit
<1>10. CASE Expire \/ TakeLine \/ TakeEndEarly
  BY <1>10, SameBuild DEF Expire, TakeLine, TakeEndEarly
<1>11. CASE TimeOut
  <2>1. outcome' = "timeout" /\ UNCHANGED <<stack, plan, attempt, jobs>>
    BY <1>11, Zenon DEF TimeOut, Finish
  <2>2. QED
    BY <2>1, SameBuild
<1>12. CASE TakeEnd
  <2>1. /\ stage = "buildx" /\ attempt > 0 /\ outcome = "none"
        /\ jobs = (IF attempt = 1 THEN plan.jobs ELSE Lowered(plan.jobs))
        /\ plan.jobs \in Nat \ {0}
    BY <1>12 DEF TakeEnd, StageInv, OomIsRetriedOnce, PlanInv
  <2>2. collected = written
    BY <1>12, EndHasAll
  <2>3. CASE outcome' = "built" /\ UNCHANGED <<stack, plan, attempt, jobs>>
    BY <2>3, SameBuild
  <2>4. ASSUME attempt = 1, Lowered(jobs) # jobs, StartRun(Lowered(jobs)), UNCHANGED <<stack, plan, outcome>>
        PROVE  OomIsRetriedOnce'
    <3>1. attempt' = 2 /\ jobs' = Lowered(plan.jobs) /\ Lowered(plan.jobs) # plan.jobs
      BY <2>1, <2>4 DEF StartRun
    <3>2. Lowered(plan.jobs)' = Lowered(plan.jobs)
      BY <2>4 DEF Lowered
    <3>3. Lowered(plan.jobs) < plan.jobs
      BY <2>1, <3>1, FewerJobs
    <3>4. QED
      BY <2>4, <3>1, <3>2, <3>3 DEF OomIsRetriedOnce
  <2>5. ASSUME ~(attempt = 1 /\ LooksLikeOom(collected) /\ Lowered(jobs) # jobs),
               outcome' = "failed", UNCHANGED <<stack, plan, attempt, jobs, written>>
        PROVE  OomIsRetriedOnce'
    <3>1. ASSUME attempt = 1, stack.strategy = "overlay", plan.jobs > 1
          PROVE  "oom" \notin Range(written)
      <4>1. Lowered(jobs) # jobs
        BY <2>1, <3>1, FewerJobs
      <4>2. ~LooksLikeOom(written)
        BY <2>2, <2>5, <3>1, <4>1
      <4>3. QED
        BY <4>2 DEF LooksLikeOom, Range
    <3>2. \A j : Lowered(j)' = Lowered(j)
      BY <2>5 DEF Lowered
    <3>3. QED
      BY <2>5, <3>1, <3>2 DEF OomIsRetriedOnce
  <2>6. QED
    <3>1. \/ outcome' = "built" /\ UNCHANGED <<stack, plan, attempt, jobs>>
          \/ /\ attempt = 1 /\ Lowered(jobs) # jobs /\ StartRun(Lowered(jobs))
             /\ UNCHANGED <<stack, plan, outcome>>
          \/ /\ ~(attempt = 1 /\ LooksLikeOom(collected) /\ Lowered(jobs) # jobs)
             /\ outcome' = "failed" /\ UNCHANGED <<stack, plan, attempt, jobs, written>>
      BY <1>12, Zenon DEF TakeEnd, Ended, Finish
    <3>2. QED
      BY <2>3, <2>4, <2>5, <3>1
<1>13. CASE UNCHANGED vars
  BY <1>13, SameBuild DEF vars
<1>14. QED
  BY <1>2, <1>3, <1>4, <1>6, <1>7, <1>8, <1>9, <1>10, <1>11, <1>12, <1>13
     DEF Next, BuildStep

-----------------------------------------------------------------------------
StackFields ==
    {"id", "schema", "baseRole", "strategy", "entrypoint", "pip", "npm", "apt", "aptPins", "copies",
     "env", "ports", "variants", "aptMode", "pipMode", "wheelhouse", "npmMode", "layers", "needs",
     "derived", "serve", "baseImage", "baseTag", "wheelhouseHint"}

Hints(s) == <<s.baseImage, s.baseTag, s.wheelhouseHint>>

\* The hints change the base image and the wheelhouse hint and nothing else.
LEMMA HintsOnly ==
    ASSUME NEW s, NEW d, NEW h, h = Hinted(s, d), DOMAIN s = StackFields
    PROVE  /\ h.apt = s.apt /\ h.aptPins = s.aptPins /\ h.aptMode = s.aptMode
           /\ h.npmMode = s.npmMode /\ h.copies = s.copies /\ h.layers = s.layers
  BY Zenon DEF Hinted, StackFields

\* A composed stack has no hints of its own.
LEMMA Unhinted ==
    ASSUME NEW r
    PROVE  DOMAIN Merging(r) = StackFields /\ Hints(Merging(r)) = <<"", "", "">>
<1>1. DOMAIN Merging(r) = StackFields
  BY Zenon DEF Merging, MergedStack, StackFields
<1>2. Merging(r).baseImage = "" /\ Merging(r).baseTag = "" /\ Merging(r).wheelhouseHint = ""
  BY Zenon DEF Merging, MergedStack
<1>3. QED
  BY <1>1, <1>2, Zenon DEF Hints

\* Fields that are given their own values leave a stack as it is.
LEMMA OwnHints ==
    ASSUME NEW s, s = [k \in DOMAIN s |-> s[k]],
           NEW a, NEW b, NEW c, a = s.baseImage, b = s.baseTag, c = s.wheelhouseHint
    PROVE  [s EXCEPT !.baseImage = a, !.baseTag = b, !.wheelhouseHint = c] = s
<1>1. [s EXCEPT !.baseImage = a] = s
  BY Zenon
<1>2. [s EXCEPT !.baseTag = b] = s
  BY Zenon
<1>3. [s EXCEPT !.wheelhouseHint = c] = s
  BY Zenon
<1>4. QED
  BY <1>1, <1>2, <1>3, Zenon

\* A stack that was given no other hints than its own is the stack it was.
LEMMA SameHints ==
    ASSUME NEW r
    PROVE  Resolution(r) = Merging(r) <=> Hints(Resolution(r)) = Hints(Merging(r))
<1>1. ASSUME Hints(Resolution(r)) = Hints(Merging(r)) PROVE Resolution(r) = Merging(r)
  <2>1. PICK s : s = Merging(r)
    OBVIOUS
  <2>2. DOMAIN s = StackFields
    BY <2>1, Unhinted
  <2>3. PICK a, b, c : Resolution(r) = [s EXCEPT !.baseImage = a, !.baseTag = b, !.wheelhouseHint = c]
    BY <2>1, Zenon DEF Resolution, Hinted
  <2>4. Hints(Resolution(r)) = <<a, b, c>>
    <3>1. PICK h : h = Resolution(r)
      OBVIOUS
    <3>2. h.baseImage = a /\ h.baseTag = b /\ h.wheelhouseHint = c
      BY <2>2, <2>3, <3>1, Zenon DEF StackFields
    <3>3. QED
      BY <3>1, <3>2, Zenon DEF Hints
  <2>5. a = s.baseImage /\ b = s.baseTag /\ c = s.wheelhouseHint
    BY <1>1, <2>1, <2>4 DEF Hints
  <2>6. s = [k \in DOMAIN s |-> s[k]]
    BY <2>1, Zenon DEF Merging, MergedStack
  <2>7. QED
    BY <2>1, <2>3, <2>5, <2>6, OwnHints, Zenon
<1>2. QED
  BY <1>1

\* The fingerprint tells the base image and the hints.
LEMMA FingerprintTells ==
    ASSUME NEW p, NEW s, NEW b, NEW q, NEW t, NEW c, Fingerprint(p, s, b) = Fingerprint(q, t, c)
    PROVE  Hints(s) = Hints(t) /\ b = c
  BY DEF Fingerprint, Hints

\* A fingerprint names its base.
LEMMA FingerprintBase ==
    ASSUME NEW p, NEW s, NEW b
    PROVE  Fingerprint(p, s, b).base = b
  BY DEF Fingerprint

\* What composes has valid components.
LEMMA ComposedIsValid ==
    ASSUME NEW r, Composes(r)
    PROVE  ValidComponents(Merging(r))
  BY Zenon DEF Composes, ComposeError, Merging

\* Valid components can be rendered.
LEMMA ValidIsRendered ==
    ASSUME NEW s, s.aptMode = "pin_only" => s.apt \subseteq DOMAIN s.aptPins,
           s.npmMode = "lock_only" => s.copies \intersect Lockfiles # {}
    PROVE  RenderError(s) \notin {"unpinned apt package", "no lockfile"}
  BY Zenon DEF RenderError

\* What is stored is found, and nothing else changes.
Puts(new, old, k, v) ==
    /\ DOMAIN new = (DOMAIN old) \union {k}
    /\ new[k] = v
    /\ \A f \in DOMAIN old : f # k => new[f] = old[f]

\* Put does so.
LEMMA PutPuts ==
    ASSUME NEW old, NEW k, NEW v, NEW new, new = Put(old, k, v)
    PROVE  Puts(new, old, k, v)
  BY DEF Put, Puts

\* An image that shows no drift has the schema labels of the plan.
LEMMA NoDriftNoChange ==
    ASSUME NEW p, NEW s, NEW q, NEW t, NEW f, NEW record,
           Drift(Labels(p, s, f), record, Labels(q, t, f)) = {}
    PROVE  Labels(p, s, f).schemas = SchemaLabels(q, t)
<1>1. \A k \in {"stack", "profile", "layers"} : SchemaLabels(p, s)[k] = SchemaLabels(q, t)[k]
  <2>1. Labels(p, s, f).schemas = SchemaLabels(p, s) /\ Labels(q, t, f).schemas = SchemaLabels(q, t)
    BY DEF Labels
  <2>2. DOMAIN SchemaLabels(q, t) = {"stack", "profile", "layers"}
    BY DEF SchemaLabels
  <2>3. QED
    BY <2>1, <2>2 DEF Drift
<1>2. SchemaLabels(p, s) = SchemaLabels(q, t)
  BY <1>1 DEF SchemaLabels
<1>3. QED
  BY <1>2 DEF Labels

\* Steps that store nothing and answer nothing.
LEMMA SameStores ==
    ASSUME StoreInv, UNCHANGED storeVars,
           stage' = "buildx" => stage = "buildx" /\ plan' = plan,
           outcome' \in {"built", "reused"} => outcome' = outcome /\ UNCHANGED <<request, stack, plan>>
    PROVE  StoreInv'
<1>1. (\A f \in DOMAIN images : f \in DOMAIN records /\ \E p, s : images[f].labels = Labels(p, s, f))'
  BY DEF StoreInv, storeVars
<1>2. (\A f \in DOMAIN records : records[f].base = f.base)'
  BY DEF StoreInv, storeVars
<1>3. (\A f \in DOMAIN snapshots : \E r, base :
          /\ f = Fingerprint(r.profile, Resolution(r), base)
          /\ snapshots[f] = Snapshot(r.profile, r.recipe))'
  BY DEF StoreInv, storeVars
<1>4. (stage = "buildx" => plan.fingerprint \in DOMAIN records)'
  BY DEF StoreInv, storeVars
<1>5. (outcome \in {"built", "reused"} =>
          /\ plan.fingerprint \in DOMAIN images
          /\ images[plan.fingerprint].labels.schemas = SchemaLabels(request.profile, stack))'
  BY DEF StoreInv, storeVars
<1>6. QED
  BY <1>1, <1>2, <1>3, <1>4, <1>5 DEF StoreInv

\* A record names the base of its plan, which is the one of the fingerprint.
LEMMA RecordedKeeps ==
    ASSUME PlanInv, StoreInv, stage = "planned", Recorded, UNCHANGED <<images, snapshots, plan>>,
           outcome' \notin {"built", "reused"}
    PROVE  StoreInv'
<1> DEFINE fp == plan.fingerprint
           rec == Record(PlannedLabels, plan.base)
<1>1. rec.base = plan.base
  BY DEF Record
<1>2. plan.base = fp.base
  <2>1. fp = Fingerprint(request.profile, stack, plan.base)
    BY DEF PlanInv, BaseChosen
  <2>2. QED
    BY <2>1, FingerprintBase
<1>3. Puts(records', records, fp, rec)
  BY PutPuts DEF Recorded
<1> HIDE DEF fp, rec
<1>4. \A f \in DOMAIN records' : records'[f].base = f.base
  BY <1>1, <1>2, <1>3 DEF Puts, StoreInv
<1>5. DOMAIN records' = (DOMAIN records) \union {fp}
  BY <1>3 DEF Puts
<1>6. \A f \in DOMAIN images' :
          f \in DOMAIN records' /\ \E p, s : images'[f].labels = Labels(p, s, f)
  BY <1>5 DEF StoreInv
<1>7. \A f \in DOMAIN snapshots' : \E r, base :
          /\ f = Fingerprint(r.profile, Resolution(r), base)
          /\ snapshots'[f] = Snapshot(r.profile, r.recipe)
  BY DEF StoreInv
<1>8. plan'.fingerprint \in DOMAIN records'
  BY <1>5 DEF fp
<1>9. QED
  BY <1>4, <1>6, <1>7, <1>8 DEF StoreInv

\* A build that ends well puts its image and perhaps its snapshots away.
LEMMA BuiltKeeps ==
    ASSUME PlanInv, StoreInv, stage = "buildx", NEW c,
           images' = Put(images, plan.fingerprint, [content |-> c, labels |-> PlannedLabels]),
           SnapshotTaken, stage' = "idle", UNCHANGED <<records, request, stack, plan>>
    PROVE  StoreInv'
<1> DEFINE fp    == plan.fingerprint
           image == [content |-> c, labels |-> PlannedLabels]
<1>1. image.labels = Labels(request.profile, stack, fp)
  BY DEF PlannedLabels
<1>2. image.labels.schemas = SchemaLabels(request.profile, stack)
  BY <1>1 DEF Labels
<1>3. Puts(images', images, fp, image)
  BY PutPuts
<1>4. fp \in DOMAIN records
  BY DEF StoreInv
<1>5. stack = Resolution(request) /\ fp = Fingerprint(request.profile, stack, plan.base)
  BY DEF PlanInv, BaseChosen
<1> HIDE DEF fp, image
<1>6. \A f \in DOMAIN images' :
          f \in DOMAIN records' /\ \E p, s : images'[f].labels = Labels(p, s, f)
  BY <1>1, <1>3, <1>4 DEF Puts, StoreInv
<1>7. ASSUME NEW f \in DOMAIN snapshots'
      PROVE  \E r, base :
          /\ f = Fingerprint(r.profile, Resolution(r), base)
          /\ snapshots'[f] = Snapshot(r.profile, r.recipe)
  <2>1. CASE f \in DOMAIN snapshots /\ snapshots'[f] = snapshots[f]
    BY <2>1 DEF StoreInv
  <2>2. CASE f = fp /\ snapshots'[f] = Snapshot(request.profile, request.recipe)
    BY <1>5, <2>2
  <2>3. QED
    <3>1. CASE snapshots' = snapshots
      BY <1>7, <2>1, <3>1
    <3> DEFINE snap == Snapshot(request.profile, request.recipe)
    <3>2. CASE snapshots' = Put(snapshots, fp, snap)
      <4>1. Puts(snapshots', snapshots, fp, snap)
        BY <3>2, PutPuts
      <4> HIDE DEF snap
      <4>2. f = fp \/ f \in DOMAIN snapshots
        BY <1>7, <4>1 DEF Puts
      <4>3. f = fp => snapshots'[f] = snap
        BY <4>1 DEF Puts
      <4>4. f # fp => snapshots'[f] = snapshots[f]
        BY <4>1, <4>2 DEF Puts
      <4>5. QED
        BY <2>1, <2>2, <4>2, <4>3, <4>4 DEF snap
    <3>3. QED
      BY <3>1, <3>2 DEF SnapshotTaken, fp
<1>8. /\ plan'.fingerprint \in DOMAIN images'
      /\ images'[plan'.fingerprint].labels.schemas = SchemaLabels(request'.profile, stack')
  BY <1>2, <1>3 DEF Puts, fp
<1>9. \A f \in DOMAIN records' : records'[f].base = f.base
  BY DEF StoreInv
<1>10. QED
  BY <1>6, <1>7, <1>8, <1>9 DEF StoreInv

\* Every step keeps records, images and snapshots together.
LEMMA StoreStep ==
    ASSUME StageInv, PlanInv, StoreInv, [Next]_vars
    PROVE  StoreInv'
<1> USE DEF planVars, buildVars, runVars
<1>1. CASE NewRequest
  <2>1. UNCHANGED storeVars /\ stage' = "compose" /\ outcome' = "none"
    BY <1>1, Zenon DEF NewRequest, Submit
  <2>2. QED
    BY <2>1, SameStores
<1>2. CASE Planning
  <2>1. UNCHANGED storeVars /\ outcome' = outcome /\ stage \in Planned /\ stage' # "buildx"
    BY <1>2, Zenon DEF Planning, PlanStep, Compose, Evaluate, Select, Optimize, Refuse, Planned
  <2>2. outcome' = "none"
    BY <2>1 DEF StageInv
  <2>3. QED
    BY <2>1, <2>2, SameStores
<1>3. CASE Reuse
  <2>1. /\ Exists /\ stage' = "idle"
        /\ UNCHANGED <<images, records, snapshots, request, stack, plan>>
    BY <1>3, Zenon DEF Reuse, Finish, storeVars
  <2>2. PICK fp : fp = plan.fingerprint
    OBVIOUS
  <2>3. /\ fp \in DOMAIN images
        /\ Drift(images[fp].labels, records[fp], Labels(request.profile, stack, fp)) = {}
    BY <2>1, <2>2 DEF Exists, PlannedLabels
  <2>4. PICK p, s : images[fp].labels = Labels(p, s, fp)
    BY <2>3 DEF StoreInv
  <2>5. images[fp].labels.schemas = SchemaLabels(request.profile, stack)
    BY <2>3, <2>4, NoDriftNoChange
  <2>6. QED
    BY <2>1, <2>2, <2>3, <2>5 DEF StoreInv
<1>4. CASE Pull \/ Render
  <2>1. /\ stage = "planned" /\ Recorded /\ UNCHANGED <<images, snapshots, plan>>
        /\ outcome' = "failed" \/ outcome' = outcome
    BY <1>4, Zenon DEF Pull, Render, Finish, StartBuild
  <2>2. outcome' \notin {"built", "reused"}
    BY <2>1 DEF StageInv, Planned
  <2>3. QED
    BY <2>1, <2>2, RecordedKeeps
<1>5. CASE UNCHANGED <<planVars, buildVars>>
  BY <1>5, SameStores
<1>6. ASSUME NEW l \in Lines, WriteLine(l) PROVE StoreInv'
  BY <1>5, <1>6 DEF WriteLine
<1>7. CASE CloseOutput \/ ReadLine \/ ReadEnd
  BY <1>5, <1>7 DEF CloseOutput, ReadLine, ReadEnd
<1>8. ASSUME NEW c \in {0, 1}, Exit(c) PROVE StoreInv'
  BY <1>5, <1>8 DEF Exit
<1>9. CASE Expire \/ TakeLine \/ TakeEndEarly
  BY <1>5, <1>9 DEF Expire, TakeLine, TakeEndEarly
<1>10. CASE TimeOut
  <2>1. UNCHANGED storeVars /\ stage' = "idle" /\ outcome' = "timeout"
    BY <1>10, Zenon DEF TimeOut, Finish
  <2>2. QED
    BY <2>1, SameStores
<1>11. CASE TakeEnd
  <2>1. stage = "buildx" /\ Ended
    BY <1>11, Zenon DEF TakeEnd
  <2>2. \/ /\ \E c : images' = Put(images, plan.fingerprint, [content |-> c, labels |-> PlannedLabels])
           /\ SnapshotTaken /\ stage' = "idle" /\ UNCHANGED <<records, request, stack, plan>>
        \/ UNCHANGED <<storeVars, stage, plan, outcome, request, stack>>
        \/ UNCHANGED storeVars /\ stage' = "idle" /\ outcome' = "failed"
    BY <2>1, Zenon DEF Ended, Finish, storeVars
  <2>3. QED
    BY <2>1, <2>2, BuiltKeeps, SameStores
<1>12. CASE UNCHANGED vars
  BY <1>5, <1>12 DEF vars
<1>13. QED
  BY <1>1, <1>2, <1>3, <1>4, <1>6, <1>7, <1>8, <1>9, <1>10, <1>11, <1>12
     DEF Next, BuildStep

-----------------------------------------------------------------------------
\* The inductive invariant.
BuildInv == StageInv /\ OutputInv /\ PlanInv /\ StoreInv /\ OomIsRetriedOnce

\* It holds at first ...
LEMMA InitInv == BuildInit => BuildInv
<1> SUFFICES ASSUME BuildInit PROVE BuildInv
  OBVIOUS
<1>1. /\ stage = "idle" /\ attempt = 0 /\ outcome = "none" /\ proc = "none"
      /\ written = <<>> /\ pipe = <<>> /\ queue = <<>> /\ collected = <<>> /\ streamClosed = FALSE
      /\ images = <<>> /\ records = <<>> /\ snapshots = <<>>
  BY Zenon DEF BuildInit, Init, NoRun
<1>2. StageInv
  BY <1>1 DEF StageInv, Planned
<1>3. OutputInv
  <2>1. <<>> \in Seq(Lines)
    OBVIOUS
  <2>2. <<>> = <<>> \o <<>>
    BY <2>1, ConcatEmptySeq
  <2>3. PassedOn(<<>>)
    BY <1>1, <2>2 DEF PassedOn
  <2>4. QED
    BY <1>1, <2>1, <2>3 DEF OutputInv
<1>4. PlanInv
  BY <1>1 DEF PlanInv, Planned, BaseChosen
<1>5. StoreInv
  BY <1>1 DEF StoreInv
<1>6. OomIsRetriedOnce
  BY <1>1 DEF OomIsRetriedOnce
<1>7. QED
  BY <1>2, <1>3, <1>4, <1>5, <1>6 DEF BuildInv

\* ... and every step keeps it ...
LEMMA InvStep == BuildInv /\ [Next]_vars => BuildInv'
  BY StageStep, OutputStep, PlanInvStep, StoreStep, OomStep DEF BuildInv

\* ... so it holds at any time.
LEMMA InvHolds == Spec => []BuildInv
  BY InitInv, InvStep, PTL DEF Spec

\* The output of a run that ends by itself has all been logged, in order,
\* however the process, the reader thread and the loop take turns
\* (_run_streaming in runtime/buildx.py).
THEOREM LoggedOutputIsComplete == Spec => []OutputIsComplete
<1>1. BuildInv => OutputIsComplete
  BY DEF BuildInv, OutputInv, OutputIsComplete
<1>2. QED
  BY <1>1, InvHolds, PTL

\* buildx runs a second time only with fewer jobs, after a first run that
\* looked like running out of memory, and such a run is never the last one
\* while there were jobs to spare (run_buildx in runtime/buildx.py).
THEOREM RetryIsOnceWithFewerJobs == Spec => []OomIsRetriedOnce
<1>1. BuildInv => OomIsRetriedOnce
  BY DEF BuildInv
<1>2. QED
  BY <1>1, InvHolds, PTL

\* The install policies that composition has checked are those that the
\* overlay needs: the hints of the tuple catalog do not come between
\* (domain/models.py, builders/overlay.py).
THEOREM ComposedPoliciesRender == Spec => []RenderedPolicyHolds
<1>1. ASSUME PlanInv, stage = "planned"
      PROVE  RenderError(stack) \notin {"unpinned apt package", "no lockfile"}
  <2>1. PICK m : m = Merging(request)
    OBVIOUS
  <2>2. Composes(request) /\ stack = Hinted(m, Decision(request))
    BY <1>1, <2>1 DEF PlanInv, BaseChosen, Resolution
  <2>3. DOMAIN m = StackFields /\ ValidComponents(m)
    BY <2>1, <2>2, Unhinted, ComposedIsValid
  <2>4. /\ stack.apt = m.apt /\ stack.aptPins = m.aptPins /\ stack.aptMode = m.aptMode
        /\ stack.npmMode = m.npmMode /\ stack.copies = m.copies
    BY <2>2, <2>3, HintsOnly, Zenon
  <2>5. /\ stack.aptMode = "pin_only" => stack.apt \subseteq DOMAIN stack.aptPins
        /\ stack.npmMode = "lock_only" => stack.copies \intersect Lockfiles # {}
    BY <2>3, <2>4, Zenon DEF ValidComponents
  <2>6. QED
    BY <2>5, ValidIsRendered
<1>2. BuildInv => RenderedPolicyHolds
  BY <1>1 DEF BuildInv, RenderedPolicyHolds
<1>3. QED
  BY <1>2, InvHolds, PTL

\* The fingerprint recomputed from a snapshot is the plan's exactly when the
\* plan's stack has no hints.
LEMMA RecomputedUnlessHinted ==
    ASSUME NEW q, NEW r, NEW b, NEW c,
           Fingerprint(q.profile, Resolution(q), b) = Fingerprint(r.profile, Resolution(r), c)
    PROVE  Fingerprint(r.profile, Merging(r), c) = Fingerprint(q.profile, Resolution(q), b)
              <=> Resolution(q) = Merging(q)
<1>1. Hints(Resolution(q)) = Hints(Resolution(r))
  BY FingerprintTells
<1>2. Hints(Merging(q)) = Hints(Merging(r))
  BY Unhinted, Zenon
<1>3. ASSUME Resolution(q) = Merging(q) PROVE Resolution(r) = Merging(r)
  <2>1. Hints(Resolution(r)) = Hints(Merging(r))
    BY <1>1, <1>2, <1>3, Zenon
  <2>2. QED
    BY <2>1, SameHints
<1>4. ASSUME Fingerprint(r.profile, Merging(r), c) = Fingerprint(q.profile, Resolution(q), b)
      PROVE  Resolution(q) = Merging(q)
  <2>1. Hints(Merging(r)) = Hints(Resolution(q))
    BY <1>4, FingerprintTells
  <2>2. Hints(Resolution(q)) = Hints(Merging(q))
    BY <1>2, <2>1, Zenon
  <2>3. QED
    BY <2>2, SameHints
<1>5. QED
  BY <1>3, <1>4

\* An ensure answers with an image labelled for its plan, and verify finds
\* nothing wrong with it when the tuple catalog put no hint into its stack:
\* an older image and other snapshots of the same fingerprint included
\* (domain/drift.py, domain/verify.py, domain/ensure.py).
THEOREM AnswersVerify == Spec => []AnswerVerifies
<1>1. ASSUME PlanInv, StoreInv, outcome \in {"built", "reused"}
      PROVE  AnswerVerifies
  <2> DEFINE fp       == plan.fingerprint
             snapshot == IF fp \in DOMAIN snapshots THEN snapshots[fp] ELSE Nothing
             hinted   == stack # MergedStack(request.recipe)
  <2>1. /\ stack = Resolution(request)
        /\ fp = Fingerprint(request.profile, Resolution(request), plan.base)
    BY <1>1 DEF PlanInv, BaseChosen
  <2>2. /\ fp \in DOMAIN images /\ fp \in DOMAIN records /\ records[fp].base = fp.base
        /\ images[fp].labels.schemas = SchemaLabels(request.profile, stack)
    BY <1>1 DEF StoreInv
  <2>3. images[fp].labels.fingerprint = fp
    <3>1. PICK p, s : images[fp].labels = Labels(p, s, fp)
      BY <1>1, <2>2 DEF StoreInv
    <3>2. QED
      BY <3>1 DEF Labels
  <2>4. ASSUME fp \in DOMAIN snapshots
        PROVE  Fingerprint(snapshots[fp].profile, snapshots[fp].stack, records[fp].base) = fp <=> ~hinted
    <3>1. PICK r, c : /\ fp = Fingerprint(r.profile, Resolution(r), c)
                      /\ snapshots[fp] = Snapshot(r.profile, r.recipe)
      BY <1>1, <2>4 DEF StoreInv
    <3>2. snapshots[fp].profile = r.profile /\ snapshots[fp].stack = Merging(r)
      BY <3>1 DEF Snapshot, Merging
    <3>3. records[fp].base = c
      BY <2>2, <3>1, FingerprintBase
    <3>4. ~hinted <=> Resolution(request) = Merging(request)
      BY <2>1 DEF Merging
    <3> HIDE DEF fp, hinted
    <3>5. Fingerprint(r.profile, Merging(r), c) = fp <=> Resolution(request) = Merging(request)
      <4>1. Fingerprint(request.profile, Resolution(request), plan.base)
               = Fingerprint(r.profile, Resolution(r), c)
        BY <2>1, <3>1
      <4>2. Fingerprint(r.profile, Merging(r), c) = Fingerprint(request.profile, Resolution(request), plan.base)
               <=> Resolution(request) = Merging(request)
        BY <4>1, RecomputedUnlessHinted, Zenon
      <4>3. QED
        BY <2>1, <4>2
    <3>6. QED
      BY <3>2, <3>3, <3>4, <3>5
  <2> HIDE DEF hinted, fp
  <2>5. ASSUME ~hinted PROVE VerifyErrors(fp, images[fp].labels, records[fp], snapshot) = {}
    <3>1. CASE snapshot = Nothing
      BY <2>3, <3>1 DEF VerifyErrors
    <3>2. CASE snapshot # Nothing
      <4>1. fp \in DOMAIN snapshots /\ snapshot = snapshots[fp]
        BY <3>2
      <4>2. Fingerprint(snapshot.profile, snapshot.stack, records[fp].base) = fp <=> ~hinted
        BY <2>4, <4>1
      <4> HIDE DEF snapshot
      <4>3. QED
        BY <2>3, <2>5, <3>2, <4>2 DEF VerifyErrors
    <3>3. QED
      BY <3>1, <3>2
  <2>6. QED
    BY <2>2, <2>5, Zenon DEF AnswerVerifies, fp, hinted
<1>2. BuildInv => AnswerVerifies
  BY <1>1 DEF BuildInv, AnswerVerifies
<1>3. QED
  BY <1>2, InvHolds, PTL

-----------------------------------------------------------------------------
\* The merged catalog stands at places of a list.
LEMMA TuplesAtPlaces == DOMAIN Tuples \subseteq Nat
<1> DEFINE S   == Range(BuiltinTuples) \union Range(RootTuples)
           all == BuiltinTuples \o RootTuples
<1>1. BuiltinTuples \in Seq(S) /\ RootTuples \in Seq(S)
  BY TupleAssumption, PlannerAssumption, SeqMonotonic DEF TupleAssumption, PlannerAssumption
<1> HIDE DEF S
<1>2. all \in Seq(S)
  BY <1>1, ConcatProperties
<1>3. DOMAIN all \subseteq Nat
  BY <1>2, LenProperties
<1>4. DOMAIN Tuples \subseteq DOMAIN all
  BY Zenon DEF Tuples, MergeTuples
<1>5. QED
  BY <1>3, <1>4

\* A supported match is preferred to every other one.
LEMMA SupportedIsDecided ==
    ASSUME NEW p, NEW mode, mode # "off", NEW tuples, DOMAIN tuples \subseteq Nat,
           \E i \in DOMAIN tuples : tuples[i].status = "supported" /\ Matches(p, tuples[i])
    PROVE  \E i \in DOMAIN tuples :
              /\ tuples[i].status = "supported" /\ Matches(p, tuples[i])
              /\ TupleDecision(p, mode, tuples) = tuples[i]
<1> DEFINE met       == {i \in DOMAIN tuples : Matches(p, tuples[i])}
           supported == {i \in met : tuples[i].status = "supported"}
<1>1. supported # {} /\ met # {} /\ supported \in SUBSET Nat
  OBVIOUS
<1>2. Min(supported) \in supported
  <2> HIDE DEF supported
  <2>1. QED
    BY <1>1, HasMin
<1>3. TupleDecision(p, mode, tuples) = tuples[Min(supported)]
  BY <1>1, Zenon DEF TupleDecision
<1>4. QED
  BY <1>2, <1>3

\* Of one candidate, that one is selected.
LEMMA OnlyCandidate ==
    ASSUME NEW p, NEW s, NEW explain, NEW c, CandidatesFor(p, s) = <<c>>
    PROVE  SelectBase(p, s, explain).name = c.name
<1> DEFINE cs    == CandidatesFor(p, s)
           first == CHOOSE i \in DOMAIN cs :
                       \A j \in DOMAIN cs \ {i} :
                           Better(cs[i], cs[j], s, p) \/ (~Better(cs[j], cs[i], s, p) /\ i < j)
           named == CHOOSE i \in DOMAIN cs :
                       cs[i].name = cs[first].name /\ \A j \in 1..(i - 1) : cs[j].name # cs[first].name
           best  == cs[IF explain THEN named ELSE first]
<1>1. DOMAIN cs = {1} /\ cs[1] = c
  OBVIOUS
<1> HIDE DEF cs
<1>2. first = 1
  BY <1>1
<1> HIDE DEF first
<1>3. named = 1
  <2>1. \A j \in 1..(1 - 1) : FALSE
    OBVIOUS
  <2>2. \E i \in DOMAIN cs :
           cs[i].name = cs[first].name /\ \A j \in 1..(i - 1) : cs[j].name # cs[first].name
    BY <1>1, <1>2, <2>1
  <2>3. named \in DOMAIN cs
    BY <2>2
  <2>4. QED
    BY <1>1, <2>3
<1> HIDE DEF named
<1>4. best = c
  BY <1>1, <1>2, <1>3
<1>5. SelectBase(p, s, explain) = [name |-> best.name, tag |-> BestTag(best, p)]
  BY Zenon DEF SelectBase, cs, first, named
<1>6. QED
  BY <1>4, <1>5

\* The override is the only candidate.
LEMMA OverrideIsSelected ==
    ASSUME NEW p, NEW s, NEW explain, s.baseImage # ""
    PROVE  SelectBase(p, s, explain).name = s.baseImage
<1> DEFINE c == [name |-> s.baseImage, tags |-> <<IF s.baseTag = "" THEN "latest" ELSE s.baseTag>>,
                 bias |-> 1000]
<1>1. CandidatesFor(p, s) = <<c>>
  BY Zenon DEF CandidatesFor
<1>2. c.name = s.baseImage
  BY Zenon
<1> HIDE DEF c
<1>3. QED
  BY <1>1, <1>2, OnlyCandidate, Zenon

\* The base image of a tuple that names one is hinted.
LEMMA BaseIsHinted ==
    ASSUME NEW s, NEW d, DOMAIN s = StackFields, d.base.name # ""
    PROVE  Hinted(s, d).baseImage = d.base.name
  BY Zenon DEF Hinted, StackFields

\* Whatever experimental tuples match before it and whatever bases the
\* profile lists, a supported tuple that matches decides the base image
\* (_evaluate_tuple_resolution in resolvers/compatibility.py,
\* _stack_with_tuple_hints and select_base in resolvers/resolver.py).
THEOREM SupportedTupleDecides == Spec => []SupportedTupleWins
<1>1. ASSUME PlanInv, stage \in {"optimize", "planned"}, request.mode # "off",
             NEW supported,
             supported = {t \in Range(Tuples) : t.status = "supported" /\ Matches(request.profile, t)},
             supported # {}, \A t \in supported : t.base.name # ""
      PROVE  plan.base.name \in {t.base.name : t \in supported}
  <2>1. PICK d : d = Decision(request)
    OBVIOUS
  <2>2. d \in supported
    <3>1. \E i \in DOMAIN Tuples : Tuples[i].status = "supported" /\ Matches(request.profile, Tuples[i])
      BY <1>1, Zenon DEF Range
    <3>2. request.mode # "off"
      BY <1>1, Zenon
    <3>3. PICK i \in DOMAIN Tuples :
              /\ Tuples[i].status = "supported" /\ Matches(request.profile, Tuples[i])
              /\ TupleDecision(request.profile, request.mode, Tuples) = Tuples[i]
      BY <3>1, <3>2, TuplesAtPlaces, SupportedIsDecided
    <3>4. QED
      BY <1>1, <2>1, <3>3, Zenon DEF Decision, Range
  <2>3. d.base.name # ""
    BY <1>1, <2>2
  <2>4. PICK m : m = Merging(request)
    OBVIOUS
  <2>5. stack = Hinted(m, d) /\ plan.base = SelectBase(request.profile, stack, request.explain)
    BY <1>1, <2>1, <2>4 DEF PlanInv, BaseChosen, Resolution
  <2>6. stack.baseImage = d.base.name
    BY <2>3, <2>4, <2>5, Unhinted, BaseIsHinted, Zenon
  <2>7. plan.base.name = stack.baseImage
    <3>1. stack.baseImage # ""
      BY <2>3, <2>6, Zenon
    <3>2. SelectBase(request.profile, stack, request.explain).name = stack.baseImage
      BY <3>1, OverrideIsSelected
    <3>3. QED
      BY <2>5, <3>2
  <2>8. QED
    BY <2>2, <2>6, <2>7
<1>2. BuildInv => SupportedTupleWins
  BY <1>1, Zenon DEF BuildInv, SupportedTupleWins
<1>3. QED
  BY <1>2, InvHolds, PTL

-----------------------------------------------------------------------------
\* What is chosen is one of the choices.
LEMMA TheIsOne ==
    ASSUME NEW set, NEW none
    PROVE  The(set, none) \in set \union {none}
  BY DEF The

\* What is found first is one of what was looked in.
LEMMA FoundIsOne ==
    ASSUME NEW sets, DOMAIN sets \subseteq Nat
    PROVE  FirstFound(sets) = {} \/ \E i \in DOMAIN sets : FirstFound(sets) = sets[i]
<1> DEFINE found == {i \in DOMAIN sets : sets[i] # {}}
<1>1. CASE found = {}
  BY <1>1 DEF FirstFound
<1>2. CASE found # {}
  <2>1. found \in SUBSET Nat /\ found \subseteq DOMAIN sets
    OBVIOUS
  <2>2. FirstFound(sets) = sets[Min(found)]
    BY <1>2, Zenon DEF FirstFound
  <2> HIDE DEF found
  <2>3. Min(found) \in found
    BY <1>2, <2>1, HasMin
  <2>4. QED
    BY <2>1, <2>2, <2>3
<1>3. QED
  BY <1>1, <1>2

\* The ids of the GPU vendors in the catalog.
Vendors == {Hardware.vendor[i].id : i \in DOMAIN Hardware.vendor}

\* They are texts ...
LEMMA VendorsHaveIds == "" \notin Vendors
  BY HardwareAssumption, Zenon DEF HardwareAssumption, Vendors

\* ... and there is one.
LEMMA VendorPlaces == DOMAIN Hardware.vendor \in SUBSET Nat /\ DOMAIN Hardware.vendor # {}
<1> DEFINE list == Hardware.vendor
<1>1. list \in Seq(Range(list)) /\ list # <<>>
  BY HardwareAssumption, Zenon DEF HardwareAssumption
<1> HIDE DEF list
<1>2. DOMAIN list = 1..Len(list) /\ Len(list) \in Nat /\ Len(list) # 0
  BY <1>1, LenProperties, EmptySeq
<1>3. 1 \in DOMAIN list /\ DOMAIN list \in SUBSET Nat
  BY <1>2
<1>4. QED
  BY <1>3 DEF list

\* A text names a vendor of the catalog, if any, ...
LEMMA MeantVendor ==
    ASSUME NEW places, places \subseteq DOMAIN Hardware.vendor, NEW v, NEW close
    PROVE  FirstMeant(Hardware.vendor, places, v, close) \subseteq Vendors
<1> DEFINE items == Hardware.vendor
           Meets(rank, i) ==
              CASE rank = 1 -> v \in {i.id, i.label}
                [] rank = 2 -> v \in i.aliases
                [] rank = 3 -> \E n \in i.aliases \union {i.id, i.label} : <<n, v>> \in close
           sets == [rank \in 1..3 |-> {k \in places : Meets(rank, items[k])}]
           met  == FirstFound(sets)
<1>1. FirstMeant(Hardware.vendor, places, v, close) = IF met = {} THEN {} ELSE {items[Min(met)].id}
  BY Zenon DEF FirstMeant
<1>2. met \subseteq DOMAIN items
  <2>1. /\ DOMAIN sets \subseteq Nat
        /\ \A i \in DOMAIN sets : sets[i] \subseteq DOMAIN items
    <3> HIDE DEF Meets
    <3>1. QED
      OBVIOUS
  <2> HIDE DEF sets
  <2>2. QED
    BY <2>1, FoundIsOne
<1> HIDE DEF met
<1>3. met # {} => Min(met) \in met
  BY <1>2, VendorPlaces, HasMin
<1>4. QED
  BY <1>1, <1>2, <1>3 DEF Vendors

\* ... so a detected vendor is resolved to one of the catalog, by the server ...
LEMMA ResolvedVendor ==
    ASSUME NEW facts
    PROVE  Resolved(facts).vendor \subseteq Vendors
<1>1. ASSUME NEW v PROVE Resolve("vendor", v) \subseteq Vendors
  BY MeantVendor, Zenon DEF Resolve
<1>2. Resolved(facts).vendor = UNION {Resolve("vendor", v) : v \in facts.vendor}
  BY DEF Resolved, Keys
<1>3. QED
  BY <1>1, <1>2

\* ... and by the form.
LEMMA FormVendor ==
    ASSUME NEW values
    PROVE  FormIds("vendor", "", values) \subseteq Vendors
<1> DEFINE items == Hardware.vendor
           fit == {k \in DOMAIN items : "" = "" \/ items[k].parent \in {"", ""}}
           Meant(v) == FirstMeant(items, fit, v, Alike)
<1>1. FormIds("vendor", "", values) = UNION {Meant(v) : v \in values}
  BY Zenon DEF FormIds
<1>2. fit \subseteq DOMAIN items
  BY Zenon
<1> HIDE DEF fit
<1>3. \A v : Meant(v) \subseteq Vendors
  BY <1>2, MeantVendor
<1> HIDE DEF Meant
<1>4. QED
  BY <1>1, <1>3

\* So is a chosen one, whatever was wanted.
LEMMA ChosenVendor ==
    ASSUME NEW parent, NEW wanted, DOMAIN wanted \subseteq Nat
    PROVE  Choose("vendor", parent, wanted) \in Vendors
<1> DEFINE items   == Hardware.vendor
           fitting == {k \in DOMAIN items : items[k].parent \in {"", parent}}
           offered == IF fitting = {} THEN DOMAIN items ELSE fitting
           ids     == {items[k].id : k \in offered}
           sets    == [i \in DOMAIN wanted |-> wanted[i] \intersect ids]
<1>1. Choose("vendor", parent, wanted) = The(FirstFound(sets), items[Min(offered)].id)
  BY Zenon DEF Choose
<1>2. offered \subseteq DOMAIN items /\ offered # {}
  BY VendorPlaces, Zenon
<1> HIDE DEF offered
<1>3. ids \subseteq Vendors
  BY <1>2 DEF Vendors
<1>4. items[Min(offered)].id \in Vendors
  <2>1. Min(offered) \in offered
    BY <1>2, VendorPlaces, HasMin
  <2>2. QED
    BY <1>2, <2>1 DEF Vendors
<1>5. FirstFound(sets) \subseteq Vendors
  <2>1. DOMAIN sets \subseteq Nat /\ \A i \in DOMAIN sets : sets[i] \subseteq Vendors
    BY <1>3
  <2> HIDE DEF sets
  <2>2. QED
    BY <2>1, FoundIsOne
<1> HIDE DEF sets
<1>6. QED
  BY <1>1, <1>4, <1>5, TheIsOne

\* A guided client names a GPU vendor for every host, and passes on the CUDA
\* runtime that was seen.
LEMMA WizardNamesVendor ==
    ASSUME NEW facts, NEW answers \in Answers
    PROVE  WizardRequest(facts, answers).vendor \in Vendors /\ WizardRequest(facts, answers).cuda = facts.cuda
<1> DEFINE wanted == <<answers["vendor"], Resolved(facts)["vendor"], {"nvidia"}>>
<1>0. WizardRequest(facts, answers).cuda = facts.cuda
  BY Zenon DEF WizardRequest
<1>1. WizardRequest(facts, answers).vendor = Choose("vendor", "", wanted)
  BY Zenon DEF WizardRequest
<1>2. DOMAIN wanted \subseteq Nat
  OBVIOUS
<1> HIDE DEF wanted
<1>3. QED
  BY <1>0, <1>1, <1>2, ChosenVendor

\* What is in none of the sets is not found.
LEMMA NotFound ==
    ASSUME NEW sets, DOMAIN sets \subseteq Nat, NEW x, \A i \in DOMAIN sets : x \notin sets[i]
    PROVE  x \notin FirstFound(sets)
  BY FoundIsOne

LEMMA PairNotFound ==
    ASSUME NEW a, NEW b, NEW x, x \notin a, x \notin b
    PROVE  x \notin FirstFound(<<a, b>>)
<1> DEFINE sets == <<a, b>>
<1>1. DOMAIN sets \subseteq Nat /\ \A i \in DOMAIN sets : sets[i] \in {a, b}
  OBVIOUS
<1> HIDE DEF sets
<1>2. x \notin FirstFound(sets)
  BY <1>1, NotFound
<1>3. QED
  BY <1>2 DEF sets

LEMMA TripleNotFound ==
    ASSUME NEW a, NEW b, NEW c, NEW x, x \notin a, x \notin b, x \notin c
    PROVE  x \notin FirstFound(<<a, b, c>>)
<1> DEFINE sets == <<a, b, c>>
<1>1. DOMAIN sets \subseteq Nat /\ \A i \in DOMAIN sets : sets[i] \in {a, b, c}
  OBVIOUS
<1> HIDE DEF sets
<1>2. x \notin FirstFound(sets)
  BY <1>1, NotFound
<1>3. QED
  BY <1>2 DEF sets

\* The vendor of the web form has a name, when it is opened ...
LEMMA OpenedNamesVendor ==
    ASSUME NEW facts
    PROVE  "" \notin OpenedForm(facts).vendor
<1> DEFINE fallback == {"nvidia"}
<1>1. OpenedForm(facts).vendor = FirstFound(<<Resolved(facts)["vendor"], fallback>>)
  BY Zenon DEF OpenedForm
<1>2. "" \notin Resolved(facts)["vendor"] /\ "" \notin fallback
  BY ResolvedVendor, VendorsHaveIds, Zenon
<1> HIDE DEF fallback
<1>3. QED
  BY <1>1, <1>2, PairNotFound, Zenon

\* ... and when it is filled in.
LEMMA FilledNamesVendor ==
    ASSUME NEW form, "" \notin form.vendor, NEW facts
    PROVE  "" \notin Autofilled(form, facts).vendor
<1> DEFINE ids == FormIds("vendor", "", facts["vendor"])
<1>1. Autofilled(form, facts).vendor = FirstFound(<<Resolved(facts)["vendor"], ids, form["vendor"]>>)
  BY Zenon DEF Autofilled
<1>2. "" \notin Resolved(facts)["vendor"] /\ "" \notin ids /\ "" \notin form["vendor"]
  BY ResolvedVendor, FormVendor, VendorsHaveIds, Zenon
<1> HIDE DEF ids
<1>3. QED
  BY <1>1, <1>2, TripleNotFound, Zenon

\* So does the one it sends.
LEMMA WebNamesVendor ==
    ASSUME NEW form, "" \notin form.vendor, NEW facts, NEW answers \in Answers
    PROVE  WebRequest(form, facts, answers).vendor # "" /\ WebRequest(form, facts, answers).cuda = facts.cuda
<1> DEFINE found == FirstFound(<<answers["vendor"], form["vendor"]>>)
<1>1. WebRequest(form, facts, answers).cuda = facts.cuda
  BY Zenon DEF WebRequest
<1>2. WebRequest(form, facts, answers).vendor = The(found, "nvidia")
  BY Zenon DEF WebRequest
<1>3. "" \notin answers["vendor"] /\ "" \notin form["vendor"]
  BY HardwareAssumption, Zenon DEF HardwareAssumption
<1>4. "" \notin found
  BY <1>3, PairNotFound, Zenon
<1> HIDE DEF found
<1>5. The(found, "nvidia") \in found \union {"nvidia"}
  BY TheIsOne, Zenon
<1>6. "nvidia" # ""
  BY Zenon
<1>7. QED
  BY <1>1, <1>2, <1>4, <1>5, <1>6, Zenon

\* The profile of a host on which no CUDA runtime was seen names a vendor, and
\* as a profile with CUDA needs its version, the vendor is not nvidia.
LEMMA UnseenIsNoGpu ==
    ASSUME NEW p, [profile |-> p, cudaSeen |-> FALSE] \in GuidedProfiles
    PROVE  p.vendor # "" /\ p.vendor # "nvidia" /\ "cuda" \notin p.caps
<1>1. PICK opened, facts : facts.cuda = {} /\ p \in Created(RequestsFrom(opened, facts))
  <2>1. PICK x : x = [profile |-> p, cudaSeen |-> FALSE]
    OBVIOUS
  <2>2. PICK seen : x \in MadeFrom(seen[1], seen[2])
    <3>1. x \in GuidedProfiles
      BY <2>1
    <3>2. PICK h \in Hosts : x \in UNION {MadeFrom(seen[1], seen[2]) : seen \in Found(h) \X Found(h)}
      BY <3>1 DEF GuidedProfiles
    <3>3. QED
      BY <3>2
  <2>3. PICK opened, facts : x \in MadeFrom(opened, facts)
    BY <2>2
  <2>4. PICK q \in Created(RequestsFrom(opened, facts)) :
            [profile |-> p, cudaSeen |-> FALSE] = [profile |-> q, cudaSeen |-> facts.cuda # {}]
    BY <2>1, <2>3, Zenon DEF MadeFrom
  <2>5. p = q /\ FALSE = (facts.cuda # {})
    BY <2>4, Zenon
  <2>6. QED
    BY <2>4, <2>5, Zenon
<1>2. PICK r \in RequestsFrom(opened, facts) : p = Built(r) /\ ProfileValid(p)
  BY <1>1, Zenon DEF Created
<1>3. r.vendor # "" /\ r.cuda = {}
  <2>1. PICK a \in Answers : r \in {WizardRequest(facts, a), WebRequest(OpenedForm(facts), facts, a),
                                    WebRequest(Autofilled(OpenedForm(opened), facts), facts, a)}
    BY <1>2, Zenon DEF RequestsFrom
  <2>2. WizardRequest(facts, a).vendor # "" /\ WizardRequest(facts, a).cuda = facts.cuda
    BY WizardNamesVendor, VendorsHaveIds, Zenon
  <2>3. "" \notin OpenedForm(facts).vendor /\ "" \notin Autofilled(OpenedForm(opened), facts).vendor
    BY OpenedNamesVendor, FilledNamesVendor, Zenon
  <2>4. WebRequest(OpenedForm(facts), facts, a).vendor # "" /\ WebRequest(OpenedForm(facts), facts, a).cuda = facts.cuda
    BY <2>3, WebNamesVendor, Zenon
  <2>5. /\ WebRequest(Autofilled(OpenedForm(opened), facts), facts, a).vendor # ""
        /\ WebRequest(Autofilled(OpenedForm(opened), facts), facts, a).cuda = facts.cuda
    BY <2>3, WebNamesVendor, Zenon
  <2>6. QED
    BY <1>1, <2>1, <2>2, <2>4, <2>5, Zenon
<1>4. p.vendor = r.vendor /\ p.caps = Capabilities(r) /\ p.schema = 3
  BY <1>2, Zenon DEF Built
<1>5. p.cuda = <<>>
  <2>1. p.cuda = The(r.cuda, [version |-> <<>>]).version
    BY <1>2, Zenon DEF Built
  <2>2. The(r.cuda, [version |-> <<>>]) = [version |-> <<>>]
    BY <1>3, Zenon DEF The
  <2>3. QED
    BY <2>1, <2>2
<1>6. "cuda" \notin p.caps
  BY <1>2, <1>4, <1>5 DEF ProfileValid
<1>7. r.vendor # "nvidia"
  BY <1>4, <1>6 DEF Capabilities
<1>8. QED
  BY <1>3, <1>4, <1>6, <1>7, Zenon

\* A plan has a stack whose layers its profile meets.
EvaluatedInv ==
    stage \in {"select", "optimize", "planned"} =>
        LayerErrors(stack, Layers(stack), request.profile) = {}

\* The hints change nothing for the layers.
LEMMA HintsKeepLayers ==
    ASSUME NEW s, NEW d, NEW h, h = Hinted(s, d), DOMAIN s = StackFields, NEW p
    PROVE  LayerErrors(h, Layers(h), p) = LayerErrors(s, Layers(s), p)
<1>1. h.layers = s.layers
  BY HintsOnly, Zenon
<1>2. QED
  BY <1>1, Zenon DEF LayerErrors, Layers

\* Every step keeps what evaluation has found.
LEMMA EvaluatedStep ==
    ASSUME StageInv, PlanInv, EvaluatedInv, [Next]_vars
    PROVE  EvaluatedInv'
<1> USE DEF planVars, buildVars, runVars, storeVars
<1>1. CASE stage' \notin {"select", "optimize", "planned"}
  BY <1>1 DEF EvaluatedInv
<1>2. CASE UNCHANGED <<stage, stack, request>>
  BY <1>2 DEF EvaluatedInv
<1>3. CASE NewRequest
  <2>1. stage' = "compose"
    BY <1>3, Zenon DEF NewRequest, Submit
  <2>2. QED
    BY <1>1, <2>1
<1>4. CASE Planning
  <2>1. CASE Compose
    <3>1. stage' \in {"evaluate", "refused"}
      BY <2>1, Zenon DEF Compose, Refuse
    <3>2. QED
      BY <1>1, <3>1
  <2>2. CASE Evaluate
    <3>1. \/ stage' = "refused"
          \/ /\ CompatErrors(request.profile, stack, Layers(stack), request.mode, request.strict, Tuples) = {}
             /\ stack' = stack /\ request' = request
      <4>1. \/ stage' = "refused"
            \/ /\ CompatErrors(request.profile, stack, Layers(stack), request.mode, request.strict, Tuples)
                     \union StackErrors(request.profile, stack) = {}
               /\ stack' = stack /\ request' = request
        BY <2>2, Zenon DEF Evaluate, Refuse
      <4>2. QED
        BY <4>1, Zenon
    <3>2. CompatErrors(request.profile, stack, Layers(stack), request.mode, request.strict, Tuples) = {}
             => LayerErrors(stack, Layers(stack), request.profile) = {}
      BY Zenon DEF CompatErrors
    <3>3. QED
      BY <1>1, <3>1, <3>2 DEF EvaluatedInv
  <2>3. CASE Select
    <3>1. stage = "select" /\ stack' = Hinted(stack, report.tuple) /\ request' = request
      BY <2>3, Zenon DEF Select
    <3>2. DOMAIN stack = StackFields
      BY <3>1, Unhinted, Zenon DEF PlanInv
    <3>3. LayerErrors(stack', Layers(stack'), request.profile) = LayerErrors(stack, Layers(stack), request.profile)
      BY <3>1, <3>2, HintsKeepLayers
    <3>4. QED
      BY <3>1, <3>3 DEF EvaluatedInv
  <2>4. CASE Optimize
    <3>1. stage = "optimize" /\ stack' = stack /\ request' = request
      BY <2>4, Zenon DEF Optimize, Refuse
    <3>2. QED
      BY <3>1 DEF EvaluatedInv
  <2>5. QED
    BY <1>4, <2>1, <2>2, <2>3, <2>4 DEF Planning, PlanStep
<1>5. CASE Reuse \/ Pull \/ Render
  <2>1. stage' \in {"idle", "buildx"}
    BY <1>5, Zenon DEF Reuse, Pull, Render, Finish, StartBuild
  <2>2. QED
    BY <1>1, <2>1
<1>6. ASSUME NEW l \in Lines, WriteLine(l) PROVE EvaluatedInv'
  BY <1>2, <1>6 DEF WriteLine
<1>7. CASE CloseOutput \/ ReadLine \/ ReadEnd
  BY <1>2, <1>7 DEF CloseOutput, ReadLine, ReadEnd
<1>8. ASSUME NEW c \in {0, 1}, Exit(c) PROVE EvaluatedInv'
  BY <1>2, <1>8 DEF Exit
<1>9. CASE Expire \/ TakeLine \/ TakeEndEarly
  BY <1>2, <1>9 DEF Expire, TakeLine, TakeEndEarly
<1>10. CASE TimeOut \/ TakeEnd
  <2>1. stage = "buildx" /\ stage' \in {"idle", stage}
    BY <1>10, Zenon DEF TimeOut, TakeEnd, Ended, Finish, StartRun
  <2>2. QED
    BY <1>1, <2>1
<1>11. CASE UNCHANGED vars
  BY <1>2, <1>11 DEF vars
<1>12. QED
  BY <1>3, <1>4, <1>5, <1>6, <1>7, <1>8, <1>9, <1>10, <1>11 DEF Next, BuildStep

\* No stack with a layer for an nvidia GPU is planned for a profile that a
\* guided client made on a host where no CUDA runtime was seen, although the
\* clients propose that vendor for every host: creation infers the cuda
\* capability from the vendor, and a profile with it needs a CUDA version
\* (application/create_flows.py, resolvers/validators.py).
THEOREM NoGpuWithoutCuda == Spec => []NoGpuPlannedUnseen
<1>1. ASSUME PlanInv, EvaluatedInv, stage = "planned", ~request.cudaSeen
      PROVE  /\ "cuda" \notin request.profile.caps
             /\ \A l \in Layers(stack) : l.requires.vendor # "nvidia" /\ l.requires.vendorId # "nvidia"
  <2>1. PICK p : p = request.profile
    OBVIOUS
  <2>2. [profile |-> p, cudaSeen |-> FALSE] \in GuidedProfiles
    <3>1. request \in Requests \union NextRequests
      BY <1>1 DEF PlanInv, Planned, Asked
    <3>2. QED
      BY <1>1, <2>1, <3>1, GuidedAssumption, Zenon DEF GuidedAssumption
  <2>3. p.vendor # "" /\ p.vendor # "nvidia" /\ "cuda" \notin p.caps
    BY <2>2, UnseenIsNoGpu
  <2>4. ASSUME NEW l \in Layers(stack) PROVE l.requires.vendor # "nvidia" /\ l.requires.vendorId # "nvidia"
    <3>1. Mismatches(l.requires, p) = {}
      <4>1. LayerErrors(stack, Layers(stack), p) = {}
        BY <1>1, <2>1 DEF EvaluatedInv
      <4>2. ASSUME NEW k \in Mismatches(l.requires, p)
            PROVE  <<l.id, k>> \in LayerErrors(stack, Layers(stack), p)
        BY <2>4, <4>2 DEF LayerErrors
      <4>3. QED
        BY <4>1, <4>2
    <3>2. ASSUME l.requires.vendor = "nvidia" \/ l.requires.vendorId = "nvidia"
          PROVE  "vendor" \in Mismatches(l.requires, p)
      BY <2>3, <3>2, Zenon DEF Mismatches
    <3>3. QED
      BY <3>1, <3>2
  <2>5. QED
    BY <2>1, <2>3, <2>4
<1>2. BuildInv /\ EvaluatedInv => NoGpuPlannedUnseen
  BY <1>1 DEF BuildInv, NoGpuPlannedUnseen
<1>3. BuildInit => EvaluatedInv
  BY Zenon DEF BuildInit, Init, EvaluatedInv
<1>4. BuildInv /\ EvaluatedInv /\ [Next]_vars => EvaluatedInv'
  BY EvaluatedStep DEF BuildInv
<1>5. QED
  BY <1>2, <1>3, <1>4, InvHolds, PTL DEF Spec

-----------------------------------------------------------------------------
\* Every recipe asked for is one that CompositionProofs is about.
LEMMA AskedRecipes == \A r \in Asked : IsRecipe(r.recipe)
BY PlannerAssumption DEF Asked

\* What the compose preview shows as an error of dependencies is what
\* composing refuses, for any layers and recipes; its wheelhouse errors are
\* not (analyze_recipe_dependency_conflicts and compose_stack in
\* domain/composition.py).
THEOREM PreviewIsRight == Spec => []PreviewPredictsCompose
<1>1. ASSUME PlanInv PROVE PreviewPredictsCompose
  <2>1. stage = "compose" => IsRecipe(request.recipe)
    BY <1>1, AskedRecipes DEF PlanInv, Planned
  <2>2. QED
    BY <2>1, PreviewForetells, Zenon DEF PreviewPredictsCompose
<1>2. BuildInv => PreviewPredictsCompose
  BY <1>1 DEF BuildInv
<1>3. QED
  BY <1>2, InvHolds, PTL

\* A preview without findings means that no reordering of the layers changes
\* what is composed, for any number of layers, if they agree on the fields
\* that no analyzer looks at.
THEOREM QuietPreviewsAreRight == Spec => []QuietPreviewMeansOrderFree
<1>1. ASSUME PlanInv, stage = "compose", ComposeError(request.recipe) = ""
      PROVE  IsRecipe(request.recipe) /\ AllKnown(request.recipe)
  <2>1. IsRecipe(request.recipe)
    BY <1>1, AskedRecipes, Zenon DEF PlanInv, Planned
  <2>2. AllKnown(request.recipe)
    BY <1>1, Zenon DEF ComposeError, AllKnown
  <2>3. QED
    BY <2>1, <2>2
<1>2. ASSUME PlanInv PROVE QuietPreviewMeansOrderFree
  <2>1. ASSUME NEW r, IsRecipe(r), AllKnown(r),
               Preview(r).overlaps = {}, Preview(r).runtime = {}, Unwatched(Parts(r)) = {},
               NEW order \in [DOMAIN r.layers -> Range(r.layers)], Range(order) = Range(r.layers)
        PROVE  Contents(MergedStack([r EXCEPT !.layers = order])) = Contents(MergedStack(r))
    <3> DEFINE s == MergedStack([r EXCEPT !.layers = order])
               t == MergedStack(r)
    <3>1. \A f \in ContentFields : s[f] = t[f]
      BY <2>1, QuietOrderIsFree, Zenon
    <3> HIDE DEF s, t
    <3>2. /\ s.pip = t.pip /\ s.npm = t.npm /\ s.apt = t.apt /\ s.copies = t.copies
          /\ s.ports = t.ports /\ s.baseRole = t.baseRole /\ s.strategy = t.strategy
          /\ s.entrypoint = t.entrypoint
      BY <3>1, Zenon DEF ContentFields
    <3>3. s.env = t.env /\ s.aptPins = t.aptPins /\ s.variants = t.variants
      BY <3>1, Zenon DEF ContentFields, KeyedFields
    <3>4. QED
      BY <3>2, <3>3, Zenon DEF s, t, Contents
  <2>2. QED
    BY <1>1, <1>2, <2>1, Zenon DEF QuietPreviewMeansOrderFree
<1>3. BuildInv => QuietPreviewMeansOrderFree
  BY <1>2 DEF BuildInv
<1>4. QED
  BY <1>3, InvHolds, PTL

-----------------------------------------------------------------------------
(***************************************************************************)
(* The stack wizard.                                                       *)
(***************************************************************************)
\* The layers picked before the k-th, and whether that one is marked, for the
\* profile p and the type of inference t.
Before(ids, k)    == {ids[j] : j \in 1..(k - 1)}
MarkedAt(ids, k, p, t) == MarkedIncompatible(LayerOf[ids[k]], Before(ids, k), p, t)

Picks(p, t) ==
    {pick \in [layers : Seq(DOMAIN GroupOf), warned : BOOLEAN] :
        pick.warned <=> \E k \in DOMAIN pick.layers : MarkedAt(pick.layers, k, p, t)}

\* One more pick is warned of when it is marked, or one before it was.
LEMMA ReviewPicks ==
    ASSUME NEW p, NEW t, NEW picks \in SUBSET Picks(p, t), NEW group
    PROVE  Review(picks, group, p, t) \in SUBSET Picks(p, t)
<1> DEFINE Picked(pick, id) ==
               [layers |-> Append(pick.layers, id),
                warned |-> pick.warned \/ MarkedIncompatible(LayerOf[id], Range(pick.layers), p, t)]
<1>1. ASSUME NEW pick \in picks, NEW id \in DOMAIN GroupOf
      PROVE  Picked(pick, id) \in Picks(p, t)
  <2> DEFINE ids == pick.layers
             n == Len(ids)
             new == Append(ids, id)
             marked == MarkedIncompatible(LayerOf[id], Range(ids), p, t)
  <2>1. /\ ids \in Seq(DOMAIN GroupOf) /\ pick.warned \in BOOLEAN
        /\ pick.warned <=> \E k \in DOMAIN ids : MarkedAt(ids, k, p, t)
    BY DEF Picks
  <2>2. n \in Nat /\ DOMAIN ids = 1..n
    BY <2>1, LenProperties
  <2>3. /\ new \in Seq(DOMAIN GroupOf) /\ Len(new) = n + 1 /\ DOMAIN new = 1..(n + 1)
        /\ \A i \in 1..n : new[i] = ids[i]
        /\ new[n + 1] = id
    BY <2>1, AppendProperties, LenProperties
  <2>4. marked \in BOOLEAN
    BY Zenon DEF MarkedIncompatible
  <2> HIDE DEF n, new, marked
  <2>5. ASSUME NEW k \in 1..n PROVE MarkedAt(new, k, p, t) <=> MarkedAt(ids, k, p, t)
    <3>1. Before(new, k) = Before(ids, k)
      BY <2>2, <2>3 DEF Before
    <3>2. new[k] = ids[k]
      BY <2>3
    <3>3. QED
      BY <3>1, <3>2 DEF MarkedAt
  <2>6. MarkedAt(new, n + 1, p, t) <=> marked
    <3>1. Before(new, n + 1) = Range(ids)
      <4>1. (n + 1) - 1 = n
        BY <2>2
      <4>2. QED
        BY <2>2, <2>3, <4>1 DEF Before, Range
    <3>2. QED
      BY <2>3, <3>1 DEF MarkedAt, marked
  <2>7. (pick.warned \/ marked) <=> \E k \in DOMAIN new : MarkedAt(new, k, p, t)
    <3>1. \A k : k \in 1..(n + 1) <=> k \in 1..n \/ k = n + 1
      BY <2>2
    <3>2. QED
      BY <2>1, <2>2, <2>3, <2>5, <2>6, <3>1
  <2> DEFINE result == [layers |-> new, warned |-> pick.warned \/ marked]
  <2>8. result \in [layers : Seq(DOMAIN GroupOf), warned : BOOLEAN]
    BY <2>1, <2>3, <2>4
  <2>9. result.layers = new /\ (result.warned <=> pick.warned \/ marked)
    OBVIOUS
  <2>10. result \in Picks(p, t)
    <3> HIDE DEF result
    <3>1. QED
      BY <2>7, <2>8, <2>9 DEF Picks
  <2>11. QED
    BY <2>10 DEF new, marked
<1>2. Review(picks, group, p, t) \subseteq
          picks \union UNION {{Picked(pick, id) : id \in {i \in DOMAIN GroupOf : GroupOf[i] = group}} : pick \in picks}
  BY Zenon DEF Review
<1> HIDE DEF Picked
<1>3. QED
  BY <1>1, <1>2

\* What was reviewed is warned of exactly when some pick was marked.
LEMMA ReviewedPicks == \A p, t : Reviewed(p, t) \subseteq Picks(p, t)
<1> SUFFICES ASSUME NEW p, NEW t PROVE Reviewed(p, t) \subseteq Picks(p, t)
  OBVIOUS
<1> DEFINE n == Len(LayerOrder)
           First == {[layers |-> <<>>, warned |-> FALSE]}
           After(F) == [i \in 0..n |-> IF i = 0 THEN First ELSE Review(F[i - 1], LayerOrder[i], p, t)]
           after == CHOOSE F : F = After(F)
<1>1. Reviewed(p, t) \subseteq after[n]
  BY Zenon DEF Reviewed
<1>2. n \in Nat
  BY DEF LayerOrder
<1>3. First \in SUBSET Picks(p, t)
  <2> DEFINE pick == [layers |-> <<>>, warned |-> FALSE]
  <2>1. <<>> \in Seq(DOMAIN GroupOf) /\ DOMAIN <<>> = {}
    BY EmptySeq, LenProperties
  <2>2. pick \in [layers : Seq(DOMAIN GroupOf), warned : BOOLEAN] /\ pick.layers = <<>> /\ ~pick.warned
    BY <2>1
  <2> HIDE DEF pick
  <2>3. DOMAIN pick.layers = {}
    BY <2>1, <2>2
  <2>4. pick \in Picks(p, t)
    BY <2>2, <2>3 DEF Picks
  <2>5. QED
    BY <2>4 DEF pick
<1> HIDE DEF n, First
<1>4. \E F : F = After(F)
  <2> DEFINE S == SUBSET Picks(p, t)
             Step == [x \in S \X (1..n) |-> Review(x[1], LayerOrder[x[2]], p, t)]
  <2>1. \A s \in S : \A i \in 1..n : Step[<<s, i>>] = Review(s, LayerOrder[i], p, t)
    <3> HIDE DEF S
    <3>1. QED
      OBVIOUS
  <2> HIDE DEF Step
  <2>2. ASSUME NEW s \in S, NEW i \in 1..n PROVE Step[<<s, i>>] \in S
    BY <2>1, ReviewPicks
  <2>3. First \in S
    BY <1>3
  <2> HIDE DEF S
  <2>4. PICK f : Computes(f, S, First, n, Step)
    BY <1>2, <2>2, <2>3, Iterates, Zenon
  <2>5. ASSUME NEW i \in 0..n
        PROVE  f[i] = IF i = 0 THEN First ELSE Review(f[i - 1], LayerOrder[i], p, t)
    <3>1. CASE i = 0
      BY <2>4, <3>1 DEF Computes
    <3>2. CASE i # 0
      <4>1. i \in 1..n /\ i - 1 \in 0..n
        BY <1>2, <3>2
      <4>2. f[i - 1] \in S /\ f[i] = Step[<<f[i - 1], i>>]
        BY <2>4, <4>1 DEF Computes
      <4>3. QED
        BY <2>1, <3>2, <4>1, <4>2
    <3>3. QED
      BY <3>1, <3>2
  <2>6. f = After(f)
    <3>1. f = [i \in 0..n |-> f[i]]
      BY <2>4 DEF Computes
    <3>2. QED
      BY <2>5, <3>1
  <2>7. QED
    BY <2>6
<1>5. \A i \in 0..n : after[i] = IF i = 0 THEN First ELSE Review(after[i - 1], LayerOrder[i], p, t)
  <2>1. after = After(after)
    BY <1>4, Zenon
  <2> HIDE DEF after
  <2>2. QED
    BY <2>1, Zenon
<1> HIDE DEF after
<1> DEFINE T == {k \in 0..n : after[k] \in SUBSET Picks(p, t)}
<1>6. 0 \in T
  <2>1. 0 \in 0..n
    BY <1>2
  <2>2. QED
    BY <1>3, <1>5, <2>1
<1>7. ASSUME NEW k \in 0..n, k # n, k \in T
      PROVE  k + 1 \in T
  <2>1. k + 1 \in 0..n /\ k + 1 # 0 /\ (k + 1) - 1 = k
    BY <1>2, <1>7
  <2>2. after[k + 1] = Review(after[k], LayerOrder[k + 1], p, t)
    BY <1>5, <2>1
  <2>3. after[k] \in SUBSET Picks(p, t)
    BY <1>7
  <2>4. after[k + 1] \in SUBSET Picks(p, t)
    BY <2>2, <2>3, ReviewPicks
  <2>5. QED
    BY <2>1, <2>4
<1>8. n \in T
  <2> HIDE DEF T
  <2>1. 0..n \subseteq T
    BY <1>2, <1>6, <1>7, UpTo
  <2>2. QED
    BY <1>2, <2>1
<1>9. QED
  BY <1>1, <1>8

\* The resolver finds an error in layers of which one would be marked, unless
\* it would be marked for the type of inference.
LEMMA MarkedIsRefused ==
    ASSUME \A id \in DOMAIN LayerOf : id \notin LayerOf[id].incompatible,
           NEW s, NEW p, NEW t, s.layers \in Seq(DOMAIN LayerOf)
    PROVE  LayerErrors(s, Layers(s), p) # {} \/ (\E l \in Layers(s) : MatrixBlocks(l, t)) <=>
               \E k \in DOMAIN s.layers : MarkedAt(s.layers, k, p, t)
<1> DEFINE ids == s.layers
           n == Len(ids)
           Excludes(k, j) == ids[j] \in LayerOf[ids[k]].incompatible
           Unmet(k) == Mismatches(LayerOf[ids[k]].requires, p) # {}
           Blocked(k) == MatrixBlocks(LayerOf[ids[k]], t)
<1>1. n \in Nat /\ DOMAIN ids = 1..n /\ \A k \in 1..n : ids[k] \in DOMAIN LayerOf /\ LayerOf[ids[k]].id = ids[k]
  BY LenProperties, LayersAssumption
<1>2. LayerErrors(s, Layers(s), p) # {} <=>
          \E l \in Layers(s) : l.incompatible \intersect Range(ids) # {} \/ Mismatches(l.requires, p) # {}
  <2> DEFINE A == {<<l.id, "conflict">> : l \in {m \in Layers(s) : m.incompatible \intersect Range(ids) # {}}}
             B == UNION {{<<l.id, k>> : k \in Mismatches(l.requires, p)} : l \in Layers(s)}
  <2>1. LayerErrors(s, Layers(s), p) = A \union B
    BY Zenon DEF LayerErrors
  <2>2. A # {} <=> \E l \in Layers(s) : l.incompatible \intersect Range(ids) # {}
    OBVIOUS
  <2>3. B # {} <=> \E l \in Layers(s) : Mismatches(l.requires, p) # {}
    <3> DEFINE Named(l) == {<<l.id, k>> : k \in Mismatches(l.requires, p)}
    <3>1. \A l : Named(l) # {} <=> Mismatches(l.requires, p) # {}
      OBVIOUS
    <3>2. B = UNION {Named(l) : l \in Layers(s)}
      BY Zenon
    <3> HIDE DEF B, Named
    <3>3. \A x : x \in B <=> \E l \in Layers(s) : x \in Named(l)
      BY <3>2
    <3>4. B # {} <=> \E l \in Layers(s) : Named(l) # {}
      BY <3>3, Zenon
    <3>5. QED
      BY <3>1, <3>4, Zenon
  <2> HIDE DEF A, B
  <2>4. QED
    BY <2>1, <2>2, <2>3
<1>3. Layers(s) = {LayerOf[ids[k]] : k \in 1..n}
  BY <1>1 DEF Layers
<1>4. LayerErrors(s, Layers(s), p) # {} <=> \E k \in 1..n : Unmet(k) \/ \E j \in 1..n : Excludes(k, j)
  <2>1. \A x : x \in Range(ids) <=> \E j \in 1..n : x = ids[j]
    BY <1>1 DEF Range
  <2>2. \A k \in 1..n : LayerOf[ids[k]].incompatible \intersect Range(ids) # {} <=> \E j \in 1..n : Excludes(k, j)
    BY <2>1
  <2>3. (\E l \in Layers(s) : l.incompatible \intersect Range(ids) # {} \/ Mismatches(l.requires, p) # {}) <=>
        \E k \in 1..n : LayerOf[ids[k]].incompatible \intersect Range(ids) # {} \/ Unmet(k)
    <3>1. \A l : l \in Layers(s) <=> \E k \in 1..n : l = LayerOf[ids[k]]
      BY <1>3
    <3>2. QED
      BY <3>1, Zenon
  <2> HIDE DEF Excludes, Unmet
  <2>4. QED
    BY <1>2, <2>2, <2>3, Zenon
<1>5. ASSUME NEW k \in 1..n
      PROVE  MarkedAt(ids, k, p, t) <=> Blocked(k) \/ Unmet(k) \/ \E j \in 1..(k - 1) : Excludes(k, j) \/ Excludes(j, k)
  <2> DEFINE before == Before(ids, k)
  <2>1. \A x : x \in before <=> \E j \in 1..(k - 1) : x = ids[j]
    BY DEF Before
  <2>2. LayerOf[ids[k]].id = ids[k]
    BY <1>1
  <2> HIDE DEF before
  <2>3. MarkedAt(ids, k, p, t) <=>
            \/ Blocked(k)
            \/ before \intersect LayerOf[ids[k]].incompatible # {}
            \/ \E id \in before : ids[k] \in LayerOf[id].incompatible
            \/ Unmet(k)
    BY <2>2, Zenon DEF MarkedAt, MarkedIncompatible, before
  <2> HIDE DEF Blocked
  <2>4. QED
    BY <2>1, <2>3
<1>6. \A k \in 1..n : ~Excludes(k, k)
  BY <1>1
<1>7. (\E k \in 1..n : \E j \in 1..n : Excludes(k, j)) <=>
      \E k \in 1..n : \E j \in 1..(k - 1) : Excludes(k, j) \/ Excludes(j, k)
  <2>1. \A k, j \in 1..n : k = j \/ k \in 1..(j - 1) \/ j \in 1..(k - 1)
    BY <1>1
  <2>2. \A k \in 1..n : \A j \in 1..(k - 1) : j \in 1..n
    BY <1>1
  <2> HIDE DEF Excludes
  <2>3. QED
    BY <1>6, <2>1, <2>2
<1>8. (\E l \in Layers(s) : MatrixBlocks(l, t)) <=> \E k \in 1..n : Blocked(k)
  <2>1. \A l : l \in Layers(s) <=> \E k \in 1..n : l = LayerOf[ids[k]]
    BY <1>3
  <2>2. QED
    BY <2>1, Zenon
<1> HIDE DEF Excludes, Unmet, Blocked
<1>9. QED
  BY <1>1, <1>4, <1>5, <1>7, <1>8

\* A picked layer is marked incompatible by the stack wizard exactly when the
\* resolver refuses the stack for its layers or the capability matrix blocks
\* one for the type of inference, for any layers in any groups of which none
\* excludes itself (layer_option_classifier.py, compatibility.py).
THEOREM WizardIsRight ==
    ASSUME \A id \in DOMAIN LayerOf : id \notin LayerOf[id].incompatible
    PROVE  Spec => []WizardForetellsResolver
<1>1. ASSUME NEW r \in Asked, NEW guide \in r.guide
      PROVE  /\ r.recipe.layers \in Seq(DOMAIN LayerOf)
             /\ guide.warned <=>
                    \E k \in DOMAIN r.recipe.layers : MarkedAt(r.recipe.layers, k, r.profile, guide.inference)
  <2> DEFINE blank == [r.recipe EXCEPT !.layers = <<>>]
             t == guide.inference
  <2>1. [recipe |-> r.recipe, warned |-> guide.warned] \in GuidedStacks(blank, r.profile, t)
    BY <1>1, WizardAssumption, Zenon DEF Asked
  <2>2. PICK pick \in Reviewed(r.profile, t) :
            [recipe |-> r.recipe, warned |-> guide.warned] =
            [recipe |-> [blank EXCEPT !.layers = pick.layers], warned |-> pick.warned]
    BY <2>1, Zenon DEF GuidedStacks
  <2>3. r.recipe = [blank EXCEPT !.layers = pick.layers] /\ guide.warned = pick.warned
    BY <2>2, Zenon
  <2>4. r.recipe.layers = pick.layers
    <3>1. "layers" \in DOMAIN r.recipe
      BY AskedRecipes DEF IsRecipe
    <3>2. "layers" \in DOMAIN blank
      BY <3>1, Zenon
    <3> HIDE DEF blank
    <3>3. QED
      BY <2>3, <3>2, Zenon
  <2>5. pick \in Picks(r.profile, t)
    BY <2>2, ReviewedPicks
  <2>6. /\ pick.layers \in Seq(DOMAIN GroupOf)
        /\ pick.warned <=> \E k \in DOMAIN pick.layers : MarkedAt(pick.layers, k, r.profile, t)
    BY <2>5, Zenon DEF Picks
  <2>7. pick.layers \in Seq(DOMAIN LayerOf)
    <3>1. DOMAIN GroupOf \subseteq DOMAIN LayerOf
      BY WizardAssumption, Zenon
    <3>2. QED
      BY <2>6, <3>1, SeqMonotonic
  <2>8. QED
    BY <2>3, <2>4, <2>6, <2>7, Zenon
<1>2. ASSUME PlanInv PROVE WizardForetellsResolver
  <2> SUFFICES ASSUME stage = "evaluate", NEW guide \in request.guide
               PROVE  guide.warned <=>
                          \/ LayerErrors(stack, Layers(stack), request.profile) # {}
                          \/ \E l \in Layers(stack) : MatrixBlocks(l, guide.inference)
    BY Zenon DEF WizardForetellsResolver
  <2>1. request \in Asked /\ stack = Merging(request)
    BY <1>2 DEF PlanInv, Planned
  <2>2. stack.layers = request.recipe.layers
    BY <2>1, Zenon DEF Merging, MergedStack
  <2>3. stack.layers \in Seq(DOMAIN LayerOf)
    BY <1>1, <2>1, <2>2
  <2>4. LayerErrors(stack, Layers(stack), request.profile) # {}
            \/ (\E l \in Layers(stack) : MatrixBlocks(l, guide.inference)) <=>
            \E k \in DOMAIN stack.layers : MarkedAt(stack.layers, k, request.profile, guide.inference)
    BY <2>3, MarkedIsRefused
  <2>5. guide.warned <=>
            \E k \in DOMAIN request.recipe.layers :
                MarkedAt(request.recipe.layers, k, request.profile, guide.inference)
    BY <1>1, <2>1, Zenon
  <2>6. QED
    BY <2>2, <2>4, <2>5, Zenon
<1>3. BuildInv => WizardForetellsResolver
  BY <1>2 DEF BuildInv
<1>4. QED
  BY <1>3, InvHolds, PTL
=============================================================================
