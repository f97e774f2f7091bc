-------------------------- MODULE DataRootProofs --------------------------
(***************************************************************************)
(* The hardware catalog and the overrides file of the data root.           *)
(*                                                                         *)
(* The overrides file, for any number of retries, any failures and any     *)
(* rules to begin with: as long as no writer overlaps another or a reader, *)
(* what a rule says of a package is never forgotten, and the build that    *)
(* follows a fix installs what the fix names.                              *)
(* The invariant follows a fix from the rules a retry has computed, over   *)
(* the file, to the rules its build was rendered with.  Between the two    *)
(* the fixes of others change the file: one of the same family merges into *)
(* the very rule that holds it (FixStays), and all fixes agree on a        *)
(* package (FixesAgree).                                                   *)
(*                                                                         *)
(* The catalog, for any clients, items and number of edits: no accepted    *)
(* edit is lost, and a revision names one content.  NoEditLost looks an    *)
(* item up by its id, so the invariant behind it says that ids are         *)
(* distinct, where the last edit of every id is found, and that an id      *)
(* without an item has not been edited.                                    *)
(***************************************************************************)
EXTENDS FixFile, HardwareCatalog, SequenceTheorems, WellFoundedInduction, TLAPS

IsList(rs) == rs \in Seq(Range(rs))
Steps      == {"building", "failed", "read", "opened", "retrying", "ended"}

FixType ==
    /\ IsList(rules)
    /\ truncated \in BOOLEAN
    /\ step \in [Retries -> Steps]
    /\ failure \in [Retries -> Failures]
    /\ toWrite = [r \in Retries |-> toWrite[r]]
    /\ fixed \in [Retries -> BOOLEAN]
    /\ used = [r \in Retries |-> used[r]]
    /\ damaged \in BOOLEAN
    /\ \A r \in Retries : IsList(toWrite[r]) /\ (used[r] # Unread => IsList(used[r]))

Fix(r)   == Suggested(failure[r])
HintOf(r) == Hint(failure[r].base)

\* The first rule of the family has every version of a fix.
FixIn(rs, fix, hint) ==
    \E i \in Family(rs, hint) :
        /\ \A j \in Family(rs, hint) : i <= j
        /\ \A pkg \in DOMAIN fix : pkg \in DOMAIN rs[i].packages /\ rs[i].packages[pkg] = fix[pkg]

\* Where a retry that applied a fix can be.
FixedSteps ==
    \A r \in Retries :
        /\ used[r] # Unread => step[r] = "ended"
        /\ fixed[r] => step[r] \in {"read", "opened", "retrying", "ended"} /\ DOMAIN Fix(r) # {}
        /\ Writing(r) => fixed[r]

\* One writer at most, and it loses nothing.
OneWriter ==
    /\ \A r, q \in Retries : Writing(r) /\ Writing(q) => r = q
    /\ truncated => \E r \in Retries : step[r] = "opened"
    /\ known \subseteq Pairs(rules)
    /\ \A r \in Retries : Writing(r) => known \subseteq Pairs(toWrite[r])

\* Where the fix of a retry is.
FixesKept ==
    \A r \in Retries : fixed[r] =>
        /\ step[r] = "retrying" => FixIn(rules, Fix(r), HintOf(r))
        /\ \A q \in Retries : Writing(q) /\ (q = r \/ step[r] = "retrying") =>
               FixIn(toWrite[q], Fix(r), HintOf(r))
        /\ used[r] # Unread => FixIn(used[r], Fix(r), HintOf(r))

FixInv == FixType /\ FixedSteps /\ (~damaged => OneWriter /\ FixesKept)

-----------------------------------------------------------------------------
\* A set of indices has a first one.
LEMMA Least ==
    ASSUME NEW T \in SUBSET Nat, T # {}
    PROVE  /\ FirstOf(T) \in T
           /\ \A k \in T : FirstOf(T) <= k
<1> DEFINE R == OpToRel(<, Nat)
<1>1. \A x, y \in Nat : <<x, y>> \in R <=> x < y
  BY DEF OpToRel
<1>2. IsWellFoundedOn(R, Nat)
  BY NatLessThanWellFounded
<1> HIDE DEF R
<1>3. PICK m \in T : \A y \in T : ~(<<y, m>> \in R)
  BY <1>2, WFMin
<1>4. \A k \in T : k \in Nat /\ m \in Nat /\ ~(k < m)
  BY <1>1, <1>3
<1>5. \A k \in T : m <= k
  BY <1>4
<1> QED
  BY <1>5, Zenon DEF FirstOf

\* The places of a list are numbers, and a change of one element or one more
\* leave it a list.
LEMMA AList == ASSUME NEW S, NEW s \in Seq(S) PROVE IsList(s)
<1>1. Len(s) \in Nat /\ s \in [1..Len(s) -> S]
  BY LenProperties
<1>2. s \in [1..Len(s) -> Range(s)]
  BY <1>1 DEF Range
<1>3. s \in Seq(Range(s))
  BY <1>1, <1>2, SeqDef
<1> QED
  BY <1>3 DEF IsList

\* The indices of a list, and what it is a sequence of.
LEMMA Places ==
    ASSUME NEW rs, IsList(rs)
    PROVE  /\ Len(rs) \in Nat /\ DOMAIN rs = 1..Len(rs) /\ DOMAIN rs \in SUBSET Nat
           /\ \A S : Range(rs) \subseteq S => rs \in Seq(S) /\ rs \in [1..Len(rs) -> S]
<1>1. rs \in Seq(Range(rs))
  BY DEF IsList
<1>2. Len(rs) \in Nat /\ DOMAIN rs = 1..Len(rs) /\ rs \in [1..Len(rs) -> Range(rs)]
  BY <1>1, LenProperties
<1>3. DOMAIN rs \in SUBSET Nat
  BY <1>2
<1>4. ASSUME NEW S, Range(rs) \subseteq S PROVE rs \in Seq(S) /\ rs \in [1..Len(rs) -> S]
  <2>1. rs \in [1..Len(rs) -> S]
    BY <1>2, <1>4
  <2> QED
    BY <1>2, <2>1, SeqDef
<1> QED
  BY <1>2, <1>3, <1>4

\* What is needed of indices, kept apart from the lists: one more,
LEMMA OnePlace ==
    /\ \A m \in Nat : m + 1 \in Nat \ {0} /\ 1..(m + 1) = 1..m \union {m + 1}
    /\ \A m \in Nat \ {0} : m <= m
  OBVIOUS

\* one beyond,
LEMMA LaterPlace ==
    ASSUME NEW m \in Nat, NEW i \in 1..m, NEW n \in Nat, NEW j \in 1..n, j \notin 1..m
    PROVE  i <= j
  OBVIOUS

\* and the same.
LEMMA SamePlace == ASSUME NEW i \in Nat, NEW j \in Nat, i <= j, j <= i PROVE i = j
  OBVIOUS

\* A rule is appended.
LEMMA OneMore ==
    ASSUME NEW rs, IsList(rs), NEW x
    PROVE  /\ IsList(Append(rs, x))
           /\ DOMAIN Append(rs, x) = 1..(Len(rs) + 1)
           /\ \A i \in DOMAIN rs : Append(rs, x)[i] = rs[i]
           /\ Append(rs, x)[Len(rs) + 1] = x
<1> DEFINE S == Range(rs) \union {x}
<1>1. rs \in Seq(S) /\ x \in S /\ DOMAIN rs = 1..Len(rs)
  BY Places
<1> HIDE DEF S
<1>2. /\ Append(rs, x) \in Seq(S) /\ Len(Append(rs, x)) = Len(rs) + 1
      /\ \A i \in 1..Len(rs) : Append(rs, x)[i] = rs[i]
      /\ Append(rs, x)[Len(rs) + 1] = x
  BY <1>1, AppendProperties
<1>3. DOMAIN Append(rs, x) = 1..(Len(rs) + 1)
  BY <1>2, LenProperties
<1> QED
  BY <1>1, <1>2, <1>3, AList

\* A rule is replaced.
LEMMA OneOther ==
    ASSUME NEW rs, IsList(rs), NEW i \in DOMAIN rs, NEW x, NEW new, new = [rs EXCEPT ![i] = x]
    PROVE  /\ IsList(new) /\ DOMAIN new = DOMAIN rs
           /\ new[i] = x /\ \A j \in DOMAIN rs : j # i => new[j] = rs[j]
<1> DEFINE S == Range(rs) \union {x}
<1>1. rs \in [1..Len(rs) -> S] /\ x \in S /\ DOMAIN rs = 1..Len(rs) /\ Len(rs) \in Nat
  BY Places
<1> HIDE DEF S
<1>2. new \in [1..Len(rs) -> S] /\ new[i] = x /\ \A j \in DOMAIN rs : j # i => new[j] = rs[j]
  BY <1>1
<1>3. new \in Seq(S)
  BY <1>1, <1>2, SeqDef
<1> QED
  BY <1>1, <1>2, <1>3, AList

\* What applying a fix does to the rules: each stays where it is, about the
\* same text, and says of each package what it did or what the fix does.
Adds(new, rs, fix) ==
    /\ DOMAIN rs \subseteq DOMAIN new
    /\ \A i \in DOMAIN rs :
          /\ new[i].contains = rs[i].contains
          /\ DOMAIN rs[i].packages \subseteq DOMAIN new[i].packages
          /\ \A pkg \in DOMAIN rs[i].packages :
                \/ new[i].packages[pkg] = rs[i].packages[pkg]
                \/ pkg \in DOMAIN fix /\ new[i].packages[pkg] = fix[pkg]

\* A fix goes into the list, which forgets nothing for it.
LEMMA FixAdds ==
    ASSUME NEW rs, NEW fix, NEW hint, IsList(rs), hint # "",
           NEW new, new = WithFix(rs, fix, hint)
    PROVE  IsList(new) /\ Adds(new, rs, fix) /\ FixIn(new, fix, hint)
<1>1. Family(rs, hint) \in SUBSET Nat /\ Family(rs, hint) \subseteq DOMAIN rs
  BY Places DEF Family
<1>2. CASE Family(rs, hint) = {}
  <2> DEFINE r == NewRule(fix, hint)
  <2> DEFINE n == Len(rs) + 1
  <2>1. new = Append(rs, r)
    BY <1>2 DEF WithFix
  <2>2. r.contains = hint /\ r.packages = fix
    BY DEF NewRule
  <2> HIDE DEF r
  <2>3. /\ IsList(new) /\ DOMAIN new = 1..n /\ n \in Nat \ {0}
        /\ \A i \in DOMAIN rs : new[i] = rs[i]
        /\ new[n] = r /\ DOMAIN rs = 1..Len(rs)
        /\ DOMAIN new = DOMAIN rs \union {n}
    <3>1. Len(rs) \in Nat /\ DOMAIN rs = 1..Len(rs)
      BY Places
    <3>2. /\ IsList(Append(rs, r)) /\ DOMAIN Append(rs, r) = 1..n
          /\ \A i \in DOMAIN rs : Append(rs, r)[i] = rs[i]
          /\ Append(rs, r)[n] = r
      BY OneMore, Zenon
    <3>3. n \in Nat \ {0} /\ 1..n = 1..Len(rs) \union {n}
      BY <3>1, OnePlace
    <3> HIDE DEF n
    <3> QED
      BY <2>1, <3>1, <3>2, <3>3, Zenon
  <2> HIDE DEF n
  <2>4. FixIn(new, fix, hint)
    <3>1. \A i \in Family(new, hint) : i = n
      BY <1>2, <2>3 DEF Family
    <3>2. n \in Family(new, hint)
      BY <2>2, <2>3 DEF Family, SameFamily, PartOf
    <3>3. \A j \in Family(new, hint) : n <= j
      BY <2>3, <3>1, OnePlace, Zenon
    <3>4. \A pkg \in DOMAIN fix : pkg \in DOMAIN new[n].packages /\ new[n].packages[pkg] = fix[pkg]
      BY <2>2, <2>3
    <3> QED
      BY <3>2, <3>3, <3>4, Zenon DEF FixIn
  <2>5. Adds(new, rs, fix)
    BY <2>3 DEF Adds
  <2> QED
    BY <2>3, <2>4, <2>5
<1>3. CASE Family(rs, hint) # {}
  <2> DEFINE first == FirstOf(Family(rs, hint))
  <2> DEFINE r == MergedInto(rs[first], fix)
  <2>1. new = [rs EXCEPT ![first] = r]
    BY <1>3 DEF WithFix
  <2>2. first \in Family(rs, hint) /\ \A j \in Family(rs, hint) : first <= j
    BY <1>1, <1>3, Least
  <2>3. /\ r.contains = rs[first].contains
        /\ DOMAIN r.packages = DOMAIN rs[first].packages \union DOMAIN fix
        /\ \A pkg \in DOMAIN fix : r.packages[pkg] = fix[pkg]
        /\ \A pkg \in DOMAIN rs[first].packages :
              r.packages[pkg] = rs[first].packages[pkg] \/ (pkg \in DOMAIN fix /\ r.packages[pkg] = fix[pkg])
    BY DEF MergedInto
  <2> HIDE DEF first, r
  <2>4. /\ IsList(new) /\ DOMAIN new = DOMAIN rs
        /\ new[first] = r /\ \A i \in DOMAIN rs : i # first => new[i] = rs[i]
    BY <1>1, <2>1, <2>2, OneOther
  <2>5. Family(new, hint) = Family(rs, hint)
    BY <2>2, <2>3, <2>4 DEF Family, SameFamily
  <2>6. FixIn(new, fix, hint)
    BY <2>2, <2>3, <2>4, <2>5 DEF FixIn
  <2>7. Adds(new, rs, fix)
    BY <2>3, <2>4 DEF Adds
  <2> QED
    BY <2>4, <2>6, <2>7
<1> QED
  BY <1>2, <1>3

\* So nothing a rule says of a package is lost, ...
LEMMA PairsStay ==
    ASSUME NEW rs, NEW fix, NEW hint, IsList(rs), hint # "",
           NEW new, new = WithFix(rs, fix, hint)
    PROVE  Pairs(rs) \subseteq Pairs(new)
<1>1. Adds(new, rs, fix)
  BY FixAdds
<1>2. \A i \in DOMAIN rs :
          {rs[i].contains} \X DOMAIN rs[i].packages \subseteq {new[i].contains} \X DOMAIN new[i].packages
  BY <1>1 DEF Adds
<1>3. DOMAIN rs \subseteq DOMAIN new
  BY <1>1 DEF Adds
<1> SUFFICES ASSUME NEW c \in Pairs(rs) PROVE c \in Pairs(new)
  OBVIOUS
<1>4. PICK i \in DOMAIN rs : c \in {rs[i].contains} \X DOMAIN rs[i].packages
  BY Zenon DEF Pairs
<1>5. i \in DOMAIN new /\ c \in {new[i].contains} \X DOMAIN new[i].packages
  BY <1>2, <1>3, <1>4
<1> QED
  BY <1>5, Zenon DEF Pairs

\* ... and a fix that is in the file survives the ones that agree with it.
LEMMA FixStays ==
    ASSUME NEW rs, NEW fix, NEW hint, IsList(rs), hint # "",
           NEW new, new = WithFix(rs, fix, hint),
           NEW other, NEW text, FixIn(rs, other, text),
           \A pkg \in DOMAIN other \intersect DOMAIN fix : other[pkg] = fix[pkg]
    PROVE  FixIn(new, other, text)
<1>1. Adds(new, rs, fix)
  BY FixAdds
<1>2. IsList(new)
  BY FixAdds
<1>3. PICK i \in Family(rs, text) :
          /\ \A j \in Family(rs, text) : i <= j
          /\ \A pkg \in DOMAIN other :
                pkg \in DOMAIN rs[i].packages /\ rs[i].packages[pkg] = other[pkg]
  BY DEF FixIn
<1>4. i \in DOMAIN rs /\ i \in Family(new, text)
  BY <1>1, <1>3 DEF Adds, Family, SameFamily
<1>5. \A j \in Family(new, text) : i <= j
  <2>1. \A j \in Family(new, text) : j \in DOMAIN new
    BY DEF Family
  <2>2. \A j \in DOMAIN rs : j \in Family(new, text) => j \in Family(rs, text)
    BY <1>1 DEF Adds, Family, SameFamily
  <2>3. /\ Len(rs) \in Nat /\ DOMAIN rs = 1..Len(rs)
        /\ Len(new) \in Nat /\ DOMAIN new = 1..Len(new)
    BY <1>2, Places
  <2>4. \A j \in DOMAIN new : j \notin DOMAIN rs => i <= j
    BY <1>4, <2>3, LaterPlace
  <2> QED
    BY <1>3, <2>1, <2>2, <2>4, Zenon
<1>6. \A pkg \in DOMAIN other :
          pkg \in DOMAIN new[i].packages /\ new[i].packages[pkg] = other[pkg]
  BY <1>1, <1>3, <1>4 DEF Adds
<1> QED
  BY <1>4, <1>5, <1>6, Zenon DEF FixIn

\* A build that is rendered with the rules that have a fix installs it, when
\* the rules for its base image are those of the family.
LEMMA FixDecides ==
    ASSUME NEW rs, NEW fix, NEW hint, NEW base, NEW version, IsList(rs), FixIn(rs, fix, hint),
           \A rule \in Range(rs) : SameFamily(rule, hint) <=> PartOf(rule.contains, base),
           NEW pkg \in DOMAIN fix
    PROVE  OverriddenVersion(pkg, version, base, rs) = fix[pkg]
<1> DEFINE naming == {i \in RulesFor(base, rs) : pkg \in DOMAIN rs[i].packages}
<1>1. PICK i \in Family(rs, hint) :
          /\ \A j \in Family(rs, hint) : i <= j
          /\ pkg \in DOMAIN rs[i].packages /\ rs[i].packages[pkg] = fix[pkg]
  BY DEF FixIn
<1>2. \A j \in DOMAIN rs : rs[j] \in Range(rs)
  BY DEF Range
<1>3. naming \subseteq Family(rs, hint) /\ i \in naming
  BY <1>1, <1>2 DEF RulesFor, Family, SameFamily
<1>4. naming \in SUBSET Nat /\ naming # {}
  <2>1. naming \subseteq DOMAIN rs /\ DOMAIN rs \in SUBSET Nat
    BY Places DEF RulesFor
  <2> QED
    BY <1>3, <2>1
<1>5. FirstOf(naming) \in naming /\ FirstOf(naming) <= i
  BY <1>3, <1>4, Least
<1>6. FirstOf(naming) = i
  <2>1. \A k \in naming : k \in Nat /\ i \in Nat /\ i <= k
    BY <1>1, <1>3, <1>4
  <2> HIDE DEF naming
  <2> QED
    BY <1>5, <2>1, SamePlace
<1> QED
  BY <1>1, <1>4, <1>6 DEF OverriddenVersion

\* Fixes agree on the version of a package.
LEMMA FixesAgree ==
    \A f : \A pkg \in DOMAIN Suggested(f) : Suggested(f)[pkg] = KnownFixes[pkg]
  BY DEF Suggested

\* What a fix is filed under is never the empty text.
LEMMA HintIsText == \A base : Hint(base) # ""
  BY FixAssumption DEF Hint

\* The file that does not exist has no rule of any fix.
LEMMA NoRulesFixNothing ==
    ASSUME NEW fix, NEW hint, DOMAIN fix # {}
    PROVE  Pairs(NoRules) = {} /\ ~FixIn(NoRules, fix, hint) /\ ~FixIn(<<>>, fix, hint)
<1>1. \A i \in DOMAIN NoRules : DOMAIN NoRules[i].packages = {}
  BY FixAssumption
<1>2. DOMAIN <<>> = {}
  OBVIOUS
<1>3. ~FixIn(NoRules, fix, hint)
  BY <1>1 DEF FixIn, Family
<1>4. ~FixIn(<<>>, fix, hint)
  BY <1>2 DEF FixIn, Family
<1>5. Pairs(NoRules) = {}
  BY <1>1 DEF Pairs
<1> QED
  BY <1>3, <1>4, <1>5

-----------------------------------------------------------------------------
\* It holds at first ...
LEMMA InitFixInv == FixInit => FixInv
<1> SUFFICES ASSUME FixInit PROVE FixInv
  OBVIOUS
<1>1. IsList(rules) /\ IsList(<<>>)
  <2>1. IsList(rules)
    BY FixAssumption DEF FixInit, IsList
  <2>2. <<>> \in Seq({})
    OBVIOUS
  <2> QED
    BY <2>1, <2>2, AList
<1>2. FixType
  <2>1. \A r \in Retries : toWrite[r] = <<>> /\ used[r] = Unread
    BY DEF FixInit
  <2>2. \A r \in Retries : IsList(toWrite[r]) /\ (used[r] # Unread => IsList(used[r]))
    BY <1>1, <2>1
  <2>3. toWrite = [r \in Retries |-> toWrite[r]] /\ used = [r \in Retries |-> used[r]]
    BY DEF FixInit
  <2> QED
    BY <1>1, <2>2, <2>3 DEF FixInit, FixType, Steps
<1>3. \A r \in Retries : step[r] = "building" /\ ~fixed[r] /\ used[r] = Unread /\ ~Writing(r)
  BY DEF FixInit, Writing
<1>4. known \subseteq Pairs(rules) /\ ~truncated
  BY DEF FixInit
<1> QED
  BY <1>2, <1>3, <1>4 DEF FixInv, FixedSteps, OneWriter, FixesKept

\* A retry goes on and leaves the rules alone.
LEMMA MovedKeeps ==
    ASSUME FixInv, NEW r \in Retries, NEW to \in Steps, Goes(r, to), step[r] # "ended",
           UNCHANGED <<rules, failure, toWrite, fixed, used, known>>,
           truncated' \in BOOLEAN, damaged' \in BOOLEAN,
           fixed[r] => to \in {"opened", "ended"},
           to \in {"read", "opened"} => Writing(r),
           ~damaged' => ~damaged /\ (truncated' => \E q \in Retries : step'[q] = "opened")
    PROVE  FixInv'
<1>1. FixType /\ FixedSteps
  BY DEF FixInv
<1>2. /\ step' \in [Retries -> Steps] /\ step'[r] = to
      /\ \A q \in Retries : q # r => step'[q] = step[q]
  BY <1>1 DEF FixType, Goes
<1>3. FixType'
  BY <1>1, <1>2 DEF FixType
<1>4. \A q \in Retries : Writing(q)' => Writing(q)
  BY <1>2 DEF Writing
<1>5. FixedSteps'
  BY <1>1, <1>2, <1>4 DEF FixedSteps, Fix
<1>6. ASSUME ~damaged' PROVE OneWriter' /\ FixesKept'
  <2>1. OneWriter /\ FixesKept
    BY <1>6 DEF FixInv
  <2>2. OneWriter'
    BY <1>4, <1>6, <2>1 DEF OneWriter
  <2>3. \A q \in Retries : fixed[q] /\ step'[q] = "retrying" => step[q] = "retrying"
    BY <1>2
  <2>4. \A q \in Retries : Fix(q)' = Fix(q) /\ HintOf(q)' = HintOf(q)
    BY DEF Fix, HintOf
  <2>5. FixesKept'
    BY <1>4, <2>1, <2>3, <2>4 DEF FixesKept
  <2> QED
    BY <2>2, <2>5
<1> QED
  BY <1>3, <1>5, <1>6 DEF FixInv

\* Steps that write no rules keep it.
LEMMA OthersKeep ==
    ASSUME FixInv, NEW r \in Retries,
           BuildFailed(r) \/ RetryPlain(r) \/ NoRetry(r) \/ OpenRules(r) \/ Die(r)
    PROVE  FixInv'
<1>1. FixType /\ FixedSteps
  BY DEF FixInv
<1>2. step \in [Retries -> Steps] /\ truncated \in BOOLEAN /\ damaged \in BOOLEAN
  BY <1>1 DEF FixType
<1>3. ~damaged /\ truncated => \E q \in Retries : step[q] = "opened"
  BY DEF FixInv, OneWriter
<1>4. fixed[r] => step[r] \in {"read", "opened", "retrying", "ended"}
  BY <1>1 DEF FixedSteps
<1>5. CASE BuildFailed(r)
  BY <1>2, <1>3, <1>4, <1>5, MovedKeeps DEF BuildFailed, Goes, Steps
<1>6. CASE RetryPlain(r)
  BY <1>2, <1>3, <1>4, <1>6, MovedKeeps DEF RetryPlain, Goes, Steps
<1>7. CASE NoRetry(r)
  BY <1>2, <1>3, <1>4, <1>7, MovedKeeps DEF NoRetry, Goes, Steps
<1>8. CASE OpenRules(r)
  BY <1>2, <1>8, MovedKeeps DEF OpenRules, Goes, Steps, Writing
<1>9. CASE Die(r)
  BY <1>2, <1>3, <1>9, MovedKeeps DEF Die, Goes, Steps
<1> QED
  BY <1>5, <1>6, <1>7, <1>8, <1>9

\* What a retry reads, nobody writing, has every fix that is in the file.
LEMMA ReadHas ==
    ASSUME FixInv, ~damaged, ~truncated
    PROVE  /\ IsList(RulesRead)
           /\ known \subseteq Pairs(RulesRead)
           /\ \A fix, hint : DOMAIN fix # {} /\ FixIn(rules, fix, hint) => FixIn(RulesRead, fix, hint)
<1>1. IsList(rules) /\ known \subseteq Pairs(rules)
  BY DEF FixInv, FixType, OneWriter
<1>2. CASE rules = NoRules
  <2>1. RulesRead = <<>>
    BY <1>2 DEF RulesRead
  <2>2. <<>> \in Seq({})
    OBVIOUS
  <2>3. IsList(<<>>)
    BY <2>2, AList
  <2>4. known = {}
    <3>1. DOMAIN [x \in {0} |-> 0] # {}
      OBVIOUS
    <3>2. Pairs(NoRules) = {}
      BY <3>1, NoRulesFixNothing
    <3> QED
      BY <1>1, <1>2, <3>2
  <2> QED
    BY <1>2, <2>1, <2>3, <2>4, NoRulesFixNothing
<1>3. CASE rules # NoRules
  BY <1>1, <1>3 DEF RulesRead
<1> QED
  BY <1>2, <1>3

\* The rules with the fix are computed: they have it and all there was.
LEMMA ReadRulesKeeps ==
    ASSUME FixInv, NEW r \in Retries, ReadRules(r)
    PROVE  FixInv'
<1> DEFINE new == WithFix(RulesRead, Fix(r), HintOf(r))
<1>1. /\ FixType /\ FixedSteps /\ step[r] = "failed" /\ DOMAIN Fix(r) # {}
      /\ toWrite' = [toWrite EXCEPT ![r] = new]
      /\ damaged' = (damaged \/ \E q \in Retries \ {r} : Writing(q))
      /\ fixed' = [fixed EXCEPT ![r] = TRUE]
      /\ UNCHANGED <<rules, truncated, failure, used, known>>
  BY DEF FixInv, ReadRules, Fix, HintOf
<1>2. IsList(RulesRead)
  <2>1. <<>> \in Seq({})
    OBVIOUS
  <2>2. IsList(<<>>)
    BY <2>1, AList
  <2> QED
    BY <1>1, <2>2 DEF RulesRead, FixType
<1>3. HintOf(r) # ""
  BY HintIsText DEF HintOf
<1>4. IsList(new) /\ FixIn(new, Fix(r), HintOf(r)) /\ Pairs(RulesRead) \subseteq Pairs(new)
  BY <1>2, <1>3, FixAdds, PairsStay
<1>12. new = WithFix(RulesRead, Fix(r), HintOf(r))
  OBVIOUS
<1> HIDE DEF new
<1>5. /\ toWrite'[r] = new /\ \A q \in Retries : q # r => toWrite'[q] = toWrite[q]
      /\ toWrite' = [q \in Retries |-> toWrite'[q]]
      /\ fixed' \in [Retries -> BOOLEAN] /\ fixed'[r] /\ \A q \in Retries : q # r => fixed'[q] = fixed[q]
  BY <1>1 DEF FixType
<1>6. PICK to \in {"read", "retrying"} :
          step' = [step EXCEPT ![r] = to] /\ (to = "retrying" => new = RulesRead)
  BY <1>5 DEF ReadRules, Goes
<1>7. /\ step' \in [Retries -> Steps] /\ step'[r] = to
      /\ \A q \in Retries : q # r => step'[q] = step[q]
  BY <1>1, <1>6 DEF FixType, Steps
<1>8. FixType'
  <2>1. damaged' \in BOOLEAN
    BY <1>1, Zenon DEF FixType
  <2> QED
    BY <1>1, <1>4, <1>5, <1>7, <2>1 DEF FixType
<1>9. \A q \in Retries : Fix(q)' = Fix(q) /\ HintOf(q)' = HintOf(q)
  BY <1>1 DEF Fix, HintOf
<1>10. FixedSteps'
  BY <1>1, <1>5, <1>7, <1>9 DEF FixedSteps, Writing
<1>11. ASSUME ~damaged' PROVE OneWriter' /\ FixesKept'
  <2>1. ~damaged /\ OneWriter /\ FixesKept /\ \A q \in Retries \ {r} : ~Writing(q)
    BY <1>1, <1>11 DEF FixInv
  <2>2. \A q \in Retries : q # r => ~Writing(q)'
    BY <1>7, <2>1 DEF Writing
  <2>3. ~truncated
    BY <1>1, <2>1 DEF OneWriter, Writing
  <2>4. /\ known \subseteq Pairs(RulesRead)
        /\ \A fix, hint : DOMAIN fix # {} /\ FixIn(rules, fix, hint) => FixIn(RulesRead, fix, hint)
    BY <2>1, <2>3, ReadHas
  <2>5. OneWriter'
    <3>1. known \subseteq Pairs(new)
      BY <1>4, <2>4
    <3> QED
      BY <1>1, <1>5, <2>1, <2>2, <2>3, <3>1 DEF OneWriter
  <2>6. ASSUME NEW q \in Retries, fixed'[q]
        PROVE  /\ step'[q] = "retrying" => FixIn(rules', Fix(q), HintOf(q))
               /\ \A p \in Retries : Writing(p)' /\ (p = q \/ step'[q] = "retrying") =>
                      FixIn(toWrite'[p], Fix(q), HintOf(q))
               /\ used'[q] # Unread => FixIn(used'[q], Fix(q), HintOf(q))
    <3>1. CASE q = r
      <4>1. used'[r] = Unread
        BY <1>1 DEF FixedSteps
      <4>2. FixIn(toWrite'[r], Fix(r), HintOf(r))
        BY <1>4, <1>5
      <4>3. to = "retrying" => FixIn(rules, Fix(r), HintOf(r))
        <5> SUFFICES ASSUME to = "retrying" PROVE FixIn(rules, Fix(r), HintOf(r))
          OBVIOUS
        <5>1. FixIn(RulesRead, Fix(r), HintOf(r))
          BY <1>4, <1>6
        <5>2. RulesRead # <<>>
          BY <1>1, <5>1, NoRulesFixNothing
        <5> QED
          BY <5>1, <5>2 DEF RulesRead
      <4> QED
        BY <1>1, <1>7, <2>2, <3>1, <4>1, <4>2, <4>3
    <3>2. CASE q # r
      <4>1. fixed[q] /\ step'[q] = step[q] /\ DOMAIN Fix(q) # {}
        BY <1>1, <1>5, <1>7, <2>6, <3>2 DEF FixedSteps
      <4>2. /\ step[q] = "retrying" => FixIn(rules, Fix(q), HintOf(q))
            /\ used[q] # Unread => FixIn(used[q], Fix(q), HintOf(q))
        BY <2>1, <4>1 DEF FixesKept
      <4>3. step[q] = "retrying" => FixIn(new, Fix(q), HintOf(q))
        <5> SUFFICES ASSUME step[q] = "retrying" PROVE FixIn(new, Fix(q), HintOf(q))
          OBVIOUS
        <5>1. FixIn(RulesRead, Fix(q), HintOf(q))
          BY <2>4, <4>1, <4>2
        <5>2. \A pkg \in DOMAIN Fix(q) \intersect DOMAIN Fix(r) : Fix(q)[pkg] = Fix(r)[pkg]
          BY FixesAgree DEF Fix
        <5> DEFINE f == Fix(r)
        <5> DEFINE g == Fix(q)
        <5>3. /\ new = WithFix(RulesRead, f, HintOf(r)) /\ IsList(RulesRead) /\ HintOf(r) # ""
              /\ FixIn(RulesRead, g, HintOf(q))
              /\ \A pkg \in DOMAIN g \intersect DOMAIN f : g[pkg] = f[pkg]
          BY <1>2, <1>3, <1>12, <5>1, <5>2
        <5> HIDE DEF f, g
        <5>4. FixIn(new, g, HintOf(q))
          BY <5>3, FixStays
        <5> QED
          BY <5>4 DEF g
      <4> QED
        BY <1>1, <1>5, <2>2, <3>2, <4>1, <4>2, <4>3
    <3> QED
      BY <3>1, <3>2
  <2>7. FixesKept'
    BY <1>9, <2>6 DEF FixesKept
  <2> QED
    BY <2>5, <2>7
<1> QED
  BY <1>8, <1>10, <1>11 DEF FixInv

\* The rules are written: every fix that is in the file is in them.
LEMMA WriteRulesKeeps ==
    ASSUME FixInv, NEW r \in Retries, WriteRules(r)
    PROVE  FixInv'
<1>1. /\ FixType /\ FixedSteps /\ step[r] = "opened" /\ Writing(r)
      /\ rules' = toWrite[r] /\ truncated' = FALSE /\ known' = known \union Pairs(toWrite[r])
      /\ UNCHANGED <<failure, toWrite, fixed, used, damaged>>
  BY DEF FixInv, WriteRules, Writing
<1>2. /\ step' \in [Retries -> Steps] /\ step'[r] = "retrying"
      /\ \A q \in Retries : q # r => step'[q] = step[q]
  BY <1>1 DEF WriteRules, Goes, FixType, Steps
<1>3. FixType'
  BY <1>1, <1>2 DEF FixType
<1>4. \A q \in Retries : Writing(q)' => Writing(q) /\ q # r
  BY <1>2 DEF Writing
<1>5. \A q \in Retries : Fix(q)' = Fix(q) /\ HintOf(q)' = HintOf(q)
  BY <1>1 DEF Fix, HintOf
<1>6. FixedSteps'
  BY <1>1, <1>2, <1>4, <1>5 DEF FixedSteps
<1>7. ASSUME ~damaged' PROVE OneWriter' /\ FixesKept'
  <2>1. OneWriter /\ FixesKept
    BY <1>1, <1>7 DEF FixInv
  <2>2. \A q \in Retries : ~Writing(q)'
    BY <1>1, <1>4, <2>1 DEF OneWriter
  <2>3. OneWriter'
    BY <1>1, <2>1, <2>2 DEF OneWriter
  <2>4. \A q \in Retries : fixed[q] /\ step'[q] = "retrying" => FixIn(toWrite[r], Fix(q), HintOf(q))
    BY <1>1, <1>2, <2>1 DEF FixesKept
  <2>5. FixesKept'
    BY <1>1, <1>5, <2>1, <2>2, <2>4 DEF FixesKept
  <2> QED
    BY <2>3, <2>5
<1> QED
  BY <1>3, <1>6, <1>7 DEF FixInv

\* A build is rendered with the fix, which is in the file.
LEMMA RenderKeeps ==
    ASSUME FixInv, NEW r \in Retries, RenderWithRules(r)
    PROVE  FixInv'
<1>1. /\ FixType /\ FixedSteps /\ step[r] = "retrying"
      /\ used' = [used EXCEPT ![r] = RulesRead]
      /\ damaged' = (damaged \/ truncated)
      /\ UNCHANGED <<rules, truncated, failure, toWrite, fixed, known>>
  BY DEF FixInv, RenderWithRules
<1>2. /\ step' \in [Retries -> Steps] /\ step'[r] = "ended"
      /\ \A q \in Retries : q # r => step'[q] = step[q]
  BY <1>1 DEF RenderWithRules, Goes, FixType, Steps
<1>3. /\ used'[r] = RulesRead /\ \A q \in Retries : q # r => used'[q] = used[q]
      /\ used' = [q \in Retries |-> used'[q]]
  BY <1>1 DEF FixType
<1>4. FixType'
  <2>1. <<>> \in Seq({})
    OBVIOUS
  <2>2. IsList(<<>>)
    BY <2>1, AList
  <2>3. IsList(RulesRead)
    BY <1>1, <2>2 DEF RulesRead, FixType
  <2>4. damaged' \in BOOLEAN
    BY <1>1, Zenon DEF FixType
  <2> QED
    BY <1>1, <1>2, <1>3, <2>3, <2>4 DEF FixType
<1>5. \A q \in Retries : Writing(q)' <=> Writing(q)
  BY <1>1, <1>2 DEF Writing
<1>6. \A q \in Retries : Fix(q)' = Fix(q) /\ HintOf(q)' = HintOf(q)
  BY <1>1 DEF Fix, HintOf
<1>7. FixedSteps'
  BY <1>1, <1>2, <1>3, <1>5, <1>6 DEF FixedSteps
<1>8. ASSUME ~damaged' PROVE OneWriter' /\ FixesKept'
  <2>1. ~damaged /\ ~truncated
    BY <1>1, <1>8
  <2>2. OneWriter /\ FixesKept
    BY <2>1 DEF FixInv
  <2>3. OneWriter'
    BY <1>1, <1>2, <1>5, <2>1, <2>2 DEF OneWriter
  <2>4. fixed[r] => FixIn(RulesRead, Fix(r), HintOf(r))
    BY <1>1, <2>1, <2>2, ReadHas DEF FixesKept, FixedSteps
  <2>5. \A q \in Retries : step'[q] = "retrying" => step[q] = "retrying" /\ q # r
    BY <1>2
  <2>6. FixesKept'
    BY <1>1, <1>3, <1>5, <1>6, <2>2, <2>4, <2>5 DEF FixesKept
  <2> QED
    BY <2>3, <2>6
<1> QED
  BY <1>4, <1>7, <1>8 DEF FixInv

\* ... and every step keeps it ...
LEMMA NextFixInv == FixInv /\ [FixNext]_fixVars => FixInv'
<1> SUFFICES ASSUME FixInv, [FixNext]_fixVars PROVE FixInv'
  OBVIOUS
<1>1. ASSUME NEW r \in Retries,
             \/ BuildFailed(r) \/ RetryPlain(r) \/ NoRetry(r)
             \/ ReadRules(r) \/ OpenRules(r) \/ WriteRules(r)
             \/ RenderWithRules(r) \/ Die(r)
      PROVE  FixInv'
  BY <1>1, OthersKeep, ReadRulesKeeps, WriteRulesKeeps, RenderKeeps
<1>2. CASE UNCHANGED fixVars
  BY <1>2 DEF fixVars, FixInv, FixType, FixedSteps, OneWriter, FixesKept, Writing, Fix, HintOf
<1> QED
  BY <1>1, <1>2 DEF FixNext

\* ... so it holds at any time.
LEMMA FixInvHolds == FixInit /\ [][FixNext]_fixVars => []FixInv
  BY InitFixInv, NextFixInv, PTL

-----------------------------------------------------------------------------
\* While no writer overlaps another or is cut short, the file forgets no
\* package that a rule of it ever named.
THEOREM FileForgetsNothing == FixInit /\ [][FixNext]_fixVars => []FixesAccumulate
<1>1. ASSUME FixInv PROVE FixesAccumulate
  <2> SUFFICES ASSUME ~damaged
               PROVE  known \subseteq IF rules = NoRules THEN {} ELSE Pairs(rules)
    BY DEF FixesAccumulate
  <2>1. known \subseteq Pairs(rules)
    BY <1>1 DEF FixInv, OneWriter
  <2>2. DOMAIN [x \in {0} |-> 0] # {}
    OBVIOUS
  <2>3. Pairs(NoRules) = {}
    BY <2>2, NoRulesFixNothing
  <2> QED
    BY <2>1, <2>3
<1> QED
  BY <1>1, FixInvHolds, PTL

\* The build that follows a fix installs every version the fix names,
\* however the fixes of other retries have changed the file meanwhile.
THEOREM FixReachesBuild == FixInit /\ [][FixNext]_fixVars => []FixTakesEffect
<1>1. ASSUME FixInv PROVE FixTakesEffect
  <2> SUFFICES ASSUME NEW r \in Retries, ~damaged, fixed[r], used[r] # Unread,
                      \A rule \in Range(used[r]) :
                          SameFamily(rule, HintOf(r)) <=> PartOf(rule.contains, failure[r].base),
                      NEW pkg \in DOMAIN Fix(r)
               PROVE  OverriddenVersion(pkg, {}, failure[r].base, used[r]) = Fix(r)[pkg]
    BY DEF FixTakesEffect, Fix, HintOf
  <2>1. IsList(used[r]) /\ FixIn(used[r], Fix(r), HintOf(r))
    BY <1>1 DEF FixInv, FixType, FixesKept
  <2> QED
    BY <2>1, FixDecides
<1> QED
  BY <1>1, FixInvHolds, PTL

-----------------------------------------------------------------------------
(***************************************************************************)
(* The hardware catalog.                                                   *)
(***************************************************************************)
CatalogItem == [id : ItemIds, edit : Nat]

CatalogType ==
    /\ saved \in [revision : Nat, items : Seq(CatalogItem)]
    /\ view \in [Clients -> [revision : Nat, items : Seq(CatalogItem)]]
    /\ lastEdit \in [ItemIds -> Nat]
    /\ edits \in Nat

DistinctIds ==
    \A i, j \in DOMAIN saved.items : saved.items[i].id = saved.items[j].id => i = j

EditsInPlace ==
    /\ \A i \in DOMAIN saved.items : saved.items[i].edit = lastEdit[saved.items[i].id]
    /\ \A id \in ItemIds :
          (\A i \in DOMAIN saved.items : saved.items[i].id # id) => lastEdit[id] = 0

ViewsAreOld ==
    \A c \in Clients :
        /\ view[c].revision <= saved.revision
        /\ view[c].revision = saved.revision => view[c] = saved

CatalogInv ==
    /\ CatalogType
    /\ saved.revision >= 1
    /\ DistinctIds
    /\ EditsInPlace
    /\ ViewsAreOld

-----------------------------------------------------------------------------
\* WithItem puts the item at one place and leaves every other as it is.
LEMMA WithItemPlaces ==
    ASSUME NEW items \in Seq(CatalogItem), NEW item \in CatalogItem,
           \A i, j \in DOMAIN items : items[i].id = items[j].id => i = j
    PROVE  /\ WithItem(items, item) \in Seq(CatalogItem)
           /\ DOMAIN items \subseteq DOMAIN WithItem(items, item)
           /\ \E k \in DOMAIN WithItem(items, item) :
                 /\ WithItem(items, item)[k] = item
                 /\ k \in DOMAIN items => items[k].id = item.id
                 /\ \A i \in DOMAIN WithItem(items, item) \ {k} :
                       /\ i \in DOMAIN items
                       /\ WithItem(items, item)[i] = items[i]
                       /\ items[i].id # item.id
<1> DEFINE New == WithItem(items, item)
<1>1. CASE \E i \in DOMAIN items : items[i].id = item.id
  <2>1. PICK k \in DOMAIN items : items[k].id = item.id
    BY <1>1
  <2>2. New = [i \in DOMAIN items |-> IF items[i].id = item.id THEN item ELSE items[i]]
    BY <1>1 DEF WithItem
  <2>3. DOMAIN New = DOMAIN items /\ New \in Seq(CatalogItem)
    BY <2>2
  <2>4. New[k] = item /\ \A i \in DOMAIN New \ {k} : New[i] = items[i] /\ items[i].id # item.id
    BY <2>1, <2>2
  <2> QED
    BY <2>1, <2>3, <2>4
<1>2. CASE ~ \E i \in DOMAIN items : items[i].id = item.id
  <2>1. New = Append(items, item)
    BY <1>2 DEF WithItem
  <2>2. /\ New \in Seq(CatalogItem)
        /\ DOMAIN items = 1..Len(items) /\ DOMAIN New = 1..(Len(items) + 1)
        /\ New[Len(items) + 1] = item
        /\ \A i \in DOMAIN items : New[i] = items[i]
    BY <2>1
  <2> QED
    BY <1>2, <2>2
<1> QED
  BY <1>1, <1>2

\* It holds at first ...
LEMMA InitCatalogInv == CatalogInit => CatalogInv
<1> SUFFICES ASSUME CatalogInit PROVE CatalogInv
  OBVIOUS
<1> USE DEF CatalogInit
<1>1. saved.items \in Seq(CatalogItem) /\ DOMAIN saved.items = DOMAIN FirstIds
  <2>1. FirstIds \in Seq(ItemIds)
    BY FirstIdsAssumption
  <2>2. \A i \in DOMAIN FirstIds : [id |-> FirstIds[i], edit |-> 0] \in CatalogItem
    BY <2>1 DEF CatalogItem
  <2>3. saved.items = [i \in 1..Len(FirstIds) |-> [id |-> FirstIds[i], edit |-> 0]]
    BY <2>1
  <2> HIDE DEF CatalogInit
  <2>4. saved.items \in [1..Len(FirstIds) -> CatalogItem]
    BY <2>1, <2>2, <2>3
  <2>5. [1..Len(FirstIds) -> CatalogItem] \subseteq Seq(CatalogItem)
    BY <2>1
  <2> QED
    BY <2>1, <2>3, <2>4, <2>5
<1>2. CatalogType
  BY <1>1 DEF CatalogType, NoView
<1>3. DistinctIds
  BY <1>1, FirstIdsAssumption DEF DistinctIds
<1>4. EditsInPlace
  BY <1>1, FirstIdsAssumption DEF EditsInPlace
<1>5. ViewsAreOld
  BY DEF ViewsAreOld, NoView
<1> QED
  BY <1>2, <1>3, <1>4, <1>5 DEF CatalogInv

\* An accepted save keeps it.
LEMMA UpsertCatalogInv ==
    ASSUME CatalogInv, NEW c \in Clients, NEW id \in ItemIds, NEW checked \in BOOLEAN,
           Upsert(c, id, checked)
    PROVE  CatalogInv'
<1> DEFINE item == [id |-> id, edit |-> edits + 1]
<1> USE DEF CatalogInv
<1>1. CASE UNCHANGED <<saved, view, lastEdit>>
  <2>1. edits' \in Nat
    BY DEF Upsert, CatalogType
  <2> QED
    BY <1>1, <2>1 DEF CatalogType, DistinctIds, EditsInPlace, ViewsAreOld
<1>2. CASE /\ saved' = [revision |-> saved.revision + 1, items |-> WithItem(saved.items, item)]
           /\ view' = [view EXCEPT ![c] = saved']
           /\ lastEdit' = [lastEdit EXCEPT ![id] = edits + 1]
           /\ edits' = edits + 1
  <2>1. item \in CatalogItem /\ saved.items \in Seq(CatalogItem)
    BY DEF CatalogType, CatalogItem
  <2>a. /\ saved'.items = WithItem(saved.items, item)
        /\ saved'.revision = saved.revision + 1
    BY <1>2
  <2>b. \A i, j \in DOMAIN saved.items : saved.items[i].id = saved.items[j].id => i = j
    BY DEF DistinctIds
  <2>c. item.id = id /\ item.edit = edits + 1
    OBVIOUS
  <2> HIDE DEF item, CatalogInv
  <2>2. saved'.items \in Seq(CatalogItem)
    BY <2>a, <2>b, <2>1, WithItemPlaces
  <2>d. \E k \in DOMAIN WithItem(saved.items, item) :
            /\ WithItem(saved.items, item)[k] = item
            /\ k \in DOMAIN saved.items => saved.items[k].id = item.id
            /\ \A i \in DOMAIN WithItem(saved.items, item) \ {k} :
                  /\ i \in DOMAIN saved.items
                  /\ WithItem(saved.items, item)[i] = saved.items[i]
                  /\ saved.items[i].id # item.id
    BY <2>b, <2>1, WithItemPlaces
  <2>3. PICK k \in DOMAIN saved'.items :
            /\ saved'.items[k] = item
            /\ k \in DOMAIN saved.items => saved.items[k].id = item.id
            /\ \A i \in DOMAIN saved'.items \ {k} :
                  /\ i \in DOMAIN saved.items
                  /\ saved'.items[i] = saved.items[i]
                  /\ saved.items[i].id # item.id
    BY <2>a, <2>d
  <2>4. DOMAIN saved.items \subseteq DOMAIN saved'.items
    BY <2>a, <2>b, <2>1, WithItemPlaces
  <2> USE DEF CatalogInv
  <2>5. CatalogType'
    BY <1>2, <2>1, <2>2, <2>a DEF CatalogType
  <2>6. DistinctIds'
    BY <2>3, <2>b DEF DistinctIds
  <2>7. \A i \in DOMAIN saved'.items : saved'.items[i].edit = lastEdit'[saved'.items[i].id]
    <3> TAKE i \in DOMAIN saved'.items
    <3>1. CASE i = k
      BY <3>1, <1>2, <2>3, <2>c DEF CatalogType
    <3>2. CASE i # k
      <4>1. saved'.items[i] = saved.items[i] /\ saved.items[i].id # id /\ i \in DOMAIN saved.items
        BY <3>2, <2>3, <2>c
      <4> QED
        BY <4>1, <1>2 DEF EditsInPlace, CatalogType
    <3> QED
      BY <3>1, <3>2
  <2>8. ASSUME NEW other \in ItemIds, \A i \in DOMAIN saved'.items : saved'.items[i].id # other
        PROVE  lastEdit'[other] = 0
    <3>1. other # id
      BY <2>8, <2>3, <2>c
    <3>2. \A i \in DOMAIN saved.items : saved.items[i].id # other
      BY <3>1, <2>8, <2>3, <2>4, <2>c
    <3> QED
      BY <3>1, <3>2, <1>2 DEF EditsInPlace, CatalogType
  <2>9. ViewsAreOld'
    BY <1>2, <2>a, <2>5 DEF ViewsAreOld, CatalogType
  <2>10. EditsInPlace'
    BY <2>7, <2>8 DEF EditsInPlace
  <2>11. saved'.revision >= 1
    BY <2>a DEF CatalogType
  <2> QED
    BY <2>5, <2>6, <2>9, <2>10, <2>11
<1> QED
  BY <1>1, <1>2 DEF Upsert, Updated, NextRevision

\* ... and so does every step.
LEMMA NextCatalogInv == CatalogInv /\ [CatalogNext]_catalogVars => CatalogInv'
<1> SUFFICES ASSUME CatalogInv, [CatalogNext]_catalogVars PROVE CatalogInv'
  OBVIOUS
<1>1. ASSUME NEW c \in Clients, Fetch(c) PROVE CatalogInv'
  BY <1>1 DEF Fetch, CatalogInv, CatalogType, DistinctIds, EditsInPlace, ViewsAreOld
<1>2. CASE UNCHANGED catalogVars
  BY <1>2 DEF catalogVars, CatalogInv, CatalogType, DistinctIds, EditsInPlace, ViewsAreOld
<1> QED
  BY <1>1, <1>2, UpsertCatalogInv DEF CatalogNext

-----------------------------------------------------------------------------
\* It says what the properties ask.
LEMMA CatalogInvImplies == CatalogInv => NoEditLost /\ RevisionNamesContent
<1> SUFFICES ASSUME CatalogInv PROVE NoEditLost /\ RevisionNamesContent
  OBVIOUS
<1>1. ASSUME NEW id \in ItemIds PROVE EditOf(id) = lastEdit[id]
  <2> DEFINE found == {i \in DOMAIN saved.items : saved.items[i].id = id}
  <2>1. CASE found = {}
    BY <2>1 DEF EditOf, CatalogInv, EditsInPlace
  <2>2. CASE found # {}
    <3>1. (CHOOSE i \in found : TRUE) \in found
      BY <2>2
    <3> QED
      BY <2>2, <3>1 DEF EditOf, CatalogInv, EditsInPlace
  <2> QED
    BY <2>1, <2>2
<1> QED
  BY <1>1 DEF NoEditLost, RevisionNamesContent, CatalogInv, ViewsAreOld

\* Whatever clients save, from whatever copies, the last accepted edit of
\* every item is in the catalog.
THEOREM EditsAreKept == CatalogInit /\ [][CatalogNext]_catalogVars => []NoEditLost
<1>1. CatalogInit => CatalogInv
  BY InitCatalogInv
<1>2. CatalogInv /\ [CatalogNext]_catalogVars => CatalogInv'
  BY NextCatalogInv
<1>3. CatalogInv => NoEditLost
  BY CatalogInvImplies
<1> QED
  BY <1>1, <1>2, <1>3, PTL

\* A client whose revision is the current one holds the current catalog, so
\* comparing revisions is enough for upsert's expected_revision.
THEOREM RevisionsAreUnique == CatalogInit /\ [][CatalogNext]_catalogVars => []RevisionNamesContent
<1>1. CatalogInit => CatalogInv
  BY InitCatalogInv
<1>2. CatalogInv /\ [CatalogNext]_catalogVars => CatalogInv'
  BY NextCatalogInv
<1>3. CatalogInv => RevisionNamesContent
  BY CatalogInvImplies
<1> QED
  BY <1>1, <1>2, <1>3, PTL
=============================================================================
