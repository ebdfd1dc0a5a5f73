---------------------------- MODULE CliUploadProofs ----------------------------
(***************************************************************************)
(* coveragecli, for any commands with reports their tools write, and any   *)
(* number of times a job runs them: what is stored, what the exit code     *)
(* says of it, and what a report's conversion makes of its numbers.        *)
(***************************************************************************)
EXTENDS CliUpload, FiniteSetTheorems, SequenceTheorems, TLAPS

-----------------------------------------------------------------------------
(* Sums.  A sum is a fold, a recursive function on the subsets of a set;   *)
(* that there is one, and what it is, is shown by the least cardinality    *)
(* for which it would fail.                                                *)

\* A set of natural numbers that is not empty has a least one.
LEMMA LeastNumber ==
  ASSUME NEW T \in SUBSET Nat, T # {}
  PROVE  \E n \in T : \A m \in T : n <= m
<1> DEFINE R == {ss \in Nat \X Nat : ss[1] < ss[2]}
<1>1. IsWellFoundedOn(R, Nat)
  BY NatLessThanWellFounded DEF OpToRel
<1>2. \A m, n \in Nat : <<m, n>> \in R <=> m < n
  OBVIOUS
<1> HIDE DEF R
<1>3. \E n \in T : \A m \in T : ~ (<<m, n>> \in R)
  BY <1>1, WFMin
<1>4. PICK n \in T : \A m \in T : ~ (<<m, n>> \in R)
  BY <1>3
<1>5. ASSUME NEW m \in T
      PROVE  n <= m
  <2>1. m \in Nat /\ n \in Nat
    OBVIOUS
  <2>2. ~(m < n)
    BY <1>2, <1>4, <2>1
  <2> QED
    BY <2>1, <2>2
<1> QED
  BY <1>4, <1>5

\* The element a fold takes first, and the sums of the subsets of a family.
First(s) == CHOOSE x \in s : TRUE
SumsOn(g, w, family) ==
    g = [s \in family |-> IF s = {} THEN 0 ELSE w[First(s)] + g[s \ {First(s)}]]
UpTo(S, n) == {s \in SUBSET S : Cardinality(s) <= n}

\* What is left of a set after its first element.
LEMMA Rest ==
  ASSUME NEW S, IsFiniteSet(S), NEW s \in SUBSET S, s # {}
  PROVE  /\ First(s) \in s /\ s \ {First(s)} \in SUBSET S
         /\ Cardinality(s) \in Nat /\ Cardinality(s \ {First(s)}) = Cardinality(s) - 1
         /\ Cardinality(s) > 0
<1>1. IsFiniteSet(s)
  BY FS_Subset
<1>2. First(s) \in s
  BY DEF First
<1>3. Cardinality(s) \in Nat /\ Cardinality(s \ {First(s)}) = Cardinality(s) - 1
  BY <1>1, <1>2, FS_CardinalityType, FS_RemoveElement
<1>4. Cardinality(s) # 0
  BY <1>1, FS_EmptySet
<1> QED
  BY <1>2, <1>3, <1>4

\* The sums of subsets of every size exist.
LEMMA SumsUpTo ==
  ASSUME NEW S, IsFiniteSet(S), NEW w, NEW n \in Nat
  PROVE  \E g : SumsOn(g, w, UpTo(S, n))
<1> DEFINE T == {k \in Nat : ~ \E g : SumsOn(g, w, UpTo(S, k))}
<1> SUFFICES ASSUME T # {}
             PROVE  FALSE
  OBVIOUS
<1>1. PICK m \in T : \A k \in T : m <= k
  BY LeastNumber
<1>2. CASE m = 0
  <2> DEFINE g == [s \in UpTo(S, 0) |-> 0]
  <2>1. \A s \in UpTo(S, 0) : s = {}
    <3>1. ASSUME NEW s \in UpTo(S, 0), s # {}
          PROVE  FALSE
      <4>1. s \in SUBSET S /\ Cardinality(s) <= 0
        BY DEF UpTo
      <4>2. Cardinality(s) > 0 /\ Cardinality(s) \in Nat
        BY <3>1, <4>1, Rest
      <4> QED
        BY <4>1, <4>2
    <3> QED
      BY <3>1
  <2>2. SumsOn(g, w, UpTo(S, 0))
    BY <2>1 DEF SumsOn
  <2> QED
    BY <1>1, <1>2, <2>2
<1>3. CASE m # 0
  <2>1. m - 1 \in Nat /\ m - 1 \notin T
    BY <1>1, <1>3
  <2>2. PICK g : SumsOn(g, w, UpTo(S, m - 1))
    BY <2>1
  <2> DEFINE h == [s \in UpTo(S, m) |->
                     IF s = {} THEN 0 ELSE w[First(s)] + g[s \ {First(s)}]]
  <2>3. ASSUME NEW s \in UpTo(S, m), s # {}
        PROVE  h[s \ {First(s)}] = g[s \ {First(s)}]
    <3> DEFINE r == s \ {First(s)}
    <3>1. r \in UpTo(S, m - 1) /\ r \in UpTo(S, m)
      BY <1>1, <2>3, Rest DEF UpTo
    <3>2. g[r] = IF r = {} THEN 0 ELSE w[First(r)] + g[r \ {First(r)}]
      BY <2>2, <3>1 DEF SumsOn
    <3> QED
      BY <3>1, <3>2
  <2>4. SumsOn(h, w, UpTo(S, m))
    BY <2>3 DEF SumsOn
  <2> QED
    BY <1>1, <2>4
<1> QED
  BY <1>2, <1>3

\* So the sums of all subsets of a finite set exist, and the fold has them.
LEMMA SumDefined ==
  ASSUME NEW S, IsFiniteSet(S), NEW w
  PROVE  \E g : SumsOn(g, w, SUBSET S) /\ SumFunctionOnSet(w, S) = g[S]
<1>1. Cardinality(S) \in Nat
  BY FS_CardinalityType
<1>2. UpTo(S, Cardinality(S)) = SUBSET S
  BY FS_Subset DEF UpTo
<1>3. \E g : SumsOn(g, w, SUBSET S)
  <2>1. \E g : SumsOn(g, w, UpTo(S, Cardinality(S)))
    BY <1>1, SumsUpTo
  <2> QED
    BY <1>2, <2>1
<1> DEFINE iter == CHOOSE g : SumsOn(g, w, SUBSET S)
<1>4. SumsOn(iter, w, SUBSET S)
  BY <1>3
<1>5. SumFunctionOnSet(w, S) = iter[S]
  BY DEF SumFunctionOnSet, FoldFunctionOnSet, MapThenFoldSet, SumsOn, First
<1> QED
  BY <1>4, <1>5

\* A sum over natural numbers is one, is at least some of them, and lies within
\* as many times what bounds them.
LEMMA SumBounds ==
  ASSUME NEW S, IsFiniteSet(S), NEW w, \A x \in S : w[x] \in Nat
  PROVE  /\ SumFunctionOnSet(w, S) \in Nat
         /\ S # {} => \E x \in S : SumFunctionOnSet(w, S) >= w[x]
         /\ (\A x \in S : w[x] <= Hundred) =>
               SumFunctionOnSet(w, S) <= Hundred * Cardinality(S)
<1>1. PICK g : SumsOn(g, w, SUBSET S) /\ SumFunctionOnSet(w, S) = g[S]
  BY SumDefined
<1>2. g[{}] = 0
  BY <1>1 DEF SumsOn
<1>3. ASSUME NEW s \in SUBSET S, s # {}
      PROVE  g[s] = w[First(s)] + g[s \ {First(s)}]
  BY <1>1, <1>3 DEF SumsOn
<1> DEFINE Bounded(s) ==
             /\ g[s] \in Nat
             /\ (\A x \in S : w[x] <= Hundred) => g[s] <= Hundred * Cardinality(s)
           Wrong == {n \in Nat : \E s \in SUBSET S : Cardinality(s) = n /\ ~Bounded(s)}
<1>4. Wrong = {}
  <2> SUFFICES ASSUME Wrong # {}
               PROVE  FALSE
    OBVIOUS
  <2>1. PICK n \in Wrong : \A k \in Wrong : n <= k
    BY LeastNumber
  <2>2. PICK s \in SUBSET S : Cardinality(s) = n /\ ~Bounded(s)
    BY <2>1
  <2>3. s # {}
    <3>1. Cardinality({}) = 0
      BY FS_EmptySet
    <3>2. Bounded({})
      BY <1>2, <3>1 DEF Hundred
    <3> QED
      BY <2>2, <3>2
  <2> DEFINE x == First(s)
             r == s \ {First(s)}
  <2>4. /\ x \in s /\ r \in SUBSET S
        /\ Cardinality(s) \in Nat /\ Cardinality(r) = Cardinality(s) - 1 /\ Cardinality(s) > 0
    BY <2>3, Rest
  <2>5. Bounded(r)
    BY <2>1, <2>2, <2>4
  <2>6. g[s] = w[x] + g[r] /\ w[x] \in Nat
    BY <1>3, <2>3, <2>4
  <2> HIDE DEF x, r
  <2>7. Bounded(s)
    BY <2>4, <2>5, <2>6 DEF Hundred
  <2> QED
    BY <2>2, <2>7
<1>5. ASSUME NEW s \in SUBSET S
      PROVE  Bounded(s)
  <2>1. Cardinality(s) \in Nat
    BY FS_Subset, FS_CardinalityType
  <2> QED
    BY <1>4, <2>1
<1>6. ASSUME S # {}
      PROVE  \E x \in S : SumFunctionOnSet(w, S) >= w[x]
  <2> DEFINE x == First(S)
             r == S \ {First(S)}
  <2>1. x \in S /\ r \in SUBSET S
    BY <1>6, Rest
  <2>2. g[S] = w[x] + g[r] /\ w[x] \in Nat /\ g[r] \in Nat
    BY <1>3, <1>5, <1>6, <2>1
  <2> HIDE DEF x, r
  <2>3. g[S] >= w[x]
    BY <2>2
  <2> QED
    BY <1>1, <2>1, <2>3
<1> QED
  BY <1>1, <1>5, <1>6

-----------------------------------------------------------------------------
(* Percentages. *)

LEMMA HundredIsNumber == Hundred \in Nat
BY DEF Hundred

\* A quotient is rounded to an integer.
LEMMA RoundType ==
  ASSUME NEW n \in Int, NEW d \in Nat \ {0}
  PROVE  round2(n, d) \in Int
<1> DEFINE a == 2 * n + d * Cent
           b == 2 * d * Cent
<1>1. a \in Int /\ b \in Int /\ b > 0
  BY DEF Cent
<1>2. a \div b \in Int
  <2> HIDE DEF a, b
  <2> QED
    BY <1>1
<1> QED
  BY <1>2 DEF round2, Cent

\* And one of at most 1 to at most a hundred percent.
LEMMA RoundRange ==
  ASSUME NEW n \in Nat, NEW d \in Nat \ {0}, n <= Hundred * d
  PROVE  ValidateCoveragePercent(round2(n, d))
<1> DEFINE a == 2 * n + d * Cent
           b == 2 * d * Cent
           q == a \div b
<1>1. a \in Nat /\ b \in Nat /\ b > 0 /\ a < 10001 * b
  BY DEF Cent, Hundred
<1>2. q \in Int /\ b * q <= a /\ a < b * (q + 1)
  <2> HIDE DEF a, b
  <2> QED
    BY <1>1
<1>3. q \in Int /\ q >= 0 /\ q < 10001
  <2> HIDE DEF a, b, q
  <2> QED
    BY <1>1, <1>2
<1>4. round2(n, d) = q * 10
  BY DEF round2, Cent
<1> HIDE DEF q
<1> QED
  BY <1>3, <1>4 DEF ValidateCoveragePercent, Hundred

-----------------------------------------------------------------------------
(* What becomes of a report. *)

OneOfEach(paths, percent) ==
    {[importPath |-> k, coveragePercent |-> percent[k]] : k \in paths}

\* Packages that are made one of each path have paths of their own.
LEMMA OneOfEachPath ==
  ASSUME NEW paths, NEW percent, NEW pkgs, pkgs = OneOfEach(paths, percent)
  PROVE  /\ UniqueImportPaths(pkgs)
         /\ \A p \in pkgs : p.importPath \in paths /\ p.coveragePercent = percent[p.importPath]
         /\ paths # {} => pkgs # {}
<1>1. \A p \in pkgs : /\ p.importPath \in paths
                      /\ p = [importPath |-> p.importPath,
                              coveragePercent |-> percent[p.importPath]]
  BY DEF OneOfEach
<1>2. UniqueImportPaths(pkgs)
  BY <1>1 DEF UniqueImportPaths
<1>3. \A p \in pkgs : p.coveragePercent = percent[p.importPath]
  BY <1>1
<1>4. paths # {} => pkgs # {}
  BY DEF OneOfEach
<1> QED
  BY <1>1, <1>2, <1>3, <1>4

\* Packages of a profile have paths of their own and percentages, whatever the
\* functions of each are.
LEMMA ProfilePackages ==
  ASSUME NEW profile \in Seq(ProfileFunction)
  PROVE  /\ \A p \in PackagesOfProfile(profile) :
               /\ p.importPath \in SpecPaths /\ p.coveragePercent \in Int
               /\ ValidateCoveragePercent(p.coveragePercent)
         /\ UniqueImportPaths(PackagesOfProfile(profile))
         /\ profile # << >> => PackagesOfProfile(profile) # {}
<1> DEFINE dirs == {profile[i].dir : i \in DOMAIN profile}
           percents == [i \in DOMAIN profile |-> profile[i].percent]
           inPackage(dir) == {i \in DOMAIN profile : profile[i].dir = dir}
           mean(dir) == round2(SumFunctionOnSet(percents, inPackage(dir)),
                               Cardinality(inPackage(dir)))
<1>1. /\ DOMAIN profile = 1 .. Len(profile) /\ Len(profile) \in Nat
      /\ \A i \in DOMAIN profile : profile[i] \in ProfileFunction
  OBVIOUS
<1>2. IsFiniteSet(DOMAIN profile)
  BY <1>1, FS_Interval
<1>3. \A i \in DOMAIN profile :
         profile[i].dir \in SpecPaths /\ percents[i] \in Nat /\ percents[i] <= Hundred
  <2> QED
    BY <1>1, HundredIsNumber DEF ProfileFunction
<1>4. ASSUME NEW dir \in dirs
      PROVE  mean(dir) \in Int /\ ValidateCoveragePercent(mean(dir))
  <2> DEFINE I == inPackage(dir)
  <2>1. I # {} /\ IsFiniteSet(I)
    BY <1>2, FS_Subset
  <2>2. Cardinality(I) \in Nat \ {0}
    BY <2>1, FS_EmptySet, FS_CardinalityType
  <2>3. \A i \in I : percents[i] \in Nat /\ percents[i] <= Hundred
    BY <1>3
  <2> HIDE DEF I, percents
  <2>4. /\ SumFunctionOnSet(percents, I) \in Nat
        /\ SumFunctionOnSet(percents, I) <= Hundred * Cardinality(I)
    BY <2>1, <2>3, SumBounds
  <2> DEFINE n == SumFunctionOnSet(percents, I)
             d == Cardinality(I)
  <2>5. n \in Nat /\ n \in Int /\ d \in Nat \ {0} /\ n <= Hundred * d
    BY <2>2, <2>4
  <2> HIDE DEF n, d
  <2>6. round2(n, d) \in Int /\ ValidateCoveragePercent(round2(n, d))
    BY <2>5, RoundType, RoundRange
  <2> QED
    BY <2>6 DEF n, d, I, percents
<1> DEFINE percent == [dir \in dirs |-> mean(dir)]
<1>5. PackagesOfProfile(profile) = OneOfEach(dirs, percent)
  BY DEF PackagesOfProfile, OneOfEach
<1>6. \A dir \in dirs : dir \in SpecPaths
  BY <1>3
<1>7. profile # << >> => dirs # {}
  BY <1>1
<1>8. \A dir \in dirs : percent[dir] \in Int /\ ValidateCoveragePercent(percent[dir])
  BY <1>4
<1> DEFINE pkgs == PackagesOfProfile(profile)
<1>9. pkgs = OneOfEach(dirs, percent)
  BY <1>5
<1> HIDE DEF dirs, percent, pkgs
<1>10. /\ UniqueImportPaths(pkgs)
       /\ \A p \in pkgs : p.importPath \in dirs /\ p.coveragePercent = percent[p.importPath]
       /\ dirs # {} => pkgs # {}
  BY <1>9, OneOfEachPath
<1> QED
  BY <1>6, <1>7, <1>8, <1>10 DEF pkgs

\* So do those of a Vitest summary, but for the range, which the command checks.
LEMMA SummaryPackages ==
  ASSUME NEW report, report.files \in SUBSET SummaryFile, IsFiniteSet(report.files)
  PROVE  /\ \A p \in PackagesOfSummary(report) :
               p.importPath \in SpecPaths /\ p.coveragePercent \in Int
         /\ UniqueImportPaths(PackagesOfSummary(report))
         /\ ConsideredFiles(report) # {} => PackagesOfSummary(report) # {}
<1> DEFINE considered == ConsideredFiles(report)
           key(f) == IF report.groupBy = "dir" THEN f.dir ELSE f.path
           keys == {key(f) : f \in considered}
           group(k) == {f \in considered : key(f) = k}
           covered == [f \in considered |-> f.covered]
           total == [f \in considered |-> f.total]
           share(k) == round2(Hundred * SumFunctionOnSet(covered, group(k)),
                              SumFunctionOnSet(total, group(k)))
<1>1. /\ considered \subseteq report.files /\ IsFiniteSet(considered)
      /\ \A f \in considered : f \in SummaryFile /\ f.total > 0
  BY FS_Subset DEF ConsideredFiles
<1>2. \A f \in considered :
         /\ key(f) \in SpecPaths /\ covered[f] \in Nat /\ total[f] \in Nat /\ total[f] > 0
  BY <1>1 DEF SummaryFile
<1> HIDE DEF considered
<1>3. ASSUME NEW k \in keys
      PROVE  share(k) \in Int
  <2> DEFINE G == group(k)
  <2>1. G # {} /\ IsFiniteSet(G)
    BY <1>1, FS_Subset
  <2>2. \A f \in G : covered[f] \in Nat /\ total[f] \in Nat /\ total[f] > 0
    BY <1>2
  <2> HIDE DEF G, covered, total
  <2>3. SumFunctionOnSet(covered, G) \in Nat /\ SumFunctionOnSet(total, G) \in Nat
    BY <2>1, <2>2, SumBounds
  <2>4. \E f \in G : SumFunctionOnSet(total, G) >= total[f]
    BY <2>1, <2>2, SumBounds
  <2>5. SumFunctionOnSet(total, G) \in Nat \ {0}
    BY <2>2, <2>3, <2>4
  <2>6. Hundred * SumFunctionOnSet(covered, G) \in Int
    BY <2>3 DEF Hundred
  <2>7. round2(Hundred * SumFunctionOnSet(covered, G), SumFunctionOnSet(total, G)) \in Int
    BY <2>5, <2>6, RoundType
  <2> QED
    BY <2>7 DEF G
<1> DEFINE percent == [k \in keys |-> share(k)]
<1>4. PackagesOfSummary(report) = OneOfEach(keys, percent)
  BY DEF PackagesOfSummary, considered, OneOfEach
<1>5. \A k \in keys : k \in SpecPaths
  BY <1>2
<1>6. ConsideredFiles(report) # {} => keys # {}
  BY DEF considered
<1>7. \A k \in keys : percent[k] \in Int
  BY <1>3
<1> HIDE DEF keys, percent
<1> QED
  BY <1>4, <1>5, <1>6, <1>7, OneOfEachPath

\* What a coverage command converts is a report the API takes, but for its
\* flags.
LEMMA CoverageBodyValid ==
  ASSUME NEW in \in Invocations, in.command \notin Kinds, InputOk(in)
  PROVE  /\ \A p \in Convert(in).packages : p.coveragePercent \in Int
         /\ ValidateTriggerType(in.triggerType) /\ in.threshold <= Hundred =>
               ValidInput(Convert(in))
<1> USE InvocationsAreCalls, NoneIsNoWord
<1> DEFINE pkgs == Convert(in).packages
<1>1. in.command \in {"coverage", "npm"} /\ in.threshold \in Int
  BY DEF Commands, Kinds
<1>2. /\ \A p \in pkgs :
            /\ p.importPath \in SpecPaths /\ p.coveragePercent \in Int
            /\ ValidateCoveragePercent(p.coveragePercent)
      /\ UniqueImportPaths(pkgs) /\ pkgs # {}
      /\ Convert(in) = CoverageBody(in, in.report.total, pkgs)
      /\ in.report.total \in Nat /\ in.report.total <= Hundred
  <2>1. CASE in.command = "coverage"
    <3>1. /\ in.report.functions \in Seq(ProfileFunction) /\ in.report.functions # << >>
          /\ in.report.total \in Nat /\ in.report.total <= Hundred
      BY <2>1, HundredIsNumber DEF InputOk
    <3>2. Convert(in) = CoverageBody(in, in.report.total, PackagesOfProfile(in.report.functions))
      BY <2>1 DEF Convert
    <3>3. pkgs = PackagesOfProfile(in.report.functions)
      BY <3>2 DEF CoverageBody
    <3> QED
      BY <3>1, <3>2, <3>3, ProfilePackages
  <2>2. CASE in.command = "npm"
    <3>1. /\ in.report.files \in SUBSET SummaryFile /\ IsFiniteSet(in.report.files)
          /\ SummaryOk(in.report) /\ in.report.total \in Int
      BY <2>2 DEF InputOk
    <3>2. Convert(in) = CoverageBody(in, in.report.total, PackagesOfSummary(in.report))
      BY <2>2 DEF Convert
    <3>3. pkgs = PackagesOfSummary(in.report)
      BY <3>2 DEF CoverageBody
    <3>4. in.report.total \in Nat /\ in.report.total <= Hundred
      BY <3>1 DEF SummaryOk, ValidateCoveragePercent
    <3>5. ConsideredFiles(in.report) # {}
          /\ \A p \in pkgs : ValidateCoveragePercent(p.coveragePercent)
      BY <3>1, <3>3 DEF SummaryOk
    <3> HIDE DEF pkgs
    <3> QED
      BY <3>1, <3>2, <3>3, <3>4, <3>5, SummaryPackages
  <2> QED
    BY <1>1, <2>1, <2>2
<1> HIDE DEF pkgs
<1>3. ASSUME ValidateTriggerType(in.triggerType), in.threshold <= Hundred
      PROVE  ValidInput(Convert(in))
  <2> DEFINE b == CoverageBody(in, in.report.total, pkgs)
  <2>1. /\ b.projectKey # None /\ b.branch # None /\ b.commitSha # None
        /\ b.runTimestamp # None
    BY DEF CoverageBody
  <2>2. ValidateTriggerType(b.triggerType)
    BY <1>3 DEF CoverageBody
  <2>3. ValidateCoveragePercent(b.totalCoveragePercent)
    <3>1. in.report.total <= Hundred * 1
      BY <1>2, HundredIsNumber
    <3>2. ValidateCoveragePercent(round2(in.report.total, 1))
      BY <1>2, <3>1, RoundRange
    <3> QED
      BY <3>2 DEF CoverageBody
  <2>4. b.thresholdPercent # None => ValidateCoveragePercent(b.thresholdPercent)
    BY <1>1, <1>3 DEF CoverageBody, ValidateCoveragePercent
  <2>5. b.packages = pkgs
    BY DEF CoverageBody
  <2>6. \A p \in pkgs : p.importPath # None
    BY <1>2
  <2> HIDE DEF b
  <2>7. ValidInput(b)
    BY <1>2, <2>1, <2>2, <2>3, <2>4, <2>5, <2>6 DEF ValidInput
  <2> QED
    BY <1>2, <2>7 DEF b
<1> QED
  BY <1>2, <1>3 DEF pkgs

\* The spec is one the framework of the format writes.
WrittenBy(format, spec) ==
    \/ format = "ginkgo.json" /\ spec \in GinkgoReport
    \/ format = "playwright.json" /\ spec \in PlaywrightReport
    \/ format = "appium.xml" /\ spec \in AppiumReport

\* What a spec is converted to has the API's types; a spec type with blanks around
\* it is not one the converters write.
LEMMA SpecTyped ==
  ASSUME NEW format, NEW spec, WrittenBy(format, spec)
  PROVE  /\ SpecOf(format, spec).state \in ReportedStates
         /\ SpecOf(format, spec).message \in BOOLEAN
         /\ ~SpecOf(format, spec).padded
<1>1. CASE format = "ginkgo.json" /\ spec \in GinkgoReport
  BY <1>1 DEF SpecOf, GinkgoSpec, GinkgoReport
<1>2. CASE format = "playwright.json" /\ spec \in PlaywrightReport
  <2>1. SpecOf(format, spec) = PlaywrightSpec(spec)
    BY <1>2 DEF SpecOf
  <2>2. spec.tests # << >> => Head(spec.tests).error \in BOOLEAN
    <3> DEFINE tests == spec.tests
               Test == [projectId: STRING, status: STRING, error: BOOLEAN]
    <3>1. tests \in Seq(Test)
      BY <1>2 DEF PlaywrightReport
    <3>2. \A test \in Test : test.error \in BOOLEAN
      OBVIOUS
    <3> HIDE DEF tests, Test
    <3>3. tests # << >> => Head(tests) \in Test
      BY <3>1, HeadTailProperties
    <3> QED
      BY <3>2, <3>3 DEF tests
  <2>3. PlaywrightSpec(spec).state \in ReportedStates
    BY DEF PlaywrightSpec, PlaywrightState, ReportedStates
  <2>4. PlaywrightSpec(spec).message \in BOOLEAN /\ ~PlaywrightSpec(spec).padded
    BY <2>2 DEF PlaywrightSpec
  <2> QED
    BY <2>1, <2>3, <2>4
<1>3. CASE format = "appium.xml" /\ spec \in AppiumReport
  <2>1. SpecOf(format, spec) = AppiumSpec(spec)
    BY <1>3 DEF SpecOf
  <2>2. AppiumState(spec) \in ReportedStates
    BY DEF AppiumState, ReportedStates
  <2> QED
    BY <2>1, <2>2 DEF AppiumSpec
<1> QED
  BY <1>1, <1>2, <1>3 DEF WrittenBy

\* What failed of a report in the words of its framework.
SpecFailed(format, spec) ==
    CASE format = "ginkgo.json" ->
           spec.state \in {"failed", "panicked", "interrupted", "timedout"}
      [] format = "playwright.json" ->
           spec.tests # << >> /\ Head(spec.tests).status = "unexpected"
      [] format = "appium.xml" ->
           spec.failure # None \/ (~spec.skipped /\ spec.status = "failed")

\* A spec that the API accepts counts as failed exactly when its framework says so.
LEMMA SpecVerdict ==
  ASSUME NEW kind, NEW format, NEW spec, WrittenBy(format, spec),
         isAcceptedState(kind, SpecOf(format, spec).state)
  PROVE  normalizeState(SpecOf(format, spec).state) = "failed" <=> SpecFailed(format, spec)
<1>1. CASE format = "ginkgo.json"
  BY <1>1 DEF SpecOf, SpecFailed, GinkgoSpec, normalizeState, isAcceptedState
<1>2. CASE format = "playwright.json"
  <2>1. SpecOf(format, spec).state = PlaywrightSpec(spec).state
    BY <1>2 DEF SpecOf
  <2>2. SpecFailed(format, spec)
          <=> spec.tests # << >> /\ Head(spec.tests).status = "unexpected"
    BY <1>2 DEF SpecFailed
  <2>3. isAcceptedState(kind, PlaywrightSpec(spec).state)
    BY <2>1
  <2>4. normalizeState(PlaywrightSpec(spec).state) = "failed"
          <=> spec.tests # << >> /\ Head(spec.tests).status = "unexpected"
    BY <2>3 DEF PlaywrightSpec, PlaywrightState, normalizeState, isAcceptedState
  <2> QED
    BY <2>1, <2>2, <2>4
<1>3. CASE format = "appium.xml"
  <2>1. SpecOf(format, spec).state = AppiumState(spec)
    BY <1>3 DEF SpecOf, AppiumSpec
  <2>2. SpecFailed(format, spec)
          <=> spec.failure # None \/ (~spec.skipped /\ spec.status = "failed")
    BY <1>3 DEF SpecFailed
  <2>3. normalizeState(AppiumState(spec)) = "failed"
          <=> spec.failure # None \/ (~spec.skipped /\ spec.status = "failed")
    BY <1>3 DEF WrittenBy, AppiumReport, AppiumState, normalizeState
  <2> QED
    BY <2>1, <2>2, <2>3
<1> QED
  BY <1>1, <1>2, <1>3 DEF WrittenBy

\* The API's status of a run is what its specs count as.
LEMMA StatusCounts ==
  ASSUME NEW specs, IsFiniteSet(DOMAIN specs)
  PROVE  LET status == EvaluateRunStatus(CountOf(Results(specs), "failed"),
                                         Some(specs, "interrupted"), Some(specs, "timedout"))
         IN  /\ status \in {"passed", "failed"}
             /\ status = "failed"
                  <=> \E i \in DOMAIN specs : normalizeState(specs[i].state) = "failed"
<1> DEFINE F == {i \in DOMAIN Results(specs) : Results(specs)[i].state = "failed"}
<1>1. DOMAIN Results(specs) = DOMAIN specs
      /\ \A i \in DOMAIN specs : Results(specs)[i].state = normalizeState(specs[i].state)
  BY DEF Results
<1>2. IsFiniteSet(F)
  BY <1>1, FS_Subset
<1>3. Cardinality(F) = 0 <=> F = {}
  BY <1>2, FS_EmptySet
<1>4. F = {} <=> ~ \E i \in DOMAIN specs : normalizeState(specs[i].state) = "failed"
  BY <1>1
<1>5. CountOf(Results(specs), "failed") = Cardinality(F)
  BY DEF CountOf
<1>6. ASSUME NEW state \in {"interrupted", "timedout"}, Some(specs, state)
      PROVE  \E i \in DOMAIN specs : normalizeState(specs[i].state) = "failed"
  BY <1>6 DEF Some, normalizeState
<1> HIDE DEF F
<1> QED
  BY <1>3, <1>4, <1>5, <1>6 DEF EvaluateRunStatus

\* What a test command converts.
LEMMA TestBodyOf ==
  ASSUME NEW in \in Invocations, in.command \in Kinds, InputOk(in)
  PROVE  LET format == in.report.format
             specs == in.report.specs
             b == Convert(in)
         IN  /\ format \in {"ginkgo.json", "playwright.json", "appium.xml"}
             /\ b.kind = in.command /\ b.environment = in.environment
             /\ b.specs = [i \in DOMAIN specs |-> SpecOf(format, specs[i])]
             /\ EnvironmentOk(in)
             /\ IsFiniteSet(DOMAIN specs)
             /\ \A i \in DOMAIN specs :
                   /\ WrittenBy(format, specs[i])
                   /\ b.specs[i].state \in ReportedStates
                   /\ b.specs[i].message \in BOOLEAN
                   /\ ~b.specs[i].padded
<1> DEFINE format == in.report.format
           specs == in.report.specs
           b == Convert(in)
<1>1. format \in {"ginkgo.json", "playwright.json", "appium.xml"} /\ EnvironmentOk(in)
  BY DEF InputOk, Kinds
<1>2. b = TestReportBody(in)
  BY DEF Convert, Kinds
<1>3. /\ b.kind = in.command /\ b.environment = in.environment
      /\ b.specs = [i \in DOMAIN specs |-> SpecOf(format, specs[i])]
  BY <1>1, <1>2 DEF TestReportBody, TestBody
<1>4. /\ format = "ginkgo.json" => specs \in Seq(GinkgoReport)
      /\ format = "playwright.json" => specs \in Seq(PlaywrightReport)
      /\ format = "appium.xml" => specs \in Seq(AppiumReport)
  BY InvocationsAreCalls
<1> HIDE DEF format, specs, b
<1>5. /\ DOMAIN specs = 1 .. Len(specs) /\ Len(specs) \in Nat
      /\ \A i \in DOMAIN specs : WrittenBy(format, specs[i])
  BY <1>1, <1>4 DEF WrittenBy
<1>6. IsFiniteSet(DOMAIN specs)
  BY <1>5, FS_Interval
<1>7. \A i \in DOMAIN specs :
         /\ b.specs[i].state \in ReportedStates
         /\ b.specs[i].message \in BOOLEAN
         /\ ~b.specs[i].padded
  BY <1>3, <1>5, SpecTyped
<1> QED
  BY <1>1, <1>3, <1>5, <1>6, <1>7 DEF format, specs, b

\* The status the API stores for a converted report it accepts is the verdict of
\* its framework.
LEMMA Verdict ==
  ASSUME NEW in \in Invocations, in.command \in Kinds, InputOk(in),
         NEW b, b = Convert(in)
  PROVE  LET status == EvaluateRunStatus(CountOf(Results(b.specs), "failed"),
                                         Some(b.specs, "interrupted"), Some(b.specs, "timedout"))
         IN  /\ status \in {"passed", "failed"}
             /\ ValidReport(b) => (status = "failed" <=> ReportFailed(in))
<1> DEFINE format == in.report.format
           specs == in.report.specs
           status == EvaluateRunStatus(CountOf(Results(b.specs), "failed"),
                                       Some(b.specs, "interrupted"), Some(b.specs, "timedout"))
<1>1. /\ format \in {"ginkgo.json", "playwright.json", "appium.xml"}
      /\ b.specs = [i \in DOMAIN specs |-> SpecOf(format, specs[i])]
      /\ IsFiniteSet(DOMAIN specs) /\ \A i \in DOMAIN specs : WrittenBy(format, specs[i])
  BY TestBodyOf
<1>2. DOMAIN b.specs = DOMAIN specs /\ \A i \in DOMAIN specs : b.specs[i] = SpecOf(format, specs[i])
  BY <1>1
<1>3. /\ status \in {"passed", "failed"}
      /\ status = "failed"
           <=> \E i \in DOMAIN specs : normalizeState(b.specs[i].state) = "failed"
  BY <1>1, <1>2, StatusCounts
<1>4. ReportFailed(in) <=> \E i \in DOMAIN specs : SpecFailed(format, specs[i])
  BY DEF ReportFailed, SpecFailed
<1>5. ASSUME ValidReport(b), NEW i \in DOMAIN specs
      PROVE  normalizeState(b.specs[i].state) = "failed" <=> SpecFailed(format, specs[i])
  <2>1. isAcceptedState(b.kind, b.specs[i].state)
    BY <1>2, <1>5 DEF ValidReport, ValidSpec
  <2> QED
    BY <1>1, <1>2, <2>1, SpecVerdict
<1> HIDE DEF format, specs, status
<1>6. ValidReport(b) => (status = "failed" <=> ReportFailed(in))
  BY <1>3, <1>4, <1>5
<1> QED
  BY <1>3, <1>6 DEF status

-----------------------------------------------------------------------------
(* What the API makes of a body. *)

\* The API stores a converted test report as passed or failed, and a coverage
\* report without a status.
LEMMA StatusStored ==
  ASSUME BodyInv, pc = "post"
  PROVE  /\ StoredStatus \in {"passed", "failed", None}
         /\ Storable /\ IsTestRun => (StoredStatus = "failed" <=> ReportFailed(call))
<1>1. call \in Invocations /\ InputOk(call) /\ body = Convert(call)
  BY DEF BodyInv
<1>2. CASE IsTestRun
  <2>1. call.command \in Kinds
    BY <1>2 DEF IsTestRun
  <2>2. /\ StoredStatus \in {"passed", "failed"}
        /\ ValidReport(body) => (StoredStatus = "failed" <=> ReportFailed(call))
    BY <1>1, <1>2, <2>1, Verdict DEF StoredStatus
  <2>3. Storable => ValidReport(body)
    BY <1>2 DEF Storable, Accepted
  <2> QED
    BY <2>2, <2>3
<1>3. CASE ~IsTestRun
  BY <1>3 DEF StoredStatus
<1> QED
  BY <1>2, <1>3

\* The body of either kind has its types.
BodyTyped ==
    /\ body # None /\ IsTestRun =>
          \A i \in DOMAIN body.specs :
              body.specs[i].state \in ReportedStates /\ body.specs[i].message \in BOOLEAN
    /\ body # None /\ ~IsTestRun => \A p \in body.packages : p.coveragePercent \in Int

LEMMA BodyHasTypes ==
  ASSUME BodyInv
  PROVE  BodyTyped
<1> SUFFICES ASSUME body # None
             PROVE  BodyTyped
  BY DEF BodyTyped
<1>1. call \in Invocations /\ InputOk(call) /\ body = Convert(call)
  BY DEF BodyInv
<1>2. CASE IsTestRun
  <2>1. call.command \in Kinds
    BY <1>2 DEF IsTestRun
  <2>2. /\ body.specs = [i \in DOMAIN call.report.specs |->
                            SpecOf(call.report.format, call.report.specs[i])]
        /\ \A i \in DOMAIN call.report.specs :
              body.specs[i].state \in ReportedStates /\ body.specs[i].message \in BOOLEAN
    BY <1>1, <2>1, TestBodyOf
  <2>3. DOMAIN body.specs = DOMAIN call.report.specs
    BY <2>2
  <2> QED
    BY <1>2, <2>2, <2>3 DEF BodyTyped
<1>3. CASE ~IsTestRun
  <2>1. call.command \notin Kinds
    BY <1>3 DEF IsTestRun
  <2>2. \A p \in body.packages : p.coveragePercent \in Int
    BY <1>1, <2>1, CoverageBodyValid
  <2> QED
    BY <1>3, <2>2 DEF BodyTyped
<1> QED
  BY <1>2, <1>3

\* What a conversion writes is not what the API refuses.
LEMMA BodyAccepted ==
  ASSUME BodyInv
  PROVE  ConvertedBodiesAreAccepted
<1>1. ASSUME answer = "400", ~IsTestRun
      PROVE  ~ValidateTriggerType(call.triggerType) \/ call.threshold > Hundred
  <2>1. /\ call \in Invocations /\ InputOk(call) /\ call.command \notin Kinds
        /\ ~ValidInput(Convert(call))
    BY <1>1 DEF BodyInv, Accepted, IsTestRun
  <2>2. ~(ValidateTriggerType(call.triggerType) /\ call.threshold <= Hundred)
    BY <2>1, CoverageBodyValid
  <2>3. call.threshold \in Int
    BY <2>1, InvocationsAreCalls
  <2> QED
    BY <2>2, <2>3, HundredIsNumber
<1>2. ASSUME body # None, IsTestRun, Accepted, body.platform \in {"web", "android", "ios"}
      PROVE  Storable
  <2>1. /\ call \in Invocations /\ InputOk(call) /\ call.command \in Kinds
        /\ body = Convert(call)
    BY <1>2 DEF BodyInv, IsTestRun
  <2>2. /\ body.environment \in {None, "test", "stage", "prod"}
        /\ body.specs = [i \in DOMAIN call.report.specs |->
                            SpecOf(call.report.format, call.report.specs[i])]
        /\ \A i \in DOMAIN call.report.specs : ~body.specs[i].padded
    BY <2>1, TestBodyOf DEF EnvironmentOk
  <2>3. \A i \in DOMAIN body.specs : ~body.specs[i].padded
    BY <2>2
  <2> QED
    BY <1>2, <2>2, <2>3 DEF Storable, SatisfiesChecks
<1> QED
  BY <1>1, <1>2 DEF ConvertedBodiesAreAccepted

-----------------------------------------------------------------------------
(* The invariant. *)

\* The process's own variables.
ProcessTyped ==
    /\ pc \in {"start", "post", "answered", "done"}
    /\ answer \in Answers \cup {None}
    /\ exit \in {None, 0, 1}
    /\ attempt \in 1 .. MaxAttempts
    /\ rows \subseteq [attempt: 1 .. MaxAttempts, status: {"passed", "failed", None}]
    /\ silent \subseteq 1 .. MaxAttempts

CliInv ==
    /\ ProcessTyped
    /\ BodyInv
    /\ OutcomeInv
    /\ VerdictSurvivesUpload
    /\ ExitTellsOutcome
    /\ RetryDuplicatesOnlySilentRuns

LEMMA CliInit == Init => CliInv
<1> USE Attempts
<1> SUFFICES ASSUME Init
             PROVE  CliInv
  OBVIOUS
<1>1. ProcessTyped
  BY DEF Init, ProcessTyped
<1>2. BodyInv /\ OutcomeInv
  BY NoneIsNoWord DEF Init, BodyInv, OutcomeInv, Row, Answers
<1>3. VerdictSurvivesUpload /\ ExitTellsOutcome /\ RetryDuplicatesOnlySilentRuns
  BY DEF Init, VerdictSurvivesUpload, ExitTellsOutcome, RetryDuplicatesOnlySilentRuns
<1> QED
  BY <1>1, <1>2, <1>3 DEF CliInv

\* A process that has not asked the API, or has its answer.
LEMMA LocalStep ==
  ASSUME CliInv, Prepare \/ FileError \/ Finish
  PROVE  CliInv'
<1> USE DEF CliInv
<1>1. UNCHANGED <<call, answer, attempt, rows, silent>>
  BY DEF Prepare, FileError, Finish
<1>2. ProcessTyped'
  <2>1. pc' \in {"post", "done"} /\ exit' \in {None, 0, 1}
    BY DEF ProcessTyped, Prepare, FileError, Finish, Exit
  <2> QED
    BY <1>1, <2>1 DEF ProcessTyped
<1>3. BodyInv'
  <2>1. CASE Prepare \/ FileError
    BY <2>1, NoneIsNoWord DEF Answers, Prepare, FileError, Exit, BodyInv
  <2>2. CASE Finish
    BY <1>1, <2>2 DEF Finish, Exit, BodyInv, Accepted, IsTestRun
  <2> QED
    BY <2>1, <2>2
<1>4. Row(attempt)' = Row(attempt)
  BY <1>1 DEF Row
<1>5. OutcomeInv'
  <2>1. pc' = "post" => pc = "start"
    BY DEF Prepare, FileError, Finish, Exit
  <2>2. pc' # "answered" /\ pc' # "start"
    BY DEF Prepare, FileError, Finish, Exit
  <2>3. pc' = "done" => exit' \in {0, 1}
    BY DEF Prepare, FileError, Finish, Exit
  <2> QED
    BY <1>1, <1>4, <2>1, <2>2, <2>3 DEF OutcomeInv, Row
<1>6. VerdictSurvivesUpload' /\ RetryDuplicatesOnlySilentRuns'
  BY <1>1 DEF VerdictSurvivesUpload, RetryDuplicatesOnlySilentRuns, IsTestRun
<1>7. ExitTellsOutcome'
  <2>1. CASE Prepare \/ FileError
    <3>1. Row(attempt) = {}
      BY <2>1 DEF Prepare, FileError, OutcomeInv
    <3>2. pc' = "done" /\ exit' = 0 => ~call.upload
      BY <2>1 DEF Prepare, FileError, Exit
    <3> QED
      BY <1>1, <1>4, <3>1, <3>2 DEF ExitTellsOutcome
  <2>2. CASE Finish
    <3>1. /\ answer # "200" => Row(attempt) = {} \/ attempt \in silent
          /\ answer = "200" => Row(attempt) # {}
          /\ answer \in Answers
      BY <2>2 DEF Finish, OutcomeInv, ProcessTyped
    <3>2. /\ exit' = 0 => answer # "broken" /\ ~StatusFails(answer)
          /\ exit' = 1 => answer = "broken" \/ StatusFails(answer)
      BY <2>2 DEF Finish, Exit
    <3>3. /\ exit' = 0 => IF call.command = "coverage" THEN answer # "broken"
                          ELSE answer = "200"
          /\ exit' = 1 => answer # "200"
      BY <3>1, <3>2 DEF StatusFails, Answers
    <3> QED
      BY <1>1, <1>4, <3>1, <3>3 DEF ExitTellsOutcome
  <2> QED
    BY <2>1, <2>2
<1> QED
  BY <1>2, <1>3, <1>5, <1>6, <1>7

\* The request, answered or not.
LEMMA RequestStep ==
  ASSUME CliInv, ServerAnswers \/ StoredSilently \/ TransportFails
  PROVE  CliInv'
<1> USE DEF CliInv
<1>1. /\ pc = "post" /\ pc' = "answered" /\ answer' \in Answers
      /\ UNCHANGED <<call, body, exit, attempt>>
      /\ attempt \in 1 .. MaxAttempts
      /\ answer' = "400" => ~Accepted
  BY DEF ServerAnswers, StoredSilently, TransportFails, Answered, ProcessTyped, Answers
<1>2. \/ /\ Storable /\ rows' = rows \cup {[attempt |-> attempt, status |-> StoredStatus]}
         /\ answer' = "200" /\ silent' = silent
      \/ /\ Storable /\ rows' = rows \cup {[attempt |-> attempt, status |-> StoredStatus]}
         /\ answer' # "200" /\ silent' = silent \cup {attempt}
      \/ rows' = rows /\ silent' = silent /\ answer' # "200"
  BY DEF ServerAnswers, StoredSilently, TransportFails, Answered, Store
<1>3. /\ StoredStatus \in {"passed", "failed", None}
      /\ Storable /\ IsTestRun => (StoredStatus = "failed" <=> ReportFailed(call))
  BY <1>1, StatusStored
<1>4. Row(attempt) = {} /\ \A row \in rows : row.attempt <= attempt
  BY <1>1 DEF OutcomeInv
<1>5. ProcessTyped'
  <2>1. [attempt |-> attempt, status |-> StoredStatus]
          \in [attempt: 1 .. MaxAttempts, status: {"passed", "failed", None}]
    BY <1>1, <1>3
  <2>2. rows' \subseteq [attempt: 1 .. MaxAttempts, status: {"passed", "failed", None}]
    BY <1>2, <2>1 DEF ProcessTyped
  <2>3. silent' \subseteq 1 .. MaxAttempts
    BY <1>1, <1>2 DEF ProcessTyped
  <2> QED
    BY <1>1, <2>2, <2>3 DEF ProcessTyped
<1>6. BodyInv'
  BY <1>1 DEF BodyInv, Accepted, IsTestRun
<1>7. OutcomeInv'
  <2>1. \A row \in rows' : row.attempt <= attempt
    <3>1. attempt <= attempt
      BY <1>1
    <3> QED
      BY <1>2, <1>4, <3>1
  <2>2. answer' = "200" => Row(attempt)' # {}
    <3> SUFFICES ASSUME answer' = "200"
                 PROVE  Row(attempt)' # {}
      OBVIOUS
    <3> DEFINE new == [attempt |-> attempt, status |-> StoredStatus]
    <3>1. new \in rows' /\ new.attempt = attempt
      BY <1>2
    <3> HIDE DEF new
    <3> QED
      BY <1>1, <3>1 DEF Row
  <2>3. answer' # "200" => Row(attempt)' = {} \/ attempt \in silent'
    BY <1>1, <1>2, <1>4 DEF Row
  <2>4. answer' # None
    BY <1>1, NoneIsNoWord
  <2> QED
    BY <1>1, <2>1, <2>2, <2>3, <2>4 DEF OutcomeInv
<1>8. VerdictSurvivesUpload'
  BY <1>1, <1>2, <1>3 DEF VerdictSurvivesUpload, IsTestRun
<1>9. ExitTellsOutcome'
  BY <1>1 DEF ExitTellsOutcome
<1>10. RetryDuplicatesOnlySilentRuns'
  BY <1>1, <1>2 DEF RetryDuplicatesOnlySilentRuns
<1> QED
  BY <1>5, <1>6, <1>7, <1>8, <1>9, <1>10

\* The job runs the command again.
LEMMA RetryStep ==
  ASSUME CliInv, Retry
  PROVE  CliInv'
<1> USE DEF CliInv
<1>1. /\ pc = "done" /\ pc' = "start" /\ exit = 1
      /\ attempt \in Nat /\ attempt' = attempt + 1 /\ attempt' \in 1 .. MaxAttempts
      /\ body' = None /\ answer' = None /\ exit' = None
      /\ UNCHANGED <<call, rows, silent>>
  BY Attempts DEF Retry, RunAgain, ProcessTyped, OutcomeInv
<1>2. \A row \in rows : row.attempt <= attempt /\ row.attempt \in Nat
  BY DEF OutcomeInv, ProcessTyped
<1>3. ProcessTyped'
  BY <1>1 DEF ProcessTyped
<1>4. BodyInv'
  BY <1>1, NoneIsNoWord DEF BodyInv, Answers
<1>5. OutcomeInv'
  <2>1. Row(attempt)' = {}
    BY <1>1, <1>2 DEF Row
  <2> QED
    BY <1>1, <1>2, <2>1 DEF OutcomeInv
<1>6. VerdictSurvivesUpload' /\ ExitTellsOutcome'
  BY <1>1 DEF VerdictSurvivesUpload, ExitTellsOutcome, IsTestRun
<1>7. RetryDuplicatesOnlySilentRuns'
  <2>1. \A row \in rows : row.attempt = attempt => row.attempt \in silent
    BY <1>1 DEF ExitTellsOutcome, Row
  <2> QED
    BY <1>1, <2>1 DEF RetryDuplicatesOnlySilentRuns
<1> QED
  BY <1>3, <1>4, <1>5, <1>6, <1>7

LEMMA CliStep == CliInv /\ [Next]_vars => CliInv'
<1> SUFFICES ASSUME CliInv, [Next]_vars
             PROVE  CliInv'
  OBVIOUS
<1>1. CASE Prepare \/ FileError \/ Finish
  BY <1>1, LocalStep
<1>2. CASE ServerAnswers \/ StoredSilently \/ TransportFails
  BY <1>2, RequestStep
<1>3. CASE Retry
  BY <1>3, RetryStep
<1>4. CASE UNCHANGED vars
  BY <1>4 DEF vars, CliInv, ProcessTyped, BodyInv, OutcomeInv, VerdictSurvivesUpload,
              ExitTellsOutcome, RetryDuplicatesOnlySilentRuns, Row, IsTestRun, Accepted
<1> QED
  BY <1>1, <1>2, <1>3, <1>4 DEF Next, JobEnds

LEMMA CliInvariant == Spec => []CliInv
BY CliInit, CliStep, PTL DEF Spec

-----------------------------------------------------------------------------
(* Theorems. *)

\* Whatever a command is given and however often the job runs it: its variables
\* and both kinds of body have their types, and what it posts is what the report
\* of its call converts to.
THEOREM CliTypes == Spec => [](TypeOK /\ BodyInv)
<1>1. CliInv => TypeOK /\ BodyInv
  BY BodyHasTypes DEF CliInv, TypeOK, ProcessTyped, BodyTyped
<1> QED
  BY <1>1, CliInvariant, PTL

\* Conversion, validation and counting turn no verdict around: for reports of any
\* length in the formats of the three frameworks, a stored run failed exactly when
\* the framework reported a failure.
THEOREM VerdictReachesDatabase == Spec => []VerdictSurvivesUpload
<1>1. CliInv => VerdictSurvivesUpload
  BY DEF CliInv
<1> QED
  BY <1>1, CliInvariant, PTL

\* The exit code of a command tells whether its run was stored, but for answers
\* that were lost.
THEOREM ExitCodeTellsOutcome == Spec => []ExitTellsOutcome
<1>1. CliInv => ExitTellsOutcome
  BY DEF CliInv
<1> QED
  BY <1>1, CliInvariant, PTL

\* A job that runs a failed command again, any number of times, stores one more run
\* only after one that was stored without an answer.
THEOREM RetriesDuplicateSilentRuns == Spec => []RetryDuplicatesOnlySilentRuns
<1>1. CliInv => RetryDuplicatesOnlySilentRuns
  BY DEF CliInv
<1> QED
  BY <1>1, CliInvariant, PTL

\* The API refuses nothing for what a converter wrote: not a percentage that was
\* summed and rounded, not a package twice, not a spec type or an environment.
THEOREM ConversionsAreAccepted == Spec => []ConvertedBodiesAreAccepted
<1>1. CliInv => ConvertedBodiesAreAccepted
  BY BodyAccepted DEF CliInv
<1> QED
  BY <1>1, CliInvariant, PTL
=============================================================================
