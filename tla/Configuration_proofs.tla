------------------------ MODULE Configuration_proofs ------------------------
(***************************************************************************)
(* Theorems about Configuration, for every family of inputs that the API   *)
(* server admits and every environment the operator may be started with.   *)
(*                                                                         *)
(* The lists, texts and paths of an input are of any length.  What the     *)
(* recursive functions over them compute is proved by induction over the   *)
(* positions (Induction), and that they exist by Recursion.                *)
(***************************************************************************)
EXTENDS Configuration, SequenceTheorems, FiniteSetTheorems, NaturalsInduction,
        WellFoundedInduction, TLAPS

-----------------------------------------------------------------------------
(* Induction. *)

\* A set of naturals has a least element: the well-foundedness of < on Nat,
\* which the library states, in the form the proofs below use.
LEMMA LeastElement ==
  ASSUME NEW S \in SUBSET Nat, S # {}
  PROVE  \E m \in S : \A n \in S : m <= n
<1> DEFINE R == { p \in Nat \X Nat : p[1] < p[2] }
<1>1. OpToRel(<, Nat) = R
  BY Zenon DEF OpToRel
<1>2. IsWellFoundedOn(R, Nat)
  BY <1>1, NatLessThanWellFounded, Zenon
<1> HIDE DEF R
<1>3. PICK m \in S : \A n \in S : ~(<<n, m>> \in R)
  BY <1>2, WFMin, Zenon
<1>4. \A n \in S : ~(n < m)
  BY <1>3 DEF R
<1> QED
  BY <1>4

\* A set of naturals with an upper bound has a greatest element.
LEMMA GreatestElement ==
  ASSUME NEW b \in Nat, NEW S \in SUBSET (0 .. b), S # {}
  PROVE  \E m \in S : \A n \in S : n <= m
<1> DEFINE Distances == { d \in Nat : b - d \in S }
<1>1. Distances # {}
  <2>1. PICK n \in S : TRUE
    OBVIOUS
  <2>2. b - n \in Nat /\ b - (b - n) = n
    OBVIOUS
  <2> QED
    BY <2>1, <2>2
<1>2. PICK d \in Distances : \A e \in Distances : d <= e
  BY <1>1, LeastElement
<1>3. ASSUME NEW n \in S PROVE n <= b - d
  <2>1. b - n \in Nat /\ b - (b - n) = n
    OBVIOUS
  <2>2. b - n \in Distances
    BY <2>1
  <2> QED
    BY <1>2, <2>2
<1> QED
  BY <1>3, <1>2

\* Induction up to n; the predicate is given as a set.
LEMMA Induction ==
  ASSUME NEW n \in Nat, NEW Good,
         0 \in Good,
         \A i \in 1 .. n : i - 1 \in Good => i \in Good
  PROVE  \A i \in 0 .. n : i \in Good
<1> DEFINE Bad == { i \in 0 .. n : i \notin Good }
<1> SUFFICES ASSUME Bad # {} PROVE FALSE
  OBVIOUS
<1>0. Bad \in SUBSET Nat
  OBVIOUS
<1>1. PICK m \in Bad : \A k \in Bad : m <= k
  <2> HIDE DEF Bad
  <2> QED BY <1>0, LeastElement
<1>2. m \in 1 .. n /\ m - 1 \in 0 .. n
  OBVIOUS
<1>3. m - 1 \in Good
  BY <1>1, <1>2
<1> QED
  BY <1>2, <1>3

\* f starts with first, and step leads from each value to the next.
Unfolds(f, n, T, first, step) ==
  /\ f \in [0 .. n -> T]
  /\ f[0] = first
  /\ \A i \in 1 .. n : f[i] = step[i][f[i - 1]]

\* A function that is defined by recursion over 0 .. n exists.
LEMMA Recursion ==
  ASSUME NEW n \in Nat, NEW T, NEW first \in T, NEW step \in [1 .. n -> [T -> T]]
  PROVE  \E f : Unfolds(f, n, T, first, step)
<1> DEFINE Good == { m \in 0 .. n : \E f : Unfolds(f, m, T, first, step) }
<1>1. 0 \in Good
  <2>1. Unfolds([i \in 0 .. 0 |-> first], 0, T, first, step)
    BY DEF Unfolds
  <2> QED
    BY <2>1
<1>2. \A m \in 1 .. n : m - 1 \in Good => m \in Good
  <2> SUFFICES ASSUME NEW m \in 1 .. n, m - 1 \in Good PROVE m \in Good
    OBVIOUS
  <2>1. PICK f : Unfolds(f, m - 1, T, first, step)
    OBVIOUS
  <2> DEFINE g == [i \in 0 .. m |-> IF i = m THEN step[m][f[m - 1]] ELSE f[i]]
  <2>2. step[m][f[m - 1]] \in T
    BY <2>1 DEF Unfolds
  <2>3. g \in [0 .. m -> T] /\ g[0] = first
    BY <2>1, <2>2 DEF Unfolds
  <2>4. ASSUME NEW i \in 1 .. m PROVE g[i] = step[i][g[i - 1]]
    BY <2>1 DEF Unfolds
  <2>5. Unfolds(g, m, T, first, step)
    BY <2>3, <2>4 DEF Unfolds
  <2> HIDE DEF g
  <2> QED
    BY <2>5
<1>3. n \in Good
  <2> HIDE DEF Good
  <2>1. \A i \in 0 .. n : i \in Good
    BY <1>1, <1>2, Induction
  <2> QED
    BY <2>1
<1> QED
  BY <1>3

-----------------------------------------------------------------------------
(* Lists. *)

\* Filtered satisfies its own definition.
LEMMA FilteredUnfolds ==
  ASSUME NEW T, NEW s \in Seq(T), NEW I
  PROVE  /\ Filtered(s, I) \in [0 .. Len(s) -> Seq(T)]
         /\ Filtered(s, I)[0] = <<>>
         /\ \A n \in 1 .. Len(s) :
              Filtered(s, I)[n] = IF n \in I THEN Append(Filtered(s, I)[n - 1], s[n])
                              ELSE Filtered(s, I)[n - 1]
<1> DEFINE step == [n \in 1 .. Len(s) |->
                      [kept \in Seq(T) |-> IF n \in I THEN Append(kept, s[n]) ELSE kept]]
           Defined(f) == f = [n \in 0 .. Len(s) |->
                                IF n = 0 THEN <<>>
                                ELSE IF n \in I THEN Append(f[n - 1], s[n]) ELSE f[n - 1]]
<1>1. Len(s) \in Nat /\ <<>> \in Seq(T) /\ step \in [1 .. Len(s) -> [Seq(T) -> Seq(T)]]
  OBVIOUS
<1>2. PICK f : Unfolds(f, Len(s), Seq(T), <<>>, step)
  <2> HIDE DEF step
  <2> QED BY <1>1, Recursion, Zenon
<1>3. Defined(f)
  <2>1. f \in [0 .. Len(s) -> Seq(T)] /\ f[0] = <<>>
    BY <1>2 DEF Unfolds
  <2>2. ASSUME NEW n \in 1 .. Len(s)
        PROVE  f[n] = IF n \in I THEN Append(f[n - 1], s[n]) ELSE f[n - 1]
    <3>1. f[n] = step[n][f[n - 1]]
      BY <1>2 DEF Unfolds
    <3>2. f[n - 1] \in Seq(T)
      BY <2>1
    <3> QED
      BY <3>1, <3>2
  <2> DEFINE value(n) == IF n = 0 THEN <<>>
                         ELSE IF n \in I THEN Append(f[n - 1], s[n]) ELSE f[n - 1]
  <2>3. ASSUME NEW n \in 0 .. Len(s) PROVE f[n] = value(n)
    <3>1. CASE n = 0
      BY <2>1, <3>1
    <3>2. CASE n \in 1 .. Len(s)
      BY <2>2, <3>2
    <3> QED
      BY <3>1, <3>2
  <2>4. f = [n \in 0 .. Len(s) |-> value(n)]
    <3> HIDE DEF value
    <3> QED BY <2>1, <2>3
  <2> QED
    BY <2>4
<1>4. Filtered(s, I) = CHOOSE g : Defined(g)
  BY DEF Filtered
<1>5. Defined(Filtered(s, I))
  <2> HIDE DEF Defined
  <2> QED BY <1>3, <1>4
<1>6. Filtered(s, I)[0] = <<>>
  BY <1>5
<1>7. ASSUME NEW n \in 1 .. Len(s)
      PROVE  Filtered(s, I)[n] = IF n \in I THEN Append(Filtered(s, I)[n - 1], s[n])
                             ELSE Filtered(s, I)[n - 1]
  <2>1. n \in 0 .. Len(s) /\ n # 0
    OBVIOUS
  <2> QED
    BY <1>5, <2>1
<1> HIDE DEF step, Defined
<1> DEFINE Good == { n \in 0 .. Len(s) : Filtered(s, I)[n] \in Seq(T) }
<1>8. \A n \in 0 .. Len(s) : n \in Good
  <2>1. 0 \in Good
    <3>1. Filtered(s, I)[0] \in Seq(T) /\ 0 \in 0 .. Len(s)
      BY <1>6
    <3> QED
      BY <3>1
  <2>2. ASSUME NEW n \in 1 .. Len(s), n - 1 \in Good PROVE n \in Good
    <3>1. Filtered(s, I)[n - 1] \in Seq(T) /\ s[n] \in T /\ n \in 0 .. Len(s)
      BY <2>2
    <3>2. Append(Filtered(s, I)[n - 1], s[n]) \in Seq(T)
      BY <3>1
    <3> QED
      BY <1>7, <3>1, <3>2
  <2> HIDE DEF Good
  <2> QED BY <1>1, <2>1, <2>2, Induction
<1>9. Filtered(s, I) \in [0 .. Len(s) -> Seq(T)]
  BY <1>5, <1>8 DEF Defined
<1> QED
  BY <1>6, <1>7, <1>9

LEMMA SubsequenceType ==
  ASSUME NEW T, NEW s \in Seq(T), NEW I
  PROVE  Subsequence(s, I) \in Seq(T)
<1>1. Len(s) \in 0 .. Len(s)
  OBVIOUS
<1> QED
  BY <1>1, FilteredUnfolds DEF Subsequence

\* f lists the positions in I of the first n elements of s, in order, and kept
\* holds the elements there.
Picks(f, s, I, n, kept) ==
  /\ f \in [1 .. Len(kept) -> I \cap (1 .. n)]
  /\ \A k \in 1 .. Len(kept) : kept[k] = s[f[k]]
  /\ \A i \in I \cap (1 .. n) : \E k \in 1 .. Len(kept) : f[k] = i
  /\ \A k, l \in 1 .. Len(kept) : k < l => f[k] < f[l]

\* A subsequence holds the elements at the positions, each once and in order.
LEMMA SubsequencePicks ==
  ASSUME NEW T, NEW s \in Seq(T), NEW I
  PROVE  \E f : Picks(f, s, I, Len(s), Subsequence(s, I))
<1> DEFINE kept == Filtered(s, I)
           Good == { n \in 0 .. Len(s) : \E f : Picks(f, s, I, n, kept[n]) }
<1>1. /\ kept \in [0 .. Len(s) -> Seq(T)]
      /\ kept[0] = <<>>
      /\ \A n \in 1 .. Len(s) :
           kept[n] = IF n \in I THEN Append(kept[n - 1], s[n]) ELSE kept[n - 1]
  BY FilteredUnfolds
<1> HIDE DEF kept
<1>2. 0 \in Good
  <2>1. Picks(<<>>, s, I, 0, <<>>)
    BY DEF Picks
  <2>2. \E f : Picks(f, s, I, 0, kept[0])
    BY <2>1, <1>1
  <2> QED
    BY <2>2
<1>3. \A n \in 1 .. Len(s) : n - 1 \in Good => n \in Good
  <2> SUFFICES ASSUME NEW n \in 1 .. Len(s), n - 1 \in Good PROVE n \in Good
    OBVIOUS
  <2>1. PICK f : Picks(f, s, I, n - 1, kept[n - 1])
    OBVIOUS
  <2> DEFINE before == kept[n - 1]
  <2>2. before \in Seq(T) /\ Len(before) \in Nat /\ s[n] \in T /\ n \in Nat
    BY <1>1
  <2>3. CASE n \in I
    <3> DEFINE m == Len(before) + 1
               g == [k \in 1 .. m |-> IF k = m THEN n ELSE f[k]]
    <3>1. kept[n] = Append(before, s[n])
      BY <1>1, <2>3
    <3> HIDE DEF before
    <3>2. Picks(f, s, I, n - 1, before)
      BY <2>1 DEF before
    <3>3. /\ Len(Append(before, s[n])) = m
          /\ Append(before, s[n])[m] = s[n]
          /\ \A k \in 1 .. Len(before) : Append(before, s[n])[k] = before[k]
      BY <2>2, AppendProperties
    <3>4. Picks(g, s, I, n, Append(before, s[n]))
      <4>1. g \in [1 .. m -> I \cap (1 .. n)]
        BY <3>2, <2>2, <2>3 DEF Picks
      <4>2. ASSUME NEW k \in 1 .. m PROVE Append(before, s[n])[k] = s[g[k]]
        BY <3>2, <3>3, <2>2 DEF Picks
      <4>3. ASSUME NEW i \in I \cap (1 .. n) PROVE \E k \in 1 .. m : g[k] = i
        <5>1. CASE i = n
          <6>1. m \in 1 .. m /\ g[m] = n
            BY <2>2
          <6> QED
            BY <5>1, <6>1
        <5>2. CASE i # n
          <6>1. i \in I \cap (1 .. n - 1)
            BY <5>2
          <6>2. PICK k \in 1 .. Len(before) : f[k] = i
            BY <6>1, <3>2 DEF Picks
          <6>3. k \in 1 .. m /\ g[k] = f[k]
            BY <2>2
          <6> QED
            BY <6>2, <6>3
        <5> QED
          BY <5>1, <5>2
      <4>4. ASSUME NEW k \in 1 .. m, NEW l \in 1 .. m, k < l PROVE g[k] < g[l]
        <5>1. k \in 1 .. Len(before) /\ k # m
          BY <2>2, <4>4
        <5>2. g[k] = f[k] /\ f[k] \in 1 .. n - 1
          BY <5>1, <3>2 DEF Picks
        <5>3. CASE l = m
          BY <5>2, <5>3, <2>2
        <5>4. CASE l # m
          <6>1. l \in 1 .. Len(before) /\ g[l] = f[l]
            BY <5>4, <2>2
          <6> QED
            BY <5>1, <5>2, <6>1, <3>2, <4>4 DEF Picks
        <5> QED
          BY <5>3, <5>4
      <4> HIDE DEF g, m
      <4> QED
        BY <3>3, <4>1, <4>2, <4>3, <4>4 DEF Picks
    <3>5. \E h : Picks(h, s, I, n, kept[n])
      BY <3>1, <3>4
    <3> QED
      BY <3>5
  <2>4. CASE n \notin I
    <3>1. kept[n] = before
      BY <1>1, <2>4
    <3>2. I \cap (1 .. n - 1) = I \cap (1 .. n)
      BY <2>4
    <3>3. Picks(f, s, I, n, kept[n])
      BY <2>1, <3>1, <3>2 DEF Picks
    <3> QED
      BY <3>3
  <2> QED
    BY <2>3, <2>4
<1>4. Len(s) \in Good
  <2> HIDE DEF Good
  <2>1. Len(s) \in Nat /\ Len(s) \in 0 .. Len(s)
    OBVIOUS
  <2>2. \A n \in 0 .. Len(s) : n \in Good
    BY <1>2, <1>3, <2>1, Induction
  <2> QED
    BY <2>1, <2>2
<1> QED
  BY <1>4 DEF kept, Subsequence

\* What FirstProblem returns: None if and only if nothing is wrong, and
\* otherwise the finding before which nothing is.
LEMMA FirstProblemFinds ==
  ASSUME NEW findings, NEW n \in Nat, DOMAIN findings = 1 .. n
  PROVE  /\ FirstProblem(findings) = None <=> \A i \in 1 .. n : findings[i] = None
         /\ FirstProblem(findings) # None =>
              \E i \in 1 .. n : /\ findings[i] = FirstProblem(findings)
                                /\ \A j \in 1 .. i - 1 : findings[j] = None
<1> DEFINE found == { i \in DOMAIN findings : findings[i] # None }
           Least(i) == findings[i] # None /\ \A j \in 1 .. i - 1 : findings[j] = None
           first == CHOOSE i \in DOMAIN findings : Least(i)
<1>1. CASE found = {}
  BY <1>1 DEF FirstProblem
<1>2. CASE found # {}
  <2>1. \E i \in found : \A j \in found : i <= j
    <3>1. found \in SUBSET Nat
      OBVIOUS
    <3> HIDE DEF found
    <3> QED BY <1>2, <3>1, LeastElement
  <2>2. \E i \in DOMAIN findings : Least(i)
    <3>1. PICK i \in found : \A j \in found : i <= j
      BY <2>1
    <3>2. ASSUME NEW j \in 1 .. i - 1 PROVE findings[j] = None
      <4>1. j \in DOMAIN findings /\ ~(i <= j)
        OBVIOUS
      <4> QED BY <3>1, <4>1
    <3> QED BY <3>1, <3>2
  <2>3. first \in 1 .. n /\ Least(first)
    BY <2>2
  <2>4. FirstProblem(findings) = findings[first]
    BY <1>2 DEF FirstProblem
  <2> HIDE DEF first
  <2> QED
    BY <2>3, <2>4
<1> QED
  BY <1>1, <1>2

\* The same, with what the findings may be.
LEMMA FirstProblemType ==
  ASSUME NEW findings, NEW n \in Nat, DOMAIN findings = 1 .. n,
         NEW T, \A i \in DOMAIN findings : findings[i] \in OrNone(T)
  PROVE  /\ FirstProblem(findings) \in OrNone(T)
         /\ FirstProblem(findings) = None <=> \A i \in 1 .. n : findings[i] = None
  BY FirstProblemFinds DEF OrNone

-----------------------------------------------------------------------------
(* Evaluation. *)

InputOK ==
  /\ spec \in Workspaces /\ task \in Tasks
  /\ Readable(env) /\ message \in Texts

IInv == InputOK /\ out \in {None, Results}

\* What is computed is computed from an input that may occur, and only once.
LEMMA Evaluation == Spec => []IInv
<1>1. Init => IInv
  BY InputAssumption DEF Init, IInv, InputOK, spec, task, env, message
<1>2. IInv /\ [Evaluate]_vars => IInv'
  <2> SUFFICES ASSUME IInv, [Evaluate]_vars PROVE IInv'
    OBVIOUS
  <2>1. input' = input
    BY DEF Evaluate, vars
  <2>2. Results' = Results
    BY <2>1 DEF Results, Verdict, Resolution, Admission, Pin, Launches,
               spec, present, task, env, message
  <2>3. InputOK'
    BY <2>1 DEF IInv, InputOK, spec, task, env, message
  <2>4. out' \in {None, Results}
    BY DEF IInv, Evaluate, vars
  <2> QED
    BY <2>2, <2>3, <2>4 DEF IInv
<1> QED
  BY <1>1, <1>2, PTL DEF Spec

\* What a state that is done shows.
LEMMA Outcome ==
  ASSUME IInv, Done
  PROVE  /\ out.verdict = Verdict /\ out.resolution = Resolution
         /\ out.admission = Admission
         /\ out.settings = FromEnv(env) /\ out.problem = Validate(FromEnv(env))
         /\ out.launches = Launches
         /\ Launches => /\ out.pin = Pin
                        /\ out.children = Plan(task, Pin, FromEnv(env))
         /\ out.events = {PhaseChanged("Provisioning", "Running", message),
                          TaskFailed("WorkspaceUnresolved", message),
                          UnattendedAdmitted(message), ReconcileError(message)}
<1>1. out = Results
  BY DEF IInv, Done
<1> QED
  BY <1>1 DEF Results

LEMMA WorkspaceShape ==
  ASSUME NEW w \in Workspaces
  PROVE  /\ w.sources \in Seq(Source(STRING, [absolute : BOOLEAN, segs : Seq(STRING)]))
         /\ w.providers \in Seq(Providers)
         /\ w.defaultProvider \in OrNone(STRING)
         /\ w.env \in Seq(EnvEntry(STRING, STRING))
         /\ w.runtimeClass \in OrNone(STRING)
         /\ w.egress \in OrNone(Seq(EgressRule(Cidr, Seq(Int))))
         /\ w.agentPolicy \in OrNone(AnyPolicy)
         /\ w = [sources |-> w.sources, providers |-> w.providers,
                 defaultProvider |-> w.defaultProvider, env |-> w.env,
                 runtimeClass |-> w.runtimeClass, egress |-> w.egress,
                 agentPolicy |-> w.agentPolicy]
  BY DEF Workspaces, WorkspaceSpec

LEMMA TaskShape ==
  ASSUME NEW t \in Tasks
  PROVE  /\ t.name \in TaskNames /\ t.namespace = "ns" /\ t.uid = "uid"
         /\ t.providerRef \in OrNone(STRING)
         /\ t.posture \in OrNone({"supervised", "unattended"})
         /\ t.model \in OrNone([text : STRING, blank : BOOLEAN])
         /\ t.routerConfigRef \in OrNone(STRING)
         /\ t.state \in OrNone(StateSpec(STRING))
         /\ t.runtimeClass \in OrNone(STRING)
         /\ t = [name |-> t.name, namespace |-> t.namespace, uid |-> t.uid,
                 providerRef |-> t.providerRef, posture |-> t.posture,
                 model |-> t.model, routerConfigRef |-> t.routerConfigRef,
                 state |-> t.state, runtimeClass |-> t.runtimeClass]
  BY DEF Tasks, TaskSpec

LEMMA ProviderShape ==
  ASSUME NEW p \in Providers
  PROVE  /\ p.name \in STRING /\ p.kind \in Kinds /\ p.baseUrl \in OrNone(STRING)
         /\ p.model \in OrNone(STRING)
         /\ p.credentialsRef \in OrNone(SecretKeys(STRING, STRING))
         /\ p = [name |-> p.name, kind |-> p.kind, baseUrl |-> p.baseUrl,
                 model |-> p.model, credentialsRef |-> p.credentialsRef]
  BY DEF Providers, Provider

-----------------------------------------------------------------------------
(* The verdict on a Workspace. *)

\* The five passes, each with the first problem it finds.
Passes(w, available) ==
  << FirstProblem([i \in DOMAIN w.sources |-> SourceProblem(w.sources, i)]),
     FirstProblem(EgressProblems(w.egress)),
     FirstProblem([i \in DOMAIN w.providers |-> DuplicateProblem(w.providers, i)]),
     DefaultProblem(w),
     FirstProblem([i \in DOMAIN w.providers |->
                     CredentialProblem(w.providers[i], available)]) >>

\* The verdict is the first problem that a pass finds.
LEMMA VerdictIs ==
  ASSUME NEW w, NEW available
  PROVE  LET found == Passes(w, available) IN
         ValidateWorkspace(w, available) =
           IF found[1] # None THEN Failed(found[1])
           ELSE IF found[2] # None THEN Failed(found[2])
           ELSE IF found[3] # None THEN Failed(found[3])
           ELSE IF found[4] # None THEN Failed(found[4])
           ELSE IF found[5] # None THEN Failed(found[5])
           ELSE [phase |-> "Ready", message |-> None]
BY DEF ValidateWorkspace, Passes

\* What each of the five passes finds.
LEMMA PassFinds ==
  ASSUME NEW w \in Workspaces, NEW available
  PROVE  LET found == Passes(w, available) IN
         /\ DOMAIN found = 1 .. 5
         /\ found[1] \in OrNone({"source outside the root", "sources share a path"})
         /\ found[1] = None <=>
              \A i \in DOMAIN w.sources : SourceProblem(w.sources, i) = None
         /\ found[2] \in OrNone({"missing prefix", "not an IP address",
                                 "prefix out of range", "port out of range"})
         /\ found[2] = None /\ w.egress # None =>
              \A i \in DOMAIN w.egress : RuleProblem(w.egress[i]) = None
         /\ found[3] \in OrNone({"duplicate provider"})
         /\ found[3] = None <=>
              \A i, j \in DOMAIN w.providers :
                i # j => w.providers[i].name # w.providers[j].name
         /\ found[4] = DefaultProblem(w)
         /\ found[5] \in OrNone({"credential not found"})
         /\ found[5] = None <=>
              \A i \in DOMAIN w.providers :
                w.providers[i].credentialsRef \in available \cup {None}
<1> DEFINE source == [i \in DOMAIN w.sources |-> SourceProblem(w.sources, i)]
           egress == EgressProblems(w.egress)
           duplicate == [i \in DOMAIN w.providers |-> DuplicateProblem(w.providers, i)]
           credential == [i \in DOMAIN w.providers |->
                            CredentialProblem(w.providers[i], available)]
<1>1. LET found == Passes(w, available) IN
      /\ DOMAIN found = 1 .. 5
      /\ found[1] = FirstProblem(source) /\ found[2] = FirstProblem(egress)
      /\ found[3] = FirstProblem(duplicate) /\ found[4] = DefaultProblem(w)
      /\ found[5] = FirstProblem(credential)
  BY DEF Passes
<1>2. /\ Len(w.sources) \in Nat /\ DOMAIN source = 1 .. Len(w.sources)
      /\ Len(w.providers) \in Nat /\ DOMAIN duplicate = 1 .. Len(w.providers)
      /\ DOMAIN credential = 1 .. Len(w.providers)
      /\ DOMAIN w.sources = 1 .. Len(w.sources)
      /\ DOMAIN w.providers = 1 .. Len(w.providers)
  BY WorkspaceShape
<1>3. "duplicate provider" # None /\ "credential not found" # None
  BY NoneAssumption DEF Literals
<1>4. /\ FirstProblem(source) \in OrNone({"source outside the root", "sources share a path"})
      /\ FirstProblem(source) = None <=>
           \A i \in DOMAIN w.sources : SourceProblem(w.sources, i) = None
  <2>1. \A i \in DOMAIN source : source[i] = SourceProblem(w.sources, i)
    OBVIOUS
  <2>2. \A i \in DOMAIN source :
          source[i] \in OrNone({"source outside the root", "sources share a path"})
    BY DEF SourceProblem, OrNone
  <2> HIDE DEF source
  <2>3. /\ FirstProblem(source) \in OrNone({"source outside the root", "sources share a path"})
        /\ FirstProblem(source) = None <=> \A i \in 1 .. Len(w.sources) : source[i] = None
    BY <1>2, <2>2, FirstProblemType
  <2> QED
    BY <1>2, <2>1, <2>3
<1>5. /\ FirstProblem(egress) \in OrNone({"missing prefix", "not an IP address",
                                          "prefix out of range", "port out of range"})
      /\ FirstProblem(egress) = None /\ w.egress # None =>
           \A i \in DOMAIN w.egress : RuleProblem(w.egress[i]) = None
  <2>1. \E n \in Nat : DOMAIN egress = 1 .. n
    <3>1. CASE w.egress = None
      <4>1. egress = <<>> /\ 0 \in Nat
        BY <3>1 DEF EgressProblems
      <4> QED
        BY <4>1
    <3>2. CASE w.egress # None
      <4>1. w.egress \in Seq(EgressRule(Cidr, Seq(Int)))
        BY <3>2, WorkspaceShape DEF OrNone
      <4>2. Len(w.egress) \in Nat /\ DOMAIN egress = 1 .. Len(w.egress)
        BY <3>2, <4>1, LenProperties DEF EgressProblems
      <4> QED
        BY <4>2
    <3> QED
      BY <3>1, <3>2
  <2>2. w.egress # None =>
          /\ DOMAIN egress = DOMAIN w.egress
          /\ \A i \in DOMAIN w.egress : egress[i] = RuleProblem(w.egress[i])
    BY DEF EgressProblems
  <2>3. ASSUME NEW rule
        PROVE  RuleProblem(rule) \in OrNone({"missing prefix", "not an IP address",
                                             "prefix out of range", "port out of range"})
    <3>1. CidrProblem(rule.cidr) \in OrNone({"missing prefix", "not an IP address",
                                             "prefix out of range"})
      BY Zenon DEF CidrProblem, OrNone
    <3>2. PortProblem(rule) \in OrNone({"port out of range"})
      <4>1. PortProblem(rule) = "port out of range" \/ PortProblem(rule) = None
        <5> DEFINE bad == \E i \in DOMAIN rule.ports : rule.ports[i] \notin 1 .. 65535
        <5>1. PortProblem(rule) = IF bad THEN "port out of range" ELSE None
          BY DEF PortProblem
        <5> HIDE DEF bad
        <5> QED
          BY <5>1, Zenon
      <4> QED
        BY <4>1, Zenon DEF OrNone
    <3> QED
      BY <3>1, <3>2 DEF RuleProblem, OrNone
  <2>4. \A i \in DOMAIN egress :
          egress[i] \in OrNone({"missing prefix", "not an IP address",
                                "prefix out of range", "port out of range"})
    <3>1. CASE w.egress = None
      <4>1. DOMAIN egress = {}
        BY <3>1 DEF EgressProblems
      <4> QED
        BY <4>1
    <3>2. CASE w.egress # None
      <4> HIDE DEF egress
      <4> QED BY <2>2, <2>3, <3>2
    <3> QED
      BY <3>1, <3>2
  <2> HIDE DEF egress
  <2>5. PICK n \in Nat : DOMAIN egress = 1 .. n
    BY <2>1
  <2>6. /\ FirstProblem(egress) \in OrNone({"missing prefix", "not an IP address",
                                            "prefix out of range", "port out of range"})
        /\ FirstProblem(egress) = None <=> \A i \in 1 .. n : egress[i] = None
    BY <2>4, <2>5, FirstProblemType
  <2> QED
    BY <2>2, <2>5, <2>6
<1>6. /\ FirstProblem(duplicate) \in OrNone({"duplicate provider"})
      /\ FirstProblem(duplicate) = None <=>
           \A i \in DOMAIN w.providers : DuplicateProblem(w.providers, i) = None
  <2>1. \A i \in DOMAIN duplicate : duplicate[i] = DuplicateProblem(w.providers, i)
    OBVIOUS
  <2>2. \A i \in DOMAIN duplicate : duplicate[i] \in OrNone({"duplicate provider"})
    BY DEF DuplicateProblem, OrNone
  <2> HIDE DEF duplicate
  <2>3. /\ FirstProblem(duplicate) \in OrNone({"duplicate provider"})
        /\ FirstProblem(duplicate) = None <=>
             \A i \in 1 .. Len(w.providers) : duplicate[i] = None
    BY <1>2, <2>2, FirstProblemType
  <2> QED
    BY <1>2, <2>1, <2>3
<1>7. (\A i \in DOMAIN w.providers : DuplicateProblem(w.providers, i) = None) <=>
        \A i, j \in DOMAIN w.providers :
          i # j => w.providers[i].name # w.providers[j].name
  <2>1. ASSUME NEW i \in DOMAIN w.providers
        PROVE  DuplicateProblem(w.providers, i) = None <=>
                 \A j \in 1 .. i - 1 : w.providers[j].name # w.providers[i].name
    BY <1>3, Zenon DEF DuplicateProblem
  <2>2. \A i, j \in DOMAIN w.providers : i # j => i \in 1 .. j - 1 \/ j \in 1 .. i - 1
    BY <1>2
  <2>3. \A i \in DOMAIN w.providers : \A j \in 1 .. i - 1 : j \in DOMAIN w.providers /\ j # i
    BY <1>2
  <2> QED
    BY <2>1, <2>2, <2>3
<1>8. /\ FirstProblem(credential) \in OrNone({"credential not found"})
      /\ FirstProblem(credential) = None <=>
           \A i \in DOMAIN w.providers :
             w.providers[i].credentialsRef \in available \cup {None}
  <2>1. ASSUME NEW i \in DOMAIN w.providers
        PROVE  credential[i] = None <=>
                 w.providers[i].credentialsRef \in available \cup {None}
    <3>1. credential[i] = CredentialProblem(w.providers[i], available)
      OBVIOUS
    <3> HIDE DEF credential
    <3> QED
      BY <1>3, <3>1, Zenon DEF CredentialProblem
  <2>2. \A i \in DOMAIN credential : credential[i] \in OrNone({"credential not found"})
    BY DEF CredentialProblem, OrNone
  <2> HIDE DEF credential
  <2>3. /\ FirstProblem(credential) \in OrNone({"credential not found"})
        /\ FirstProblem(credential) = None <=>
             \A i \in 1 .. Len(w.providers) : credential[i] = None
    BY <1>2, <2>2, FirstProblemType
  <2> QED
    BY <1>2, <2>1, <2>3
<1> HIDE DEF source, egress, duplicate, credential
<1> DEFINE found == Passes(w, available)
<1>9. /\ DOMAIN found = 1 .. 5
      /\ found[1] = FirstProblem(source) /\ found[2] = FirstProblem(egress)
      /\ found[3] = FirstProblem(duplicate) /\ found[4] = DefaultProblem(w)
      /\ found[5] = FirstProblem(credential)
  BY <1>1
<1> HIDE DEF found
<1>10. /\ found[1] \in OrNone({"source outside the root", "sources share a path"})
       /\ found[1] = None <=>
            \A i \in DOMAIN w.sources : SourceProblem(w.sources, i) = None
       /\ found[2] \in OrNone({"missing prefix", "not an IP address",
                               "prefix out of range", "port out of range"})
       /\ found[2] = None /\ w.egress # None =>
            \A i \in DOMAIN w.egress : RuleProblem(w.egress[i]) = None
  BY <1>4, <1>5, <1>9, Zenon
<1>11. /\ found[3] \in OrNone({"duplicate provider"})
       /\ found[3] = None <=>
            \A i, j \in DOMAIN w.providers :
              i # j => w.providers[i].name # w.providers[j].name
       /\ found[5] \in OrNone({"credential not found"})
       /\ found[5] = None <=>
            \A i \in DOMAIN w.providers :
              w.providers[i].credentialsRef \in available \cup {None}
  BY <1>6, <1>7, <1>8, <1>9, Zenon
<1> QED
  BY <1>9, <1>10, <1>11, Zenon DEF found

\* A Workspace is Ready when no pass finds a problem, and otherwise Failed with
\* the problem that the first of them finds.
LEMMA VerdictIsFirst ==
  ASSUME NEW w \in Workspaces, NEW available
  PROVE  LET verdict == ValidateWorkspace(w, available)
             found == Passes(w, available)
         IN  \/ /\ verdict = [phase |-> "Ready", message |-> None]
                /\ \A r \in 1 .. 5 : found[r] = None
             \/ \E r \in 1 .. 5 :
                  /\ found[r] # None /\ found[r] \in Literals
                  /\ verdict = [phase |-> "Failed", message |-> found[r]]
                  /\ \A q \in 1 .. r - 1 : found[q] = None
<1> DEFINE found == Passes(w, available)
<1>1. DOMAIN found = 1 .. 5 /\ \A r \in 1 .. 5 : found[r] \in OrNone(Literals)
  <2>1. /\ found[1] \in OrNone({"source outside the root", "sources share a path"})
        /\ found[2] \in OrNone({"missing prefix", "not an IP address",
                                "prefix out of range", "port out of range"})
        /\ found[3] \in OrNone({"duplicate provider"})
        /\ found[4] = DefaultProblem(w)
        /\ found[5] \in OrNone({"credential not found"})
    BY PassFinds, Zenon
  <2>2. DefaultProblem(w) \in OrNone({"defaultProvider names no provider"})
    BY DEF DefaultProblem, OrNone
  <2>3. DOMAIN found = 1 .. 5
    BY PassFinds, Zenon
  <2> HIDE DEF found
  <2>4. ASSUME NEW r \in 1 .. 5 PROVE found[r] \in OrNone(Literals)
    <3>1. r \in {1, 2, 3, 4, 5}
      OBVIOUS
    <3> QED
      BY <2>1, <2>2, <3>1 DEF OrNone, Literals
  <2> QED
    BY <2>3, <2>4
<1>2. ValidateWorkspace(w, available) =
        IF found[1] # None THEN Failed(found[1])
        ELSE IF found[2] # None THEN Failed(found[2])
        ELSE IF found[3] # None THEN Failed(found[3])
        ELSE IF found[4] # None THEN Failed(found[4])
        ELSE IF found[5] # None THEN Failed(found[5])
        ELSE [phase |-> "Ready", message |-> None]
  BY VerdictIs
<1> HIDE DEF found
<1>3. \A r \in 1 .. 5 : r \in {1, 2, 3, 4, 5}
  OBVIOUS
<1>4. CASE \A r \in 1 .. 5 : found[r] = None
  BY <1>2, <1>4 DEF found
<1>5. ASSUME NEW r \in 1 .. 5, found[r] # None, \A q \in 1 .. r - 1 : found[q] = None
      PROVE  /\ found[r] \in Literals
             /\ ValidateWorkspace(w, available) = [phase |-> "Failed", message |-> found[r]]
  <2>1. found[r] \in Literals
    BY <1>1, <1>5 DEF OrNone
  <2>2. ValidateWorkspace(w, available) = Failed(found[r])
    BY <1>2, <1>3, <1>5
  <2> QED
    BY <2>1, <2>2 DEF Failed
<1>6. CASE \E r \in 1 .. 5 : found[r] # None
  <2> DEFINE bad == { r \in 1 .. 5 : found[r] # None }
  <2>1. PICK r \in bad : \A q \in bad : r <= q
    <3>1. bad \in SUBSET Nat /\ bad # {}
      BY <1>6
    <3> HIDE DEF bad
    <3> QED BY <3>1, LeastElement
  <2>2. \A q \in 1 .. r - 1 : q \in 1 .. 5 /\ ~(r <= q)
    OBVIOUS
  <2>3. r \in 1 .. 5 /\ found[r] # None /\ \A q \in 1 .. r - 1 : found[q] = None
    BY <2>1, <2>2
  <2> QED
    BY <1>5, <2>3 DEF found
<1> QED
  BY <1>4, <1>6

\* What admission does with a Workspace just validated.
LEMMA AdmissionIs ==
  ASSUME IInv
  PROVE  LET posture == IF task.posture = None THEN "supervised" ELSE task.posture IN
         /\ Verdict.phase = "Ready" => Admission = AdmitResolved(Resolution, posture)
         /\ Verdict.phase # "Ready" => Admission.verdict = "Fail"
<1> DEFINE workspace == [spec |-> spec, phase |-> Verdict.phase, message |-> Verdict.message]
           posture == IF task.posture = None THEN "supervised" ELSE task.posture
<1>1. spec \in Workspaces
  BY DEF IInv, InputOK
<1>2. /\ Verdict.phase \in {"Ready", "Failed"}
      /\ Verdict.message \in OrNone(Literals)
  BY <1>1, VerdictIsFirst DEF Verdict, OrNone
<1>3. workspace # None
  BY <1>1, <1>2, NoneAssumption
<1>4. Admission = Admit(workspace, task.providerRef, posture)
  BY DEF Admission
<1> HIDE DEF posture
<1>5. CASE Verdict.phase = "Ready"
  BY <1>3, <1>4, <1>5 DEF Admit, Resolution, posture
<1>6. CASE Verdict.phase = "Failed"
  BY <1>3, <1>4, <1>6 DEF Admit, Decline
<1> QED
  BY <1>2, <1>5, <1>6 DEF posture

\* A task that launches has been bound by a Workspace that is Ready.
LEMMA LaunchIsAdmitted ==
  ASSUME IInv, Launches
  PROVE  /\ Verdict.phase = "Ready" /\ Resolution.ok
         /\ Admission.pin = Resolution.pin
         /\ Pin = WithModel(Resolution.pin, task.model)
<1>1. Admission.verdict = "Pin"
  BY DEF Launches
<1>2. Verdict.phase = "Ready"
  BY <1>1, AdmissionIs
<1>3. PICK posture : Admission = AdmitResolved(Resolution, posture)
  BY <1>2, AdmissionIs
<1>4. Resolution.ok /\ Admission = [verdict |-> "Pin", pin |-> Resolution.pin]
  BY <1>1, <1>3 DEF AdmitResolved, Decline
<1> QED
  BY <1>2, <1>4 DEF Pin

-----------------------------------------------------------------------------
(* Resolution and admission. *)

\* The first provider of a name is one of that name.
LEMMA FindProviderFinds ==
  ASSUME NEW T, NEW ps \in Seq(T), NEW name, HasProvider(ps, name)
  PROVE  \E k \in DOMAIN ps : FindProvider(ps, name) = ps[k] /\ ps[k].name = name
<1> DEFINE named == { i \in DOMAIN ps : ps[i].name = name }
<1>1. DOMAIN ps = 1 .. Len(ps) /\ Len(ps) \in Nat
  BY LenProperties
<1>2. named \in SUBSET Nat /\ named # {}
  BY <1>1 DEF HasProvider
<1>3. PICK m \in named : \A n \in named : m <= n
  <2> HIDE DEF named
  <2> QED BY <1>2, LeastElement
<1>4. m \in DOMAIN ps /\ ps[m].name = name /\ \A j \in 1 .. m - 1 : ps[j].name # name
  BY <1>1, <1>3
<1> DEFINE first == CHOOSE i \in DOMAIN ps :
                      /\ ps[i].name = name
                      /\ \A j \in 1 .. i - 1 : ps[j].name # name
<1>5. first \in DOMAIN ps /\ ps[first].name = name
  BY <1>4
<1>6. FindProvider(ps, name) = ps[first]
  BY DEF FindProvider
<1> HIDE DEF first
<1> QED
  BY <1>5, <1>6

\* A task is bound to a provider of the Workspace, of the name that was asked
\* for if there was one.
LEMMA ResolutionIs ==
  ASSUME NEW w \in Workspaces, NEW ref \in OrNone(STRING)
  PROVE  LET r == ResolveWorkspace(w, ref)
             names == { w.providers[i].name : i \in DOMAIN w.providers }
             bound == IF ref # None THEN ref ELSE w.defaultProvider
         IN  \/ /\ r.ok = FALSE
                /\ IF bound # None THEN bound \notin names ELSE Len(w.providers) # 1
             \/ /\ r.ok = TRUE
                /\ IF bound # None THEN bound \in names ELSE Len(w.providers) = 1
                /\ \E k \in DOMAIN w.providers :
                     /\ r.pin = Pinned(w, w.providers[k])
                     /\ bound # None => w.providers[k].name = bound
<1> DEFINE names == { w.providers[i].name : i \in DOMAIN w.providers }
<1>1. w.providers \in Seq(Providers)
  BY WorkspaceShape
<1>2. ASSUME NEW name, NEW reason
      PROVE  LET r == ResolveNamed(w, name, reason) IN
             \/ r.ok = FALSE /\ name \notin names
             \/ /\ r.ok = TRUE /\ name \in names
                /\ \E k \in DOMAIN w.providers :
                     r.pin = Pinned(w, w.providers[k]) /\ w.providers[k].name = name
  <2>1. HasProvider(w.providers, name) <=> name \in names
    BY DEF HasProvider
  <2>2. CASE HasProvider(w.providers, name)
    <3>1. PICK k \in DOMAIN w.providers : /\ FindProvider(w.providers, name) = w.providers[k]
                                          /\ w.providers[k].name = name
      BY <1>1, <2>2, FindProviderFinds
    <3>2. ResolveNamed(w, name, reason) = [ok |-> TRUE, pin |-> Pinned(w, w.providers[k])]
      BY <2>2, <3>1 DEF ResolveNamed, Resolved
    <3> QED
      BY <2>1, <2>2, <3>1, <3>2
  <2>3. CASE ~HasProvider(w.providers, name)
    BY <2>1, <2>3 DEF ResolveNamed, ResolveError
  <2> QED
    BY <2>2, <2>3
<1>3. CASE ref # None
  BY <1>2, <1>3 DEF ResolveWorkspace
<1>4. CASE ref = None /\ w.defaultProvider # None
  BY <1>2, <1>4 DEF ResolveWorkspace
<1>5. CASE ref = None /\ w.defaultProvider = None
  <2>1. CASE Len(w.providers) = 1
    <3>1. 1 \in DOMAIN w.providers
      BY <1>1, <2>1, LenProperties
    <3>2. ResolveWorkspace(w, ref) = [ok |-> TRUE, pin |-> Pinned(w, w.providers[1])]
      BY <1>5, <2>1 DEF ResolveWorkspace, Resolved
    <3> QED
      BY <1>5, <2>1, <3>1, <3>2
  <2>2. CASE Len(w.providers) # 1
    BY <1>5, <2>2 DEF ResolveWorkspace, ResolveError
  <2> QED
    BY <2>1, <2>2
<1> QED
  BY <1>3, <1>4, <1>5

\* What a task is bound to carries the Workspace's own settings.
LEMMA BoundPin ==
  ASSUME IInv, Resolution.ok
  PROVE  \E k \in DOMAIN spec.providers :
           /\ Resolution.pin = Pinned(spec, spec.providers[k])
           /\ spec.providers[k] \in Providers
<1>1. spec \in Workspaces /\ task.providerRef \in OrNone(STRING)
  BY TaskShape DEF IInv, InputOK
<1>2. \E k \in DOMAIN spec.providers : Resolution.pin = Pinned(spec, spec.providers[k])
  BY <1>1, ResolutionIs DEF Resolution
<1>3. spec.providers \in Seq(Providers)
  BY <1>1, WorkspaceShape
<1> QED
  BY <1>2, <1>3, ElementOfSeq, LenProperties

\* A Workspace that is Ready binds a task to the one provider that is meant, with
\* a credential that exists.
THEOREM Binding == Spec => []ReadyResolves
<1>1. IInv => ReadyResolves
  <2> DEFINE names == { spec.providers[i].name : i \in DOMAIN spec.providers }
             bound == IF task.providerRef # None THEN task.providerRef
                      ELSE spec.defaultProvider
  <2> SUFFICES ASSUME IInv, Done, out.verdict.phase = "Ready"
               PROVE  LET r == out.resolution IN
                      /\ r.ok <=> IF task.providerRef # None THEN task.providerRef \in names
                                  ELSE \/ spec.defaultProvider # None
                                       \/ Len(spec.providers) = 1
                      /\ r.ok =>
                           /\ bound # None => r.pin.provider.name = bound
                           /\ Cardinality({ i \in DOMAIN spec.providers :
                                              spec.providers[i].name = r.pin.provider.name }) = 1
                           /\ r.pin.provider.credentialsRef \in present \cup {None}
    BY DEF ReadyResolves
  <2>1. /\ spec \in Workspaces /\ task.providerRef \in OrNone(STRING)
        /\ out.resolution = ResolveWorkspace(spec, task.providerRef)
        /\ ValidateWorkspace(spec, present).phase = "Ready"
    BY Outcome, TaskShape DEF IInv, InputOK, Resolution, Verdict
  <2>2. \A q \in 1 .. 5 : Passes(spec, present)[q] = None
    BY <2>1, VerdictIsFirst
  <2>3. /\ \A i, j \in DOMAIN spec.providers :
             i # j => spec.providers[i].name # spec.providers[j].name
        /\ \A i \in DOMAIN spec.providers :
             spec.providers[i].credentialsRef \in present \cup {None}
        /\ DefaultProblem(spec) = None
    <3>1. 3 \in 1 .. 5 /\ 4 \in 1 .. 5 /\ 5 \in 1 .. 5
      OBVIOUS
    <3> QED
      <4>1. /\ Passes(spec, present)[3] = None <=>
                 \A i, j \in DOMAIN spec.providers :
                   i # j => spec.providers[i].name # spec.providers[j].name
            /\ Passes(spec, present)[4] = DefaultProblem(spec)
            /\ Passes(spec, present)[5] = None <=>
                 \A i \in DOMAIN spec.providers :
                   spec.providers[i].credentialsRef \in present \cup {None}
        BY <2>1, PassFinds, Zenon
      <4>2. /\ Passes(spec, present)[3] = None /\ Passes(spec, present)[4] = None
            /\ Passes(spec, present)[5] = None
        BY <2>2, <3>1, Zenon
      <4> QED
        BY <4>1, <4>2, Zenon
  <2>4. spec.defaultProvider # None => spec.defaultProvider \in names
    <3>1. "defaultProvider names no provider" # None
      BY NoneAssumption DEF Literals
    <3> QED
      BY <2>3, <3>1 DEF DefaultProblem
  <2> HIDE DEF names
  <2>5. out.resolution.ok <=> IF task.providerRef # None THEN task.providerRef \in names
                              ELSE spec.defaultProvider # None \/ Len(spec.providers) = 1
    BY <2>1, <2>4, ResolutionIs DEF names
  <2>6. ASSUME out.resolution.ok
        PROVE  /\ bound # None => out.resolution.pin.provider.name = bound
               /\ Cardinality({ i \in DOMAIN spec.providers :
                                  spec.providers[i].name = out.resolution.pin.provider.name }) = 1
               /\ out.resolution.pin.provider.credentialsRef \in present \cup {None}
    <3>1. PICK k \in DOMAIN spec.providers :
            /\ out.resolution.pin = Pinned(spec, spec.providers[k])
            /\ bound # None => spec.providers[k].name = bound
      BY <2>1, <2>6, ResolutionIs
    <3>2. out.resolution.pin.provider = spec.providers[k]
      BY <3>1 DEF Pinned
    <3>3. { i \in DOMAIN spec.providers :
              spec.providers[i].name = spec.providers[k].name } = {k}
      BY <2>3
    <3> QED
      BY <2>3, <3>1, <3>2, <3>3, FS_Singleton
  <2> QED
    BY <2>5, <2>6
<1> QED
  BY <1>1, Evaluation, PTL

-----------------------------------------------------------------------------
(* Source paths. *)

\* Without ".." a path leads where its components say.
LEMMA WalkWithoutClimbing ==
  ASSUME NEW segs \in Seq(STRING), \A k \in DOMAIN segs : segs[k] # ".."
  PROVE  Walk(segs) = Subsequence(segs, { i \in DOMAIN segs : segs[i] \notin {"", "."} })
<1> DEFINE I == { i \in DOMAIN segs : segs[i] \notin {"", "."} }
           kept == Filtered(segs, I)
           stage(g, i) == IF i = 0 THEN <<>>
                          ELSE CASE segs[i] \in {"", "."} -> g[i - 1]
                                 [] segs[i] = ".." ->
                                      IF g[i - 1] = <<>> THEN <<>>
                                      ELSE SubSeq(g[i - 1], 1, Len(g[i - 1]) - 1)
                                 [] OTHER -> Append(g[i - 1], segs[i])
           Defined(g) == g = [i \in 0 .. Len(segs) |-> stage(g, i)]
<1>1. /\ kept \in [0 .. Len(segs) -> Seq(STRING)]
      /\ kept[0] = <<>>
      /\ \A i \in 1 .. Len(segs) :
           kept[i] = IF i \in I THEN Append(kept[i - 1], segs[i]) ELSE kept[i - 1]
  <2> HIDE DEF I, stage
  <2> QED BY FilteredUnfolds
<1>2. Len(segs) \in Nat /\ DOMAIN segs = 1 .. Len(segs)
  BY LenProperties
<1>3. ASSUME NEW g, NEW i \in 1 .. Len(segs)
      PROVE  stage(g, i) = IF i \in I THEN Append(g[i - 1], segs[i]) ELSE g[i - 1]
  <2>1. i # 0 /\ i \in DOMAIN segs /\ segs[i] # ".."
    BY <1>2
  <2>2. CASE segs[i] \in {"", "."}
    BY <2>1, <2>2
  <2>3. CASE segs[i] \notin {"", "."}
    BY <2>1, <2>3
  <2> QED
    BY <2>2, <2>3
<1>4. \A g : stage(g, 0) = <<>>
  OBVIOUS
<1> HIDE DEF stage, I, kept
<1>5. Defined(kept)
  <2>1. ASSUME NEW i \in 0 .. Len(segs) PROVE kept[i] = stage(kept, i)
    <3>1. CASE i = 0
      BY <1>1, <1>4, <3>1
    <3>2. CASE i # 0
      <4>1. i \in 1 .. Len(segs)
        BY <1>2, <3>2
      <4> QED
        BY <1>1, <1>3, <4>1
    <3> QED
      BY <3>1, <3>2
  <2> QED
    BY <1>1, <2>1
<1> DEFINE at == Stages(segs)
<1>6. at = CHOOSE g : Defined(g)
  BY DEF Stages, stage
<1>7. Defined(at)
  <2> HIDE DEF Defined, at
  <2> QED BY <1>5, <1>6
<1> HIDE DEF at
<1>8. at[0] = <<>> /\ \A i \in 1 .. Len(segs) :
        at[i] = IF i \in I THEN Append(at[i - 1], segs[i]) ELSE at[i - 1]
  <2>1. at[0] = stage(at, 0)
    BY <1>2, <1>7
  <2>2. ASSUME NEW i \in 1 .. Len(segs) PROVE at[i] = stage(at, i)
    <3>1. i \in 0 .. Len(segs)
      OBVIOUS
    <3> QED
      BY <1>7, <3>1
  <2> QED
    BY <1>3, <1>4, <2>1, <2>2
<1> DEFINE Good == { i \in 0 .. Len(segs) : at[i] = kept[i] }
<1>9. \A i \in 0 .. Len(segs) : i \in Good
  <2>1. 0 \in Good
    BY <1>1, <1>2, <1>8
  <2>2. ASSUME NEW i \in 1 .. Len(segs), i - 1 \in Good PROVE i \in Good
    <3>1. at[i - 1] = kept[i - 1]
      BY <2>2
    <3> QED
      BY <1>1, <1>8, <3>1
  <2> HIDE DEF Good
  <2> QED BY <1>2, <2>1, <2>2, Induction
<1>10. at[Len(segs)] = kept[Len(segs)]
  BY <1>2, <1>9
<1> QED
  BY <1>10 DEF Walk, Subsequence, at, kept, I

\* Strictly beneath the root, as a list and as the code compares it.
LEMMA BeneathIsBelow ==
  ASSUME NEW dir \in Seq(STRING)
  PROVE  Beneath(dir) <=> StrictlyBelow(WorkspaceRoot, dir)
<1> DEFINE root == WorkspaceRoot
           rest(n) == SubSeq(dir, n, Len(dir))
<1>1. root \in Seq(STRING) /\ Len(root) \in Nat /\ Len(dir) \in Nat
  BY RootAssumption
<1>2. ASSUME NEW n \in 1 .. Len(dir)
      PROVE  /\ rest(n) \in Seq(STRING) /\ Len(rest(n)) = Len(dir) - n + 1
             /\ \A i \in 1 .. Len(dir) - n + 1 : rest(n)[i] = dir[n + i - 1]
  <2>1. \A i \in n .. Len(dir) : dir[i] \in STRING
    BY <1>1
  <2> QED
    BY <1>1, <2>1, SubSeqProperties
<1> HIDE DEF root, rest
<1>3. ASSUME NEW n \in 1 .. Len(dir), dir = root \o rest(n)
      PROVE  Len(root) < Len(dir) /\ SubSeq(dir, 1, Len(root)) = root
  <2>1. /\ Len(dir) = Len(root) + (Len(dir) - n + 1)
        /\ \A i \in 1 .. Len(root) : dir[i] = root[i]
    <3>1. /\ Len(root \o rest(n)) = Len(root) + Len(rest(n))
          /\ \A i \in 1 .. Len(root) + Len(rest(n)) :
               (root \o rest(n))[i] = IF i <= Len(root) THEN root[i]
                                      ELSE rest(n)[i - Len(root)]
      BY <1>1, <1>2, ConcatProperties
    <3>2. ASSUME NEW i \in 1 .. Len(root) PROVE (root \o rest(n))[i] = root[i]
      <4>1. Len(rest(n)) \in Nat /\ i \in 1 .. Len(root) + Len(rest(n)) /\ i <= Len(root)
        BY <1>1, <1>2
      <4> QED
        BY <3>1, <4>1
    <3> QED
      BY <1>2, <1>3, <3>1, <3>2
  <2>2. Len(root) < Len(dir)
    BY <1>1, <2>1
  <2>3. /\ SubSeq(dir, 1, Len(root)) \in Seq(STRING)
        /\ Len(SubSeq(dir, 1, Len(root))) = Len(root)
        /\ \A i \in 1 .. Len(root) : SubSeq(dir, 1, Len(root))[i] = dir[i]
    <3>1. \A i \in 1 .. Len(root) : dir[i] \in STRING
      BY <1>1, <2>2
    <3> QED
      BY <1>1, <3>1, SubSeqProperties
  <2>4. SubSeq(dir, 1, Len(root)) = root
    BY <1>1, <2>1, <2>3, SeqEqual
  <2> QED
    BY <2>2, <2>4
<1>4. ASSUME Len(root) < Len(dir), SubSeq(dir, 1, Len(root)) = root
      PROVE  \E n \in 1 .. Len(dir) : dir = root \o rest(n)
  <2>1. Len(root) + 1 \in 1 .. Len(dir)
    BY <1>1, <1>4
  <2>2. root \o rest(Len(root) + 1) = SubSeq(dir, 1, Len(dir))
    BY <1>1, <1>4, <2>1, ConcatAdjacentSubSeq DEF rest
  <2>3. SubSeq(dir, 1, Len(dir)) = dir
    BY SubSeqFull
  <2> QED
    BY <2>1, <2>2, <2>3
<1> QED
  BY <1>3, <1>4 DEF Beneath, StrictlyBelow, root, rest

PlainPaths ==
  \A i \in DOMAIN spec.sources :
    LET path == spec.sources[i].path IN
    path.absolute /\ \A k \in DOMAIN path.segs : path.segs[k] # ".."

\* The first pass finds nothing if and only if every path is absolute, none
\* climbs, and the directories are beneath the root and apart.
LEMMA SourcesPass ==
  ASSUME spec \in Workspaces, NEW available
  PROVE  Passes(spec, available)[1] = None <=> PlainPaths /\ Apart /\ Contained
<1> DEFINE ss == spec.sources
           comps(i) == Components(ss[i].path)
<1>1. /\ ss \in Seq(Source(STRING, [absolute : BOOLEAN, segs : Seq(STRING)]))
      /\ DOMAIN ss = 1 .. Len(ss) /\ Len(ss) \in Nat
  BY WorkspaceShape, LenProperties
<1>2. "source outside the root" # None /\ "sources share a path" # None
  BY NoneAssumption DEF Literals
<1>3. Passes(spec, available)[1] = None <=>
        \A i \in DOMAIN ss : SourceProblem(ss, i) = None
  BY PassFinds, Zenon
<1>4. ASSUME NEW i \in DOMAIN ss
      PROVE  SourceProblem(ss, i) = None <=>
               UnderRoot(ss[i].path) /\ \A j \in 1 .. i - 1 : comps(j) # comps(i)
  BY <1>2, Zenon DEF SourceProblem
<1>5. ASSUME NEW i \in DOMAIN ss
      PROVE  ss[i].path.segs \in Seq(STRING) /\ comps(i) \in Seq(STRING)
  <2>1. ss[i] \in Source(STRING, [absolute : BOOLEAN, segs : Seq(STRING)])
    BY <1>1
  <2>2. ss[i].path.segs \in Seq(STRING)
    BY <2>1 DEF Source
  <2> QED
    BY <2>2, SubsequenceType DEF Components
<1>6. ASSUME NEW i \in DOMAIN ss, \A k \in DOMAIN ss[i].path.segs : ss[i].path.segs[k] # ".."
      PROVE  Directory(ss[i]) = comps(i)
  BY <1>5, <1>6, WalkWithoutClimbing DEF Directory, Components
<1>7. ASSUME NEW i \in DOMAIN ss
      PROVE  UnderRoot(ss[i].path) <=>
               /\ ss[i].path.absolute
               /\ \A k \in DOMAIN ss[i].path.segs : ss[i].path.segs[k] # ".."
               /\ Beneath(Directory(ss[i]))
  BY <1>5, <1>6, BeneathIsBelow DEF UnderRoot
<1>8. (\A i \in DOMAIN ss : \A j \in 1 .. i - 1 : comps(j) # comps(i)) <=>
        \A i, j \in DOMAIN ss : i # j => comps(i) # comps(j)
  <2> HIDE DEF comps
  <2>1. \A i, j \in DOMAIN ss : i # j => i \in 1 .. j - 1 \/ j \in 1 .. i - 1
    BY <1>1
  <2>2. \A i \in DOMAIN ss : \A j \in 1 .. i - 1 : j \in DOMAIN ss /\ j # i
    BY <1>1
  <2> QED
    BY <2>1, <2>2
<1> HIDE DEF comps
<1>9. Passes(spec, available)[1] = None <=>
        /\ \A i \in DOMAIN ss : UnderRoot(ss[i].path)
        /\ \A i, j \in DOMAIN ss : i # j => comps(i) # comps(j)
  BY <1>3, <1>4, <1>8
<1>10. (\A i \in DOMAIN ss : UnderRoot(ss[i].path)) <=> PlainPaths /\ Contained
  BY <1>7 DEF PlainPaths, Contained
<1>11. PlainPaths => ((\A i, j \in DOMAIN ss : i # j => comps(i) # comps(j)) <=> Apart)
  BY <1>6 DEF PlainPaths, Apart
<1> QED
  BY <1>9, <1>10, <1>11, Zenon

\* The message of a verdict names the pass it comes from.
LEMMA FailureHasItsRank ==
  ASSUME NEW w \in Workspaces, NEW available,
         ValidateWorkspace(w, available).phase = "Failed"
  PROVE  LET reason == ValidateWorkspace(w, available).message IN
         /\ Rank(reason) \in 1 .. 5
         /\ reason = Passes(w, available)[Rank(reason)] /\ reason # None
         /\ \A q \in 1 .. Rank(reason) - 1 : Passes(w, available)[q] = None
<1> DEFINE reason == ValidateWorkspace(w, available).message
           found == Passes(w, available)
<1>1. PICK r \in 1 .. 5 : /\ found[r] # None /\ found[r] \in Literals
                          /\ ValidateWorkspace(w, available)
                               = [phase |-> "Failed", message |-> found[r]]
                          /\ \A q \in 1 .. r - 1 : found[q] = None
  BY VerdictIsFirst
<1>2. reason = found[r]
  BY <1>1
<1>3. /\ found[1] \in OrNone({"source outside the root", "sources share a path"})
      /\ found[2] \in OrNone({"missing prefix", "not an IP address",
                              "prefix out of range", "port out of range"})
      /\ found[3] \in OrNone({"duplicate provider"})
      /\ found[4] = DefaultProblem(w)
      /\ found[5] \in OrNone({"credential not found"})
  BY PassFinds, Zenon
<1>4. DefaultProblem(w) \in OrNone({"defaultProvider names no provider"})
  BY DEF DefaultProblem, OrNone
<1> HIDE DEF reason, found
<1>5. Rank(reason) = r
  <2>1. r \in {1, 2, 3, 4, 5}
    OBVIOUS
  <2> QED
    BY <1>1, <1>2, <1>3, <1>4, <2>1 DEF Rank, OrNone
<1> QED
  BY <1>1, <1>2, <1>5 DEF reason, found

\* The sources of an accepted Workspace are separate directories beneath the
\* root, and plain paths are refused only when they are not.
THEOREM Containment == Spec => []SourcesAreContained
<1>1. IInv => SourcesAreContained
  <2> SUFFICES ASSUME IInv, Done
               PROVE  /\ out.verdict.phase = "Ready" => Apart /\ Contained
                      /\ out.verdict.message \in {"source outside the root", "sources share a path"} =>
                           ~(PlainPaths /\ Apart /\ Contained)
    BY DEF SourcesAreContained, PlainPaths
  <2> DEFINE verdict == ValidateWorkspace(spec, present)
             found == Passes(spec, present)
  <2>1. spec \in Workspaces /\ out.verdict = verdict
    BY Outcome DEF IInv, InputOK, Verdict
  <2>2. found[1] = None <=> PlainPaths /\ Apart /\ Contained
    BY <2>1, SourcesPass
  <2>3. \/ verdict = [phase |-> "Ready", message |-> None] /\ \A r \in 1 .. 5 : found[r] = None
        \/ verdict.phase = "Failed"
    BY <2>1, VerdictIsFirst
  <2>4. CASE verdict = [phase |-> "Ready", message |-> None] /\ \A r \in 1 .. 5 : found[r] = None
    <3>1. verdict.phase = "Ready" /\ verdict.message = None /\ found[1] = None
      BY <2>4
    <3>2. None \notin {"source outside the root", "sources share a path"}
      BY NoneAssumption DEF Literals
    <3> QED
      BY <2>1, <2>2, <3>1, <3>2
  <2>5. CASE verdict.phase = "Failed"
    <3>1. verdict.message = found[Rank(verdict.message)] /\ verdict.message # None
      BY <2>1, <2>5, FailureHasItsRank
    <3>2. verdict.message \in {"source outside the root", "sources share a path"} =>
            Rank(verdict.message) = 1
      BY DEF Rank
    <3> HIDE DEF verdict, found
    <3> QED
      BY <2>1, <2>2, <2>5, <3>1, <3>2
  <2> QED
    BY <2>3, <2>4, <2>5
<1> QED
  BY <1>1, Evaluation, PTL

\* Of several problems the one that the documented order names is reported.
THEOREM DocumentedOrder == Spec => []FirstProblemWins
<1>1. IInv => FirstProblemWins
  <2> DEFINE repaired(r) ==
               [spec EXCEPT !.egress = IF r < 2 THEN None ELSE @,
                            !.defaultProvider = IF r < 4 THEN None ELSE @]
             existing(r) == IF r < 5 THEN CredentialsRefs(spec) ELSE present
             rank == Rank(out.verdict.message)
  <2> SUFFICES ASSUME IInv, Done, out.verdict.phase = "Failed"
               PROVE  /\ ValidateWorkspace(repaired(rank), existing(rank)) = out.verdict
                      /\ rank > 1 => Apart /\ Contained
                      /\ rank > 2 /\ spec.egress # None =>
                           \A i \in DOMAIN spec.egress : RuleProblem(spec.egress[i]) = None
                      /\ rank > 3 => \A i, j \in DOMAIN spec.providers :
                                       i # j => spec.providers[i].name # spec.providers[j].name
                      /\ rank > 4 /\ spec.defaultProvider # None =>
                           \E i \in DOMAIN spec.providers :
                             spec.providers[i].name = spec.defaultProvider
    BY Zenon DEF FirstProblemWins
  <2> DEFINE found == Passes(spec, present)
             again == Passes(repaired(rank), existing(rank))
             reason == out.verdict.message
  <2>1. spec \in Workspaces /\ out.verdict = ValidateWorkspace(spec, present)
    BY Outcome DEF IInv, InputOK, Verdict
  <2>2. /\ rank \in 1 .. 5 /\ reason = found[rank] /\ reason # None
        /\ \A q \in 1 .. rank - 1 : found[q] = None
    BY <2>1, FailureHasItsRank
  <2>3. out.verdict = [phase |-> "Failed", message |-> reason]
    BY <2>1, VerdictIsFirst
  <2>4. \A q \in 1 .. rank : again[q] = found[q]
    <3>1. /\ repaired(rank).sources = spec.sources
          /\ repaired(rank).providers = spec.providers
          /\ rank >= 2 => repaired(rank).egress = spec.egress
          /\ rank >= 4 => repaired(rank).defaultProvider = spec.defaultProvider
          /\ rank >= 5 => existing(rank) = present
      BY <2>1, <2>2, WorkspaceShape
    <3> HIDE DEF repaired, existing, rank
    <3>2. /\ again[1] = found[1] /\ again[3] = found[3]
          /\ rank >= 2 => again[2] = found[2]
          /\ rank >= 4 => again[4] = found[4]
          /\ rank >= 5 => again[5] = found[5]
      BY <3>1 DEF Passes, DefaultProblem
    <3> HIDE DEF again, found
    <3>3. ASSUME NEW q \in 1 .. rank PROVE again[q] = found[q]
      <4>1. q \in {1, 2, 3, 4, 5} /\ q <= rank
        BY <2>2
      <4> QED
        BY <2>2, <3>2, <4>1
    <3> QED
      BY <3>3
  <2>5. ValidateWorkspace(repaired(rank), existing(rank)) = out.verdict
    <3>1. ValidateWorkspace(repaired(rank), existing(rank)) =
            IF again[1] # None THEN Failed(again[1])
            ELSE IF again[2] # None THEN Failed(again[2])
            ELSE IF again[3] # None THEN Failed(again[3])
            ELSE IF again[4] # None THEN Failed(again[4])
            ELSE IF again[5] # None THEN Failed(again[5])
            ELSE [phase |-> "Ready", message |-> None]
      BY VerdictIs
    <3> HIDE DEF again, found, rank, reason
    <3>2. again[rank] = reason /\ \A q \in 1 .. rank - 1 : again[q] = None
      BY <2>2, <2>4
    <3>3. rank \in {1, 2, 3, 4, 5}
      BY <2>2
    <3>4. ValidateWorkspace(repaired(rank), existing(rank)) = Failed(reason)
      BY <2>2, <3>1, <3>2, <3>3
    <3> QED
      BY <2>3, <3>4 DEF Failed
  <2>6. /\ found[1] = None => Apart /\ Contained
        /\ found[2] = None /\ spec.egress # None =>
             \A i \in DOMAIN spec.egress : RuleProblem(spec.egress[i]) = None
        /\ found[3] = None => \A i, j \in DOMAIN spec.providers :
                                i # j => spec.providers[i].name # spec.providers[j].name
        /\ found[4] = DefaultProblem(spec)
    BY <2>1, PassFinds, SourcesPass, Zenon
  <2>7. DefaultProblem(spec) = None /\ spec.defaultProvider # None =>
          \E i \in DOMAIN spec.providers : spec.providers[i].name = spec.defaultProvider
    <3>1. "defaultProvider names no provider" # None
      BY NoneAssumption DEF Literals
    <3> QED
      BY <3>1 DEF DefaultProblem
  <2> HIDE DEF found, rank, repaired, existing
  <2>8. /\ rank > 1 => found[1] = None
        /\ rank > 2 => found[2] = None
        /\ rank > 3 => found[3] = None
        /\ rank > 4 => found[4] = None
    BY <2>2
  <2> QED
    BY <2>5, <2>6, <2>7, <2>8, Zenon
<1> QED
  BY <1>1, Evaluation, PTL

-----------------------------------------------------------------------------
(* Settings. *)

\* What it takes for settings to be accepted, and what a variable that cannot be
\* read is reported as.
LEMMA ValidateFinds ==
  ASSUME NEW s
  PROVE  /\ Validate(s) = None =>
              /\ s.envErrors = {} /\ ~PortsOutOfRange(s)
              /\ {s.agentUid, s.agentGid} = {"user"}
              /\ ~(s.agentPortBase > s.agentPortEnd)
              /\ s.calibandPort \notin s.agentPortBase .. s.agentPortEnd
         /\ Validate(s) = "environment" <=> s.envErrors # {}
<1> DEFINE findings ==
      << ProblemIf(s.envErrors # {}, "environment"),
         ProblemIf(PortsOutOfRange(s), "port range"),
         ProblemIf(s.leaseGrace >= s.leaseDuration, "lease grace"),
         ProblemIf(s.leaseName \in Blank, "lease name"),
         ProblemIf({s.agentUid, s.agentGid} # {"user"}, "id"),
         ProblemIf(s.agentPortBase > s.agentPortEnd, "port window"),
         ProblemIf(s.calibandPort \in s.agentPortBase .. s.agentPortEnd, "port collision") >>
<1>1. Validate(s) = FirstProblem(findings)
  BY DEF Validate
<1>2. DOMAIN findings = 1 .. 7
  OBVIOUS
<1>3. /\ findings[1] = ProblemIf(s.envErrors # {}, "environment")
      /\ findings[2] = ProblemIf(PortsOutOfRange(s), "port range")
      /\ findings[3] \in OrNone({"lease grace"}) /\ findings[4] \in OrNone({"lease name"})
      /\ findings[5] = ProblemIf({s.agentUid, s.agentGid} # {"user"}, "id")
      /\ findings[6] = ProblemIf(s.agentPortBase > s.agentPortEnd, "port window")
      /\ findings[7] = ProblemIf(s.calibandPort \in s.agentPortBase .. s.agentPortEnd,
                                 "port collision")
  BY DEF OrNone, ProblemIf
<1> HIDE DEF findings
<1>4. /\ "environment" # None /\ "port range" # None /\ "lease grace" # None
      /\ "lease name" # None /\ "id" # None /\ "port window" # None
      /\ "port collision" # None
  BY NoneAssumption DEF Literals
<1>5. ASSUME NEW wrong \in BOOLEAN, NEW problem, problem # None
      PROVE  /\ ProblemIf(wrong, problem) = None <=> ~wrong
             /\ ProblemIf(wrong, problem) \in {problem, None}
  BY <1>5 DEF ProblemIf
<1>6. ASSUME Validate(s) = None
      PROVE  /\ s.envErrors = {} /\ ~PortsOutOfRange(s)
             /\ {s.agentUid, s.agentGid} = {"user"}
             /\ ~(s.agentPortBase > s.agentPortEnd)
             /\ s.calibandPort \notin s.agentPortBase .. s.agentPortEnd
  <2>1. \A i \in 1 .. 7 : findings[i] = None
    BY <1>1, <1>2, <1>6, FirstProblemFinds
  <2>2. /\ findings[1] = None /\ findings[2] = None /\ findings[5] = None
        /\ findings[6] = None /\ findings[7] = None
    BY <2>1
  <2> QED
    BY <2>2, <1>3, <1>4, Zenon DEF ProblemIf
<1>7. Validate(s) = "environment" <=> s.envErrors # {}
  <2>1. ASSUME s.envErrors # {} PROVE Validate(s) = "environment"
    <3>1. findings[1] = "environment"
      BY <1>3, <2>1, Zenon DEF ProblemIf
    <3>2. FirstProblem(findings) # None
      <4>1. 1 \in 1 .. 7
        OBVIOUS
      <4> QED
        BY <1>2, <1>4, <3>1, <4>1, FirstProblemFinds
    <3>3. PICK i \in 1 .. 7 : /\ findings[i] = FirstProblem(findings)
                              /\ \A j \in 1 .. i - 1 : findings[j] = None
      BY <1>2, <3>2, FirstProblemFinds
    <3>4. i = 1
      <4>1. i # 1 => 1 \in 1 .. i - 1
        OBVIOUS
      <4> QED
        BY <1>4, <3>1, <3>3, <4>1, Zenon
    <3> QED
      BY <1>1, <3>1, <3>3, <3>4
  <2>2. ASSUME Validate(s) = "environment" PROVE s.envErrors # {}
    <3>1. PICK i \in 1 .. 7 : findings[i] = "environment"
      BY <1>1, <1>2, <1>4, <2>2, FirstProblemFinds
    <3>2. /\ findings[2] \in {"port range", None} /\ findings[5] \in {"id", None}
          /\ findings[6] \in {"port window", None} /\ findings[7] \in {"port collision", None}
      BY <1>3, Zenon DEF ProblemIf
    <3>3. i \in {1, 2, 3, 4, 5, 6, 7}
      OBVIOUS
    <3>4. findings[1] = "environment"
      BY <1>3, <1>4, <3>1, <3>2, <3>3 DEF OrNone
    <3> QED
      BY <1>3, <1>4, <3>4, Zenon DEF ProblemIf
  <2> QED
    BY <2>1, <2>2
<1> QED
  BY <1>6, <1>7

\* What a state shows in which children are applied.
LEMMA AppliedIs ==
  ASSUME IInv, Applied
  PROVE  /\ Done /\ Launches
         /\ out.settings = FromEnv(env) /\ Validate(FromEnv(env)) = None
         /\ out.pin = Pin /\ out.children = Plan(task, Pin, FromEnv(env))
         /\ Sandbox = BuildSandbox(task, Pin, FromEnv(env))
         /\ NetworkPolicy = BuildNetworkPolicy(task, Pin, FromEnv(env))
         /\ Env = ContainerEnv(task, Pin, FromEnv(env))
<1>1. Done /\ out.launches /\ out.problem = None
  BY DEF Applied
<1>2. /\ Launches
      /\ out.settings = FromEnv(env) /\ Validate(FromEnv(env)) = None
      /\ out.pin = Pin /\ out.children = Plan(task, Pin, FromEnv(env))
  BY <1>1, Outcome
<1>3. /\ Sandbox = BuildSandbox(task, Pin, FromEnv(env))
      /\ NetworkPolicy = BuildNetworkPolicy(task, Pin, FromEnv(env))
  BY <1>2 DEF Plan, Sandbox, NetworkPolicy
<1>4. Env = ContainerEnv(task, Pin, FromEnv(env))
  BY <1>3 DEF Env, BuildSandbox, CalibandContainer
<1> QED
  BY <1>1, <1>2, <1>3, <1>4

\* A cluster domain has labels, of which the last one is not empty.
LEMMA ClusterDomainEnds ==
  ASSUME NEW v \in OrNone(Seq(STRING))
  PROVE  /\ ClusterDomain(v) \in Seq(STRING \cup {"cluster", "local", ""})
         /\ Len(ClusterDomain(v)) >= 1
         /\ ClusterDomain(v)[Len(ClusterDomain(v))] # ""
<1> DEFINE trimmed == [i \in DOMAIN v |->
                         IF v[i] = " " /\ i \in {1, Len(v)} THEN "" ELSE v[i]]
           kept == { i \in DOMAIN v : trimmed[i] # "" }
           last == CHOOSE i \in kept : \A j \in kept : j <= i
           T == STRING \cup {"cluster", "local", ""}
<1>1. CASE v = None \/ kept = {}
  <2>1. ClusterDomain(v) = <<"cluster", "local">>
    BY <1>1 DEF ClusterDomain, DefaultClusterDomain
  <2> QED
    BY <2>1
<1>2. CASE v # None /\ kept # {}
  <2>1. v \in Seq(STRING) /\ Len(v) \in Nat /\ DOMAIN v = 1 .. Len(v)
    <3>1. v \in Seq(STRING)
      BY <1>2 DEF OrNone
    <3> HIDE DEF kept
    <3> QED
      BY <3>1, LenProperties
  <2>2. /\ trimmed \in Seq(T) /\ Len(trimmed) = Len(v)
        /\ \A i \in 1 .. Len(v) : trimmed[i] \in T
    <3>1. DOMAIN trimmed = 1 .. Len(v)
      BY <2>1
    <3>2. ASSUME NEW i \in 1 .. Len(v) PROVE trimmed[i] \in T
      <4>1. v[i] \in STRING
        BY <2>1, ElementOfSeq, Zenon
      <4>2. trimmed[i] = "" \/ trimmed[i] = v[i]
        BY <2>1
      <4> HIDE DEF trimmed
      <4> QED
        BY <4>1, <4>2
    <3>3. trimmed = [i \in 1 .. Len(v) |-> trimmed[i]]
      BY <2>1
    <3> HIDE DEF trimmed, T
    <3> QED
      BY <2>1, <3>1, <3>2, <3>3
  <2>3. last \in kept
    <3>1. kept \in SUBSET (1 .. Len(v))
      BY <2>1
    <3> HIDE DEF kept
    <3>2. kept \in SUBSET (0 .. Len(v))
      BY <2>1, <3>1
    <3>3. \E i \in kept : \A j \in kept : j <= i
      BY <1>2, <2>1, <3>2, GreatestElement
    <3> QED
      BY <3>3
  <2>4. ClusterDomain(v) = SubSeq(trimmed, 1, last)
    BY <1>2, Zenon DEF ClusterDomain
  <2>5. last \in 1 .. Len(v) /\ trimmed[last] # ""
    BY <2>1, <2>3
  <2> HIDE DEF last, kept, trimmed, T
  <2>6. /\ SubSeq(trimmed, 1, last) \in Seq(T) /\ Len(SubSeq(trimmed, 1, last)) = last
        /\ SubSeq(trimmed, 1, last)[last] = trimmed[last]
    <3>1. /\ 1 \in Int /\ last \in Int /\ 1 <= last
          /\ \A i \in 1 .. last : i \in 1 .. Len(v)
          /\ last \in 1 .. last - 1 + 1 /\ last - 1 + 1 = last /\ 1 + last - 1 = last
      <4>1. ASSUME NEW n \in Nat, NEW k \in 1 .. n
            PROVE  /\ 1 \in Int /\ k \in Int /\ 1 <= k
                   /\ \A i \in 1 .. k : i \in 1 .. n
                   /\ k \in 1 .. k - 1 + 1 /\ k - 1 + 1 = k /\ 1 + k - 1 = k
        OBVIOUS
      <4> QED
        BY <2>1, <2>5, <4>1, Zenon
    <3> QED
      BY <2>2, <3>1, SubSeqProperties
  <2>7. last >= 1
    <3>1. \A n \in Nat : \A k \in 1 .. n : k >= 1
      OBVIOUS
    <3> QED
      BY <2>1, <2>5, <3>1, Zenon
  <2>8. ClusterDomain(v) \in Seq(T) /\ Len(ClusterDomain(v)) >= 1
        /\ ClusterDomain(v)[Len(ClusterDomain(v))] # ""
    BY <2>4, <2>5, <2>6, <2>7, Zenon
  <2> QED
    BY <2>8, Zenon DEF T
<1> QED
  BY <1>1, <1>2

\* caliband listens where the policy admits it and hands out a window that is
\* open, under a host name that resolves.
THEOREM OpenWindow == Spec => []AgentWindowIsOpen
<1>1. IInv => AgentWindowIsOpen
  <2> DEFINE s == FromEnv(env)
             ports == NetworkPolicy.ingress.ports
             c == Sandbox.container
             host == c.args.advertiseHost

  <2> SUFFICES ASSUME IInv, Applied
               PROVE  /\ {c.port, c.readiness.port, c.startup.port} = {c.args.listen}
                      /\ InRange(ports, "TCP", c.args.listen)
                      /\ c.args.agentPortBase = ports[2].first
                      /\ ports[2].first \in 1 .. ports[2].last /\ ports[2].last <= PortMax
                      /\ InPortRange(c.args.listen)
                      /\ c.args.listen \notin ports[2].first .. ports[2].last
                      /\ SubSeq(host, 1, 3) = <<Sandbox.meta.name, task.namespace, "svc">>
                      /\ Len(host) > 3 /\ host[Len(host)] # ""
    BY Zenon DEF AgentWindowIsOpen
  <2>1. /\ ~PortsOutOfRange(s) /\ ~(s.agentPortBase > s.agentPortEnd)
        /\ s.calibandPort \notin s.agentPortBase .. s.agentPortEnd
    BY AppliedIs, ValidateFinds
  <2>2. /\ InPortRange(s.calibandPort) /\ InPortRange(s.agentPortBase)
        /\ InPortRange(s.agentPortEnd)
    BY <2>1, Zenon DEF PortsOutOfRange
  <2>3. Sandbox = BuildSandbox(task, Pin, s) /\ NetworkPolicy = BuildNetworkPolicy(task, Pin, s)
    BY AppliedIs
  <2>4. s.clusterDomain = ClusterDomain(env.clusterDomain)
    BY DEF FromEnv
  <2> HIDE DEF s
  <2>0. /\ s.calibandPort \in 1 .. PortMax /\ s.agentPortBase \in 1 .. PortMax
        /\ s.agentPortEnd \in 1 .. PortMax /\ PortMax \in Nat /\ U16Max = PortMax
    <3>1. PortMax \in Nat /\ U16Max = PortMax
      BY SMT DEF PortMax, U16Max
    <3> QED
      BY <2>2, <3>1, SMT DEF InPortRange
  <2>5. /\ c.port = s.calibandPort /\ c.readiness.port = s.calibandPort
        /\ c.startup.port = s.calibandPort /\ c.args = LaunchArgs(task, s)
        /\ Sandbox.meta.name = SandboxName(task)
    BY <2>3 DEF BuildSandbox, CalibandContainer, ControlPortProbe, ChildMeta
  <2>6. /\ c.args.listen = s.calibandPort /\ host = AdvertiseHost(task, s)
        /\ c.args.agentPortBase = AgentPortBase(s)
    BY <2>5 DEF LaunchArgs
  <2>7. ports = << Port("TCP", s.calibandPort),
                   Window("TCP", s.agentPortBase, s.agentPortEnd) >>
    BY <2>3 DEF BuildNetworkPolicy
  <2>8. AgentPortBase(s) = s.agentPortBase
    BY <2>0, SMT DEF AgentPortBase
  <2> HIDE DEF ports, c
  <2>9. ports[2].first = s.agentPortBase /\ ports[2].last = s.agentPortEnd
    BY <2>7 DEF Window
  <2>10. InRange(ports, "TCP", s.calibandPort)
    <3>1. /\ 1 \in DOMAIN ports /\ ports[1].proto = "TCP"
          /\ ports[1].first = s.calibandPort /\ ports[1].last = s.calibandPort
      BY <2>7 DEF Port
    <3>2. s.calibandPort \in s.calibandPort .. s.calibandPort
      BY <2>0, SMT
    <3> QED
      BY <3>1, <3>2 DEF InRange
  <2>11. /\ SubSeq(host, 1, 3) = <<SandboxName(task), task.namespace, "svc">>
         /\ Len(host) > 3 /\ host[Len(host)] # ""
    <3> DEFINE head == <<SandboxName(task), task.namespace, "svc">>
               domain == s.clusterDomain
               T == STRING \cup {"cluster", "local", ""}
                      \cup {SandboxName(task), task.namespace, "svc"}
    <3>1. env.clusterDomain \in OrNone(Seq(STRING))
      BY DEF IInv, InputOK, Readable
    <3>2. /\ domain \in Seq(STRING \cup {"cluster", "local", ""})
          /\ Len(domain) >= 1 /\ domain[Len(domain)] # ""
      BY <2>4, <3>1, ClusterDomainEnds
    <3>3. /\ head \in Seq(T) /\ Len(head) = 3 /\ domain \in Seq(T)
          /\ Len(domain) \in Nat
      <4>1. STRING \cup {"cluster", "local", ""} \subseteq T
        OBVIOUS
      <4>2. domain \in Seq(T)
        <5> HIDE DEF domain, T
        <5> QED BY <3>2, <4>1, SeqMonotonic
      <4>3. head \in Seq(T) /\ Len(head) = 3
        OBVIOUS
      <4> QED
        BY <4>2, <4>3, LenProperties
    <3> HIDE DEF head, domain, T
    <3>4. /\ head \o domain \in Seq(T) /\ Len(head \o domain) = 3 + Len(domain)
          /\ \A i \in 1 .. 3 + Len(domain) :
               (head \o domain)[i] = IF i <= 3 THEN head[i] ELSE domain[i - 3]
      <4>1. /\ head \o domain \in Seq(T) /\ Len(head \o domain) = Len(head) + Len(domain)
            /\ \A i \in 1 .. Len(head) + Len(domain) :
                 (head \o domain)[i] = IF i <= Len(head) THEN head[i]
                                       ELSE domain[i - Len(head)]
        BY <3>3, ConcatProperties, Zenon
      <4> QED
        BY <3>3, <4>1
    <3>5. host = head \o domain
      BY <2>6 DEF AdvertiseHost, head, domain
    <3> HIDE DEF host
    <3>6. host[Len(host)] = domain[Len(domain)] /\ Len(host) > 3
      <4> DEFINE m == Len(domain)
      <4>1. m \in Nat /\ m >= 1
        BY <3>2, <3>3, Zenon
      <4>2. /\ Len(host) = 3 + m
            /\ \A i \in 1 .. 3 + m :
                 host[i] = IF i <= 3 THEN head[i] ELSE domain[i - 3]
        BY <3>4, <3>5, Zenon
      <4> HIDE DEF m
      <4>3. 3 + m \in 1 .. 3 + m /\ ~(3 + m <= 3) /\ (3 + m) - 3 = m /\ 3 + m > 3
        BY <4>1
      <4>4. host[3 + m] = domain[(3 + m) - 3]
        BY <4>2, <4>3, Zenon
      <4> QED
        BY <4>2, <4>3, <4>4, Zenon DEF m
    <3>7. SubSeq(head \o domain, 1, 3) = SubSeq(head, 1, 3)
      <4>1. 1 \in 1 .. Len(head) /\ 3 \in 1 .. Len(head)
        BY <3>3
      <4> QED
        BY <3>3, <4>1, SubSeqOfConcat1, Zenon
    <3>8. SubSeq(head, 1, 3) = head
      BY <3>3, SubSeqFull
    <3> QED
      BY <3>2, <3>5, <3>6, <3>7, <3>8 DEF Blank, head
  <2>12. /\ s.agentPortBase \in 1 .. s.agentPortEnd /\ s.agentPortEnd <= PortMax
    BY <2>0, <2>1, SMT
  <2>13. {c.port, c.readiness.port, c.startup.port} = {c.args.listen}
    BY <2>5, <2>6, Zenon
  <2> HIDE DEF host
  <2> QED
    BY <2>1, <2>2, <2>5, <2>6, <2>8, <2>9, <2>10, <2>11, <2>12, <2>13, Zenon
<1> QED
  BY <1>1, Evaluation, PTL

\* The selector is read as written, or not at all.
LEMMA SelectorIs ==
  ASSUME Readable(env)
  PROVE  LET es == Text(env.ingressPodSelector, <<>>) IN
         /\ Written(es) = WrittenEntries
         /\ \A i \in WrittenEntries : es[i] = env.ingressPodSelector[i]
         /\ Selector(env) = None <=> \E i \in WrittenEntries : ~Wellformed(es[i])
         /\ Selector(env) # None => Selector(env) = LabelsAt(es, WrittenEntries)
<1> DEFINE es == Text(env.ingressPodSelector, <<>>)
<1>1. Written(es) = WrittenEntries /\ \A i \in WrittenEntries : es[i] = env.ingressPodSelector[i]
  <2>1. CASE env.ingressPodSelector = None
    <3>1. es = <<>> /\ WrittenEntries = {}
      BY <2>1 DEF Text, WrittenEntries
    <3>2. Written(<<>>) = {}
      BY DEF Written
    <3> QED
      BY <3>1, <3>2
  <2>2. CASE env.ingressPodSelector # None
    <3>1. es = env.ingressPodSelector
      BY <2>2 DEF Text
    <3>2. Written(es) = WrittenEntries
      BY <2>2, <3>1, Zenon DEF Written, WrittenEntries, Blank
    <3> QED
      BY <3>1, <3>2
  <2> QED
    BY <2>1, <2>2
<1>2. LabelsAt(es, Written(es)) # None
  BY DEF Readable
<1> HIDE DEF es
<1>3. \A e : Malformed(e) <=> ~Wellformed(e)
  BY DEF Malformed, Wellformed, Blank
<1>4. Selector(env) = IF \E i \in Written(es) : Malformed(es[i]) THEN None
                      ELSE LabelsAt(es, Written(es))
  BY Zenon DEF Selector, ParseSelector, es
<1>5. CASE \E i \in Written(es) : Malformed(es[i])
  BY <1>1, <1>3, <1>4, <1>5, Zenon DEF es
<1>6. CASE ~\E i \in Written(es) : Malformed(es[i])
  BY <1>1, <1>2, <1>3, <1>4, <1>6, Zenon DEF es
<1> QED
  BY <1>5, <1>6

\* Who may reach caliband is what is written, and a typo stops the operator.
THEOREM IngressSelection == Spec => []IngressIsAsWritten
<1>1. IInv => IngressIsAsWritten
  <2> DEFINE es == env.ingressPodSelector
             wanted == IF env.ingressNamespace \in {None, "", " "} THEN task.namespace
                       ELSE env.ingressNamespace
             last == { i \in WrittenEntries :
                         \A j \in WrittenEntries : es[j].key = es[i].key => j <= i }
  <2> SUFFICES ASSUME IInv, Done
               PROVE  /\ out.problem = "environment" <=>
                           \/ \E i \in WrittenEntries : ~Wellformed(es[i])
                           \/ env.leaderElection \notin OrNone(Flags)
                      /\ Applied =>
                           \A p \in Pods :
                             p \in Admitted <=>
                               /\ p.namespace = wanted
                               /\ \A i \in last : <<es[i].key, es[i].value>> \in p.labels
    BY Zenon DEF IngressIsAsWritten
  <2> DEFINE text == Text(es, <<>>)
             s == FromEnv(env)
  <2>1. out.problem = Validate(s) /\ Readable(env)
    BY Outcome DEF IInv, InputOK
  <2>2. /\ Written(text) = WrittenEntries
        /\ \A i \in WrittenEntries : text[i] = es[i]
        /\ Selector(env) = None <=> \E i \in WrittenEntries : ~Wellformed(text[i])
        /\ Selector(env) # None => Selector(env) = LabelsAt(text, WrittenEntries)
    BY <2>1, SelectorIs, Zenon
  <2>3. Election(env) = None <=> env.leaderElection \notin OrNone(Flags)
    BY NoneAssumption DEF Election, ParseBoolFlag, OrNone, Flags
  <2>4. /\ s.ingressPodSelector = IF Selector(env) = None THEN {} ELSE Selector(env)
        /\ s.ingressNamespace = Trimmed(env.ingressNamespace)
        /\ s.envErrors = (IF Selector(env) = None THEN {"CALIBAN_INGRESS_POD_SELECTOR"} ELSE {})
                           \cup (IF Election(env) = None THEN {"CALIBAN_LEADER_ELECTION"} ELSE {})
    BY DEF FromEnv
  <2> HIDE DEF s, text
  <2>5. s.envErrors # {} <=> Selector(env) = None \/ Election(env) = None
    BY <2>4
  <2>6. out.problem = "environment" <=>
          \/ \E i \in WrittenEntries : ~Wellformed(es[i])
          \/ env.leaderElection \notin OrNone(Flags)
    BY <2>1, <2>2, <2>3, <2>5, ValidateFinds
  <2>7. ASSUME Applied, NEW p \in Pods
        PROVE  p \in Admitted <=>
                 /\ p.namespace = wanted
                 /\ \A i \in last : <<es[i].key, es[i].value>> \in p.labels
    <3>1. /\ NetworkPolicy.ingress.from = IngressPeer(task, s)
          /\ Validate(s) = None
      BY <2>7, AppliedIs DEF BuildNetworkPolicy, s
    <3>2. s.ingressPodSelector = LabelsAt(text, WrittenEntries)
      BY <2>2, <2>4, <2>5, <3>1, ValidateFinds
    <3>3. LabelsAt(text, WrittenEntries) = { <<es[i].key, es[i].value>> : i \in last }
      BY <2>2 DEF LabelsAt
    <3>4. NetworkPolicy.ingress.from.namespace = wanted
      <4>1. NetworkPolicy.ingress.from.namespace =
              IF s.ingressNamespace = None THEN task.namespace ELSE s.ingressNamespace
        BY <3>1 DEF IngressPeer
      <4>2. s.ingressNamespace = IF env.ingressNamespace \in {"", " "} THEN None
                                 ELSE env.ingressNamespace
        BY <2>4, Zenon DEF Trimmed, Blank
      <4> QED
        BY <4>1, <4>2, Zenon
    <3>5. NetworkPolicy.ingress.from.labels = { <<es[i].key, es[i].value>> : i \in last }
      BY <3>1, <3>2, <3>3 DEF IngressPeer
    <3>6. p \in Admitted <=> /\ p.namespace = NetworkPolicy.ingress.from.namespace
                             /\ NetworkPolicy.ingress.from.labels \subseteq p.labels
      BY DEF Admitted
    <3> HIDE DEF wanted, last
    <3> QED
      BY <3>4, <3>5, <3>6
  <2> QED
    BY <2>6, <2>7
<1> QED
  BY <1>1, Evaluation, PTL

-----------------------------------------------------------------------------
(* Names. *)

\* The concatenation of two lists, position by position.
LEMMA ConcatAt ==
  ASSUME NEW T, NEW s \in Seq(T), NEW t \in Seq(T)
  PROVE  /\ s \o t \in Seq(T) /\ Len(s) \in Nat /\ Len(t) \in Nat
         /\ DOMAIN (s \o t) = 1 .. Len(s) + Len(t) /\ Len(s \o t) = Len(s) + Len(t)
         /\ \A i \in 1 .. Len(s) : (s \o t)[i] = s[i]
         /\ \A i \in 1 .. Len(t) : (s \o t)[Len(s) + i] = t[i]
<1>1. /\ s \o t \in Seq(T) /\ Len(s) \in Nat /\ Len(t) \in Nat
      /\ Len(s \o t) = Len(s) + Len(t)
      /\ \A i \in 1 .. Len(s) + Len(t) :
           (s \o t)[i] = IF i <= Len(s) THEN s[i] ELSE t[i - Len(s)]
  BY ConcatProperties, LenProperties
<1>2. ASSUME NEW i \in 1 .. Len(s) PROVE (s \o t)[i] = s[i]
  <2>1. i \in 1 .. Len(s) + Len(t) /\ i <= Len(s)
    BY <1>1
  <2> QED
    BY <1>1, <2>1
<1>3. ASSUME NEW i \in 1 .. Len(t) PROVE (s \o t)[Len(s) + i] = t[i]
  <2>1. /\ Len(s) + i \in 1 .. Len(s) + Len(t) /\ ~(Len(s) + i <= Len(s))
        /\ Len(s) + i - Len(s) = i
    BY <1>1
  <2> QED
    BY <1>1, <2>1
<1>4. DOMAIN (s \o t) = 1 .. Len(s) + Len(t)
  BY <1>1, LenProperties
<1> QED
  BY <1>1, <1>2, <1>3, <1>4

\* A task name is refused exactly when its Service's would be too long, and the
\* children of an accepted one have names the API server takes.
THEOREM ChildNames == Spec => []NamesFit
<1>1. IInv => NamesFit
  <2> SUFFICES ASSUME IInv
               PROVE  LET n == task.name
                          fits == TaskNameProblem(task) = None
                          dns == n[1] \in Letter /\ \A i \in DOMAIN n : n[i] # "."
                      IN  /\ fits /\ dns <=> ServiceLabel(SandboxName(task))
                          /\ fits => /\ Len(n) <= 63
                                     /\ \A name \in {SaName(task), NetpolName(task)} :
                                          Subdomain(name) /\ Len(name) <= 253
    BY Zenon DEF NamesFit
  <2> DEFINE n == task.name
             sbx == <<"-", "s", "b", "x">>
             fits == TaskNameProblem(task) = None
             dns == n[1] \in Letter /\ \A i \in DOMAIN n : n[i] # "."
  <2>1. /\ n \in Seq(Character) /\ n # <<>> /\ Subdomain(n)
    BY TaskShape DEF IInv, InputOK, TaskNames
  <2>2. /\ {"a", "s", "b", "x", "n", "e", "t", "p", "o", "l"} \subseteq Letter
        /\ "-" \notin Letter \cup Digit /\ "." \notin Letter \cup Digit
        /\ Letter \cup Digit \cup {"-", "."} = Character
    BY CharacterAssumption DEF Character
  <2>3. Len(n) \in Nat /\ Len(n) >= 1 /\ DOMAIN n = 1 .. Len(n)
    BY <2>1, EmptySeq, LenProperties
  <2> HIDE DEF n
  <2>4. ASSUME NEW suffix \in Seq(Letter \cup {"-"}), Len(suffix) >= 2, suffix[1] = "-",
               \A k \in 2 .. Len(suffix) : suffix[k] \in Letter
        PROVE  Subdomain(n \o suffix)
    <3> DEFINE name == n \o suffix
               m == Len(suffix)
    <3>1. suffix \in Seq(Character)
      <4>1. Letter \cup {"-"} \subseteq Character
        BY <2>2
      <4> QED
        BY <4>1, SeqMonotonic
    <3>2. /\ m \in Nat /\ DOMAIN name = 1 .. Len(n) + m /\ Len(name) = Len(n) + m
          /\ \A i \in 1 .. Len(n) : name[i] = n[i]
          /\ \A i \in 1 .. m : name[Len(n) + i] = suffix[i]
      BY <2>1, <3>1, ConcatAt
    <3> HIDE DEF name, m
    <3>3. n[Len(n)] \in Letter \cup Digit
      <4>1. Len(n) \in DOMAIN n
        BY <2>3
      <4>2. n[Len(n)] \notin {"-", "."}
        BY <2>1, <4>1 DEF Subdomain
      <4>3. n[Len(n)] \in Character
        BY <2>1, <2>3, ElementOfSeq
      <4> QED
        BY <2>2, <4>2, <4>3
    <3>4. ASSUME NEW i \in DOMAIN name, name[i] \in {"-", "."}
          PROVE  /\ i \notin {1, Len(name)}
                 /\ name[i] = "." => name[i - 1] \in Letter \cup Digit
                 /\ name[i] = "." => name[i + 1] \in Letter \cup Digit
      <4>1. CASE i \in 1 .. Len(n)
        <5>1. i \in DOMAIN n /\ n[i] \in {"-", "."} /\ name[i] = n[i]
          BY <2>3, <3>2, <3>4, <4>1
        <5>2. /\ i \notin {1, Len(n)}
              /\ n[i] = "." => n[i - 1] \in Letter \cup Digit
              /\ n[i] = "." => n[i + 1] \in Letter \cup Digit
          BY <2>1, <5>1 DEF Subdomain
        <5>3. i - 1 \in 1 .. Len(n) /\ i + 1 \in 1 .. Len(n)
          BY <2>3, <4>1, <5>2
        <5>4. name[i - 1] = n[i - 1] /\ name[i + 1] = n[i + 1] /\ i # Len(name) /\ i # 1
          BY <2>3, <2>4, <3>2, <5>2, <5>3 DEF m
        <5> QED
          BY <5>1, <5>2, <5>4
      <4>2. CASE i \notin 1 .. Len(n)
        <5>1. PICK k \in 1 .. m : i = Len(n) + k
          <6>1. i - Len(n) \in 1 .. m /\ i = Len(n) + (i - Len(n))
            BY <2>3, <3>2, <4>2
          <6> QED
            BY <6>1
        <5>2. name[i] = suffix[k]
          BY <3>2, <5>1
        <5>3. k = 1
          <6>1. k \in 2 .. m => suffix[k] \in Letter
            BY <2>4 DEF m
          <6>2. suffix[k] \notin Letter
            BY <2>2, <3>4, <5>2
          <6>3. k \in 2 .. m \/ k = 1
            BY <3>2
          <6> QED
            BY <6>1, <6>2, <6>3
        <5>4. name[i] = "-" /\ "-" # "."
          BY <2>4, <5>2, <5>3
        <5>5. i # 1 /\ i # Len(name)
          BY <2>3, <2>4, <3>2, <5>1, <5>3 DEF m
        <5> QED
          BY <5>4, <5>5
      <4> QED
        BY <4>1, <4>2
    <3> QED
      BY <3>4 DEF Subdomain, name
  <2>5. SandboxName(task) = n \o sbx /\ SaName(task) = n \o <<"-", "s", "a">>
          /\ NetpolName(task) = n \o <<"-", "n", "e", "t", "p", "o", "l">>
    BY DEF SandboxName, SaName, NetpolName, n
  <2>6. sbx \in Seq(Character) /\ Len(sbx) = 4
    BY <2>2
  <2> DEFINE label == SandboxName(task)
  <2>7. /\ Len(label) = Len(n) + 4 /\ DOMAIN label = 1 .. Len(n) + 4
        /\ \A i \in 1 .. Len(n) : label[i] = n[i]
        /\ \A i \in 1 .. 4 : label[Len(n) + i] = sbx[i]
    BY <2>1, <2>5, <2>6, ConcatAt
  <2>8. fits <=> Len(n) + 4 <= 63
    <3>1. "name too long" # None
      BY NoneAssumption DEF Literals
    <3> QED
      <4>1. TaskNameProblem(task) = IF Len(label) > ServiceNameMax THEN "name too long" ELSE None
        BY Zenon DEF TaskNameProblem
      <4> HIDE DEF label
      <4>2. ServiceNameMax = 63 /\ Len(label) \in Nat
        BY <2>3, <2>7 DEF ServiceNameMax
      <4>3. fits <=> ~(Len(label) > ServiceNameMax)
        BY <3>1, <4>1, Zenon
      <4>4. ~(Len(label) > ServiceNameMax) <=> Len(n) + 4 <= 63
        BY <2>3, <2>7, <4>2
      <4> QED
        BY <4>3, <4>4, Zenon
  <2> HIDE DEF label
  <2>9. fits /\ dns <=> ServiceLabel(label)
    <3>1. /\ 1 \in 1 .. Len(n) /\ label[1] = n[1]
          /\ label[Len(label)] = "x"
      <4>1. 1 \in 1 .. Len(n) /\ Len(n) + 4 = Len(label) /\ 4 \in 1 .. 4
        BY <2>3, <2>7
      <4>2. label[Len(n) + 4] = sbx[4]
        BY <2>7, <4>1
      <4> QED
        BY <2>7, <4>1, <4>2
    <3>2. Len(label) \in 1 .. 63 <=> fits
      <4>1. Len(label) \in 1 .. 63 <=> Len(n) + 4 <= 63
        <5>1. \A m \in Nat : m >= 1 => (m + 4 \in 1 .. 63 <=> m + 4 <= 63)
          OBVIOUS
        <5>2. Len(n) + 4 \in 1 .. 63 <=> Len(n) + 4 <= 63
          BY <2>3, <5>1
        <5> QED
          BY <2>7, <5>2, Zenon
      <4> QED
        BY <2>8, <4>1, Zenon
    <3>3. (\A i \in DOMAIN label : label[i] \in Letter \cup Digit \cup {"-"})
            <=> \A i \in DOMAIN n : n[i] # "."
      <4>1. ASSUME \A i \in DOMAIN label : label[i] \in Letter \cup Digit \cup {"-"},
                   NEW i \in DOMAIN n
            PROVE  n[i] # "."
        <5>1. i \in DOMAIN label /\ label[i] = n[i]
          BY <2>3, <2>7
        <5> QED
          BY <2>2, <4>1, <5>1
      <4>2. ASSUME \A i \in DOMAIN n : n[i] # ".", NEW i \in DOMAIN label
            PROVE  label[i] \in Letter \cup Digit \cup {"-"}
        <5>1. CASE i \in 1 .. Len(n)
          <6>1. n[i] \in Character /\ label[i] = n[i] /\ n[i] # "."
            BY <2>1, <2>3, <2>7, <4>2, <5>1, ElementOfSeq
          <6> QED
            BY <2>2, <6>1
        <5>2. CASE i \notin 1 .. Len(n)
          <6>1. i - Len(n) \in 1 .. 4 /\ i = Len(n) + (i - Len(n))
            BY <2>3, <2>7, <5>2
          <6>2. label[i] = sbx[i - Len(n)]
            BY <2>7, <6>1
          <6>3. \A k \in 1 .. 4 : sbx[k] \in {"-", "s", "b", "x"}
            OBVIOUS
          <6> QED
            BY <2>2, <6>1, <6>2, <6>3
        <5> QED
          BY <5>1, <5>2
      <4> QED
        BY <4>1, <4>2
    <3>4. "x" \in Letter
      BY <2>2
    <3> QED
      BY <3>1, <3>2, <3>3, <3>4, Zenon DEF ServiceLabel
  <2>10. Subdomain(SaName(task)) /\ Subdomain(NetpolName(task))
    <3>1. /\ <<"-", "s", "a">> \in Seq(Letter \cup {"-"})
          /\ \A k \in 2 .. Len(<<"-", "s", "a">>) : <<"-", "s", "a">>[k] \in Letter
          /\ Len(<<"-", "s", "a">>) >= 2 /\ <<"-", "s", "a">>[1] = "-"
      BY <2>2
    <3>2. /\ <<"-", "n", "e", "t", "p", "o", "l">> \in Seq(Letter \cup {"-"})
          /\ \A k \in 2 .. Len(<<"-", "n", "e", "t", "p", "o", "l">>) :
               <<"-", "n", "e", "t", "p", "o", "l">>[k] \in Letter
          /\ Len(<<"-", "n", "e", "t", "p", "o", "l">>) >= 2
          /\ <<"-", "n", "e", "t", "p", "o", "l">>[1] = "-"
      BY <2>2
    <3>3. Subdomain(n \o <<"-", "s", "a">>)
      BY <2>4, <3>1, Zenon
    <3>4. Subdomain(n \o <<"-", "n", "e", "t", "p", "o", "l">>)
      BY <2>4, <3>2, Zenon
    <3> QED
      BY <2>5, <3>3, <3>4
  <2>11. fits => Len(n) <= 63 /\ Len(SaName(task)) <= 253 /\ Len(NetpolName(task)) <= 253
    <3>1. /\ <<"-", "s", "a">> \in Seq(Character) /\ Len(<<"-", "s", "a">>) = 3
          /\ <<"-", "n", "e", "t", "p", "o", "l">> \in Seq(Character)
          /\ Len(<<"-", "n", "e", "t", "p", "o", "l">>) = 7
      BY <2>2
    <3>2. Len(SaName(task)) = Len(n) + 3 /\ Len(NetpolName(task)) = Len(n) + 7
      BY <2>1, <2>5, <3>1, ConcatAt
    <3> QED
      BY <2>3, <2>8, <3>2
  <2> QED
    BY <2>9, <2>10, <2>11 DEF label, n
<1> QED
  BY <1>1, Evaluation, PTL

-----------------------------------------------------------------------------
(* The environment of the container. *)

\* No entry of a list has the name, or e is the only one that does.
Lacks(s, name) == \A i \in DOMAIN s : s[i].name # name
Sole(s, name, e) ==
  \E i \in DOMAIN s : s[i] = e /\ \A j \in DOMAIN s : s[j].name = name <=> j = i

LEMMA ConcatLacks ==
  ASSUME NEW T, NEW s \in Seq(T), NEW t \in Seq(T), NEW name,
         Lacks(s, name), Lacks(t, name)
  PROVE  Lacks(s \o t, name)
<1>1. ASSUME NEW i \in DOMAIN (s \o t) PROVE (s \o t)[i].name # name
  <2>1. i \in 1 .. Len(s) + Len(t) /\ DOMAIN s = 1 .. Len(s) /\ DOMAIN t = 1 .. Len(t)
    BY ConcatAt, LenProperties
  <2>2. CASE i \in 1 .. Len(s)
    BY <2>1, <2>2, ConcatAt DEF Lacks
  <2>3. CASE i \notin 1 .. Len(s)
    <3>1. i - Len(s) \in 1 .. Len(t) /\ i = Len(s) + (i - Len(s))
      BY <2>1, <2>3, LenProperties
    <3>2. (s \o t)[i] = t[i - Len(s)]
      BY <3>1, ConcatAt
    <3> QED
      BY <2>1, <3>1, <3>2 DEF Lacks
  <2> QED
    BY <2>2, <2>3
<1> QED
  BY <1>1 DEF Lacks

LEMMA ConcatSole ==
  ASSUME NEW T, NEW s \in Seq(T), NEW t \in Seq(T), NEW name, NEW e,
         \/ Sole(s, name, e) /\ Lacks(t, name)
         \/ Lacks(s, name) /\ Sole(t, name, e)
  PROVE  Sole(s \o t, name, e)
<1>1. /\ DOMAIN s = 1 .. Len(s) /\ DOMAIN t = 1 .. Len(t)
      /\ DOMAIN (s \o t) = 1 .. Len(s) + Len(t) /\ Len(s) \in Nat /\ Len(t) \in Nat
      /\ \A i \in 1 .. Len(s) : (s \o t)[i] = s[i]
      /\ \A i \in 1 .. Len(t) : (s \o t)[Len(s) + i] = t[i]
  BY ConcatAt, LenProperties
<1>2. ASSUME NEW j \in DOMAIN (s \o t)
      PROVE  j \in 1 .. Len(s) \/ \E k \in 1 .. Len(t) : j = Len(s) + k
  <2>1. j \notin 1 .. Len(s) => j - Len(s) \in 1 .. Len(t) /\ j = Len(s) + (j - Len(s))
    BY <1>1
  <2> QED
    BY <2>1
<1>3. CASE Sole(s, name, e) /\ Lacks(t, name)
  <2>1. PICK i \in DOMAIN s : s[i] = e /\ \A j \in DOMAIN s : s[j].name = name <=> j = i
    BY <1>3 DEF Sole
  <2>2. i \in DOMAIN (s \o t) /\ (s \o t)[i] = e
    BY <1>1, <2>1
  <2>3. ASSUME NEW j \in DOMAIN (s \o t) PROVE (s \o t)[j].name = name <=> j = i
    <3>1. CASE j \in 1 .. Len(s)
      BY <1>1, <2>1, <3>1
    <3>2. CASE \E k \in 1 .. Len(t) : j = Len(s) + k
      <4>1. PICK k \in 1 .. Len(t) : j = Len(s) + k
        BY <3>2
      <4>2. (s \o t)[j] = t[k] /\ t[k].name # name
        BY <1>1, <1>3, <4>1 DEF Lacks
      <4>3. j # i
        BY <1>1, <4>1
      <4> QED
        BY <4>2, <4>3
    <3> QED
      BY <1>2, <3>1, <3>2
  <2> QED
    BY <2>2, <2>3 DEF Sole
<1>4. CASE Lacks(s, name) /\ Sole(t, name, e)
  <2>1. PICK i \in DOMAIN t : t[i] = e /\ \A j \in DOMAIN t : t[j].name = name <=> j = i
    BY <1>4 DEF Sole
  <2>2. Len(s) + i \in DOMAIN (s \o t) /\ (s \o t)[Len(s) + i] = e
    BY <1>1, <2>1
  <2>3. ASSUME NEW j \in DOMAIN (s \o t) PROVE (s \o t)[j].name = name <=> j = Len(s) + i
    <3>1. CASE j \in 1 .. Len(s)
      <4>1. (s \o t)[j].name # name
        BY <1>1, <1>4, <3>1 DEF Lacks
      <4>2. j # Len(s) + i
        BY <1>1, <3>1
      <4> QED
        BY <4>1, <4>2
    <3>2. CASE \E k \in 1 .. Len(t) : j = Len(s) + k
      <4>1. PICK k \in 1 .. Len(t) : j = Len(s) + k
        BY <3>2
      <4>2. (s \o t)[j] = t[k] /\ (t[k].name = name <=> k = i)
        BY <1>1, <2>1, <4>1
      <4>3. j = Len(s) + i <=> k = i
        <5>1. i \in Int /\ k \in Int /\ Len(s) \in Int
          BY <1>1
        <5> QED
          BY <4>1, <5>1
      <4> QED
        BY <4>2, <4>3
    <3> QED
      BY <1>2, <3>1, <3>2
  <2> QED
    BY <2>2, <2>3 DEF Sole
<1> QED
  BY <1>3, <1>4

\* A list that lacks the name does not change what there is of it.
LEMMA ConcatKeeps ==
  ASSUME NEW T, NEW s \in Seq(T), NEW t \in Seq(T), NEW name, Lacks(t, name)
  PROVE  /\ s \o t \in Seq(T)
         /\ Lacks(s, name) => Lacks(s \o t, name)
         /\ \A e : Sole(s, name, e) => Sole(s \o t, name, e)
BY ConcatProperties, ConcatLacks, ConcatSole, Zenon

\* What there is of a name, when it is one entry or none.
LEMMA SoleEntry ==
  ASSUME NEW T, Env \in Seq(T), NEW name
  PROVE  /\ Lacks(Env, name) => EntriesOf(name) = {}
         /\ \A e : Sole(Env, name, e) =>
              /\ EntriesOf(name) # {} /\ Cardinality(EntriesOf(name)) = 1
              /\ Effective(name) = e
<1>1. Lacks(Env, name) => EntriesOf(name) = {}
  BY DEF Lacks, EntriesOf
<1>2. ASSUME NEW e, Sole(Env, name, e)
      PROVE  /\ EntriesOf(name) # {} /\ Cardinality(EntriesOf(name)) = 1
             /\ Effective(name) = e
  <2>1. PICK i \in DOMAIN Env : Env[i] = e /\ \A j \in DOMAIN Env : Env[j].name = name <=> j = i
    BY <1>2 DEF Sole
  <2>2. EntriesOf(name) = {i}
    BY <2>1 DEF EntriesOf
  <2>3. i \in 1 .. Len(Env) /\ i <= i
    BY <2>1, LenProperties
  <2> QED
    BY <2>1, <2>2, <2>3, FS_Singleton DEF Effective
<1> QED
  BY <1>1, <1>2

\* The parts of the environment: the operator's own entries, the typed policy's,
\* and of the Workspace's those that do not name a policy variable.
Router(t) ==
  Optional(t.routerConfigRef # None,
           << Plain("CALIBAN_ROUTER_CONFIG", "/etc/caliban/router/caliban.toml") >>)
Own(t, rw) ==
  StorageEnv(t.state) \o Router(t) \o ProviderEnv(rw.provider)
Raw(rw) ==
  Subsequence(rw.env, { i \in DOMAIN rw.env :
                          rw.env[i].name \notin Names(AgentPolicyEnv(rw.agentPolicy)) })

\* Every entry there may be.
PolicyEntries(policy) ==
  { Plain(PolicyVariables[i].name, policy[PolicyVariables[i].field]) : i \in 1 .. 11 }
Entries(t, rw) ==
  { Plain("CALIBAN_STORAGE_SUBSTRATE", Substrate(t.state)),
    Plain("CALIBAN_STORAGE_REMOTE_URL", "endpoint"),
    Plain("CALIBAN_STORAGE_REMOTE_TOKEN_ENV", "GONZALO_TOKEN"),
    FromSecret("GONZALO_TOKEN", t.state.tokenRef),
    Plain("CALIBAN_ROUTER_CONFIG", "/etc/caliban/router/caliban.toml"),
    Plain("CALIBAN_PROVIDER", rw.provider.kind.text),
    Plain(EnvPrefix(rw.provider.kind) \o "_BASE_URL", rw.provider.baseUrl),
    FromSecret(EnvPrefix(rw.provider.kind) \o "_API_KEY", rw.provider.credentialsRef) }
  \cup PolicyEntries(rw.agentPolicy) \cup EnvEntry(STRING, STRING)

\* What is pinned for a task that launches.
LEMMA PinIs ==
  ASSUME IInv, Launches
  PROVE  /\ Pin.env = spec.env /\ Pin.env \in Seq(EnvEntry(STRING, STRING))
         /\ Pin.agentPolicy = spec.agentPolicy
         /\ Pin.egress = spec.egress /\ Pin.sources = spec.sources
         /\ Pin.runtimeClass = spec.runtimeClass
         /\ Pin.provider.kind \in Kinds
         /\ Pin.provider.baseUrl \in OrNone(STRING)
<1>1. Resolution.ok /\ Pin = WithModel(Resolution.pin, task.model)
  BY LaunchIsAdmitted
<1>2. PICK k \in DOMAIN spec.providers :
        /\ Resolution.pin = Pinned(spec, spec.providers[k])
        /\ spec.providers[k] \in Providers
  BY <1>1, BoundPin
<1> DEFINE p == spec.providers[k]
           pin == Resolution.pin
<1>3. /\ p = [name |-> p.name, kind |-> p.kind, baseUrl |-> p.baseUrl,
              model |-> p.model, credentialsRef |-> p.credentialsRef]
      /\ p.kind \in Kinds /\ p.baseUrl \in OrNone(STRING)
      /\ pin = [sources |-> spec.sources, provider |-> p, env |-> spec.env,
                runtimeClass |-> spec.runtimeClass, egress |-> spec.egress,
                agentPolicy |-> spec.agentPolicy]
  BY <1>2, ProviderShape DEF Pinned
<1> HIDE DEF p, pin
<1>4. ASSUME Pin = pin
      PROVE  /\ Pin.env = spec.env /\ Pin.agentPolicy = spec.agentPolicy
             /\ Pin.egress = spec.egress /\ Pin.sources = spec.sources
             /\ Pin.runtimeClass = spec.runtimeClass
             /\ Pin.provider.kind \in Kinds
             /\ Pin.provider.baseUrl \in OrNone(STRING)
  BY <1>3, <1>4
<1>5. ASSUME NEW m, Pin = [pin EXCEPT !.provider.model = m]
      PROVE  /\ Pin.env = spec.env /\ Pin.agentPolicy = spec.agentPolicy
             /\ Pin.egress = spec.egress /\ Pin.sources = spec.sources
             /\ Pin.runtimeClass = spec.runtimeClass
             /\ Pin.provider.kind \in Kinds
             /\ Pin.provider.baseUrl \in OrNone(STRING)
  BY <1>3, <1>5
<1>6. Pin = pin \/ \E m : Pin = [pin EXCEPT !.provider.model = m]
  BY <1>1, Zenon DEF WithModel, pin
<1>7. spec.env \in Seq(EnvEntry(STRING, STRING))
  BY WorkspaceShape DEF IInv, InputOK
<1>8. /\ Pin.env = spec.env /\ Pin.agentPolicy = spec.agentPolicy
      /\ Pin.egress = spec.egress /\ Pin.sources = spec.sources
      /\ Pin.runtimeClass = spec.runtimeClass
      /\ Pin.provider.kind \in Kinds
      /\ Pin.provider.baseUrl \in OrNone(STRING)
  BY <1>4, <1>5, <1>6
<1> QED
  BY <1>7, <1>8, Zenon

\* What the environment of a container is made of.
LEMMA EnvParts ==
  ASSUME NEW t, NEW rw, rw.env \in Seq(EnvEntry(STRING, STRING)), NEW s
  PROVE  LET T == Entries(t, rw)
             token == << FromSecret("CALIBAN_DAEMON_TOKEN", SessionToken(s)) >>
             policy == AgentPolicyEnv(rw.agentPolicy)
         IN  /\ StorageEnv(t.state) \in Seq(T) /\ Router(t) \in Seq(T)
             /\ ProviderEnv(rw.provider) \in Seq(T)
             /\ Own(t, rw) \in Seq(T) /\ policy \in Seq(T) /\ Raw(rw) \in Seq(T)
             /\ CalibandEnv(t, rw) = (Own(t, rw) \o policy) \o Raw(rw)
             /\ CalibandEnv(t, rw) \in Seq(T)
             /\ ContainerEnv(t, rw, s) = CalibandEnv(t, rw) \o token
<1> DEFINE T == Entries(t, rw)
           policy == AgentPolicyEnv(rw.agentPolicy)
<1>1. StorageEnv(t.state) \in Seq(T)
  <2> DEFINE first == Optional(Substrate(t.state) # None,
                        << Plain("CALIBAN_STORAGE_SUBSTRATE", Substrate(t.state)) >>)
             second == Optional(Substrate(t.state) = "remote" /\ t.state.endpoint,
                         << Plain("CALIBAN_STORAGE_REMOTE_URL", "endpoint") >>)
             third == Optional(Substrate(t.state) = "remote" /\ t.state.tokenRef # None,
                        << Plain("CALIBAN_STORAGE_REMOTE_TOKEN_ENV", "GONZALO_TOKEN"),
                           FromSecret("GONZALO_TOKEN", t.state.tokenRef) >>)
  <2>1. /\ Plain("CALIBAN_STORAGE_SUBSTRATE", Substrate(t.state)) \in T
        /\ Plain("CALIBAN_STORAGE_REMOTE_URL", "endpoint") \in T
        /\ Plain("CALIBAN_STORAGE_REMOTE_TOKEN_ENV", "GONZALO_TOKEN") \in T
        /\ FromSecret("GONZALO_TOKEN", t.state.tokenRef) \in T
    BY Zenon DEF Entries
  <2> HIDE DEF T
  <2>2. first \in Seq(T) /\ second \in Seq(T) /\ third \in Seq(T) /\ <<>> \in Seq(T)
    BY <2>1 DEF Optional
  <2>3. StorageEnv(t.state) = IF t.state = None THEN <<>> ELSE first \o second \o third
    BY Zenon DEF StorageEnv
  <2> HIDE DEF first, second, third
  <2> QED
    BY <2>2, <2>3, ConcatProperties
<1>2. ProviderEnv(rw.provider) \in Seq(T)
  <2> DEFINE p == rw.provider
             first == << Plain("CALIBAN_PROVIDER", p.kind.text) >>
             second == Optional(p.baseUrl # None,
                         << Plain(EnvPrefix(p.kind) \o "_BASE_URL", p.baseUrl) >>)
             third == Optional(p.credentialsRef # None,
                        << FromSecret(EnvPrefix(p.kind) \o "_API_KEY", p.credentialsRef) >>)
  <2>1. /\ Plain("CALIBAN_PROVIDER", p.kind.text) \in T
        /\ Plain(EnvPrefix(p.kind) \o "_BASE_URL", p.baseUrl) \in T
        /\ FromSecret(EnvPrefix(p.kind) \o "_API_KEY", p.credentialsRef) \in T
    BY Zenon DEF Entries
  <2> HIDE DEF T
  <2>2. first \in Seq(T) /\ second \in Seq(T) /\ third \in Seq(T)
    BY <2>1 DEF Optional
  <2>3. ProviderEnv(rw.provider) = first \o second \o third
    BY Zenon DEF ProviderEnv
  <2> HIDE DEF first, second, third
  <2> QED
    BY <2>2, <2>3, ConcatProperties
<1>3. Router(t) \in Seq(T)
  <2>1. Plain("CALIBAN_ROUTER_CONFIG", "/etc/caliban/router/caliban.toml") \in T
    BY Zenon DEF Entries
  <2> HIDE DEF T
  <2> QED
    BY <2>1 DEF Router, Optional
<1>4. policy \in Seq(T)
  <2> DEFINE all == [i \in DOMAIN PolicyVariables |->
                       Plain(PolicyVariables[i].name,
                             rw.agentPolicy[PolicyVariables[i].field])]
             I == { i \in DOMAIN PolicyVariables :
                      rw.agentPolicy[PolicyVariables[i].field] # None }
  <2>1. DOMAIN PolicyVariables = 1 .. 11
    BY DEF PolicyVariables
  <2>2. ASSUME NEW i \in 1 .. 11
        PROVE  Plain(PolicyVariables[i].name, rw.agentPolicy[PolicyVariables[i].field]) \in T
    BY Zenon DEF Entries, PolicyEntries
  <2>3. policy = IF rw.agentPolicy = None THEN <<>> ELSE Subsequence(all, I)
    BY Zenon DEF AgentPolicyEnv
  <2> HIDE DEF T, policy, I
  <2>4. all \in Seq(T)
    BY <2>1, <2>2
  <2> HIDE DEF all
  <2>5. Subsequence(all, I) \in Seq(T) /\ <<>> \in Seq(T)
    BY <2>4, SubsequenceType
  <2> QED
    BY <2>3, <2>5
<1>5. Raw(rw) \in Seq(T)
  <2>1. EnvEntry(STRING, STRING) \subseteq T
    BY DEF Entries
  <2> HIDE DEF T
  <2>2. rw.env \in Seq(T)
    BY <2>1, SeqMonotonic
  <2> QED
    BY <2>2, SubsequenceType DEF Raw
<1> HIDE DEF T
<1>6. Own(t, rw) \in Seq(T)
  <2>1. Own(t, rw) = StorageEnv(t.state) \o Router(t) \o ProviderEnv(rw.provider)
    BY DEF Own
  <2> QED
    BY <1>1, <1>2, <1>3, <2>1, ConcatProperties
<1>7. CalibandEnv(t, rw) = (Own(t, rw) \o policy) \o Raw(rw)
  BY Zenon DEF CalibandEnv, Own, Raw, Router
<1> HIDE DEF policy
<1>8. CalibandEnv(t, rw) \in Seq(T)
  BY <1>4, <1>5, <1>6, <1>7, ConcatProperties
<1> QED
  BY <1>1, <1>2, <1>3, <1>4, <1>5, <1>6, <1>7, <1>8, Zenon DEF ContainerEnv, T, policy

\* The token is the last entry, and kubelet takes the last one of a name.
LEMMA LastToken ==
  ASSUME IInv, Applied
  PROVE  Effective("CALIBAN_DAEMON_TOKEN").from = SessionToken(FromEnv(env))
<1> DEFINE s == FromEnv(env)
           T == Entries(task, Pin)
           entry == FromSecret("CALIBAN_DAEMON_TOKEN", SessionToken(s))
           before == CalibandEnv(task, Pin)
<1>1. Env = before \o <<entry>> /\ before \in Seq(T)
  BY AppliedIs, PinIs, EnvParts
<1> HIDE DEF T, s, before
<1>2. entry.name = "CALIBAN_DAEMON_TOKEN" /\ entry.from = SessionToken(s)
  BY DEF FromSecret
<1> HIDE DEF entry
<1>3. /\ DOMAIN Env = 1 .. Len(before) + 1 /\ Len(before) \in Nat
      /\ Env[Len(before) + 1] = entry
  <2>1. before \in Seq(T \cup {entry}) /\ <<entry>> \in Seq(T \cup {entry})
    BY <1>1, SeqMonotonic
  <2>2. Len(<<entry>>) = 1 /\ <<entry>>[1] = entry
    OBVIOUS
  <2> QED
    BY <1>1, <2>1, <2>2, ConcatAt
<1> DEFINE mine == EntriesOf("CALIBAN_DAEMON_TOKEN")
           last == CHOOSE i \in mine : \A j \in mine : j <= i
<1>4. Len(before) + 1 \in mine /\ \A j \in mine : j \in 1 .. Len(before) + 1
  BY <1>2, <1>3 DEF EntriesOf
<1> HIDE DEF mine
<1>5. last \in mine /\ \A j \in mine : j <= last
  BY <1>3, <1>4
<1> HIDE DEF last
<1>6. last = Len(before) + 1
  <2>1. last \in 1 .. Len(before) + 1 /\ Len(before) + 1 <= last
    BY <1>4, <1>5
  <2> QED
    BY <1>3, <2>1
<1>7. Effective("CALIBAN_DAEMON_TOKEN") = Env[last]
  BY DEF Effective, last, mine
<1> QED
  BY <1>2, <1>3, <1>6, <1>7 DEF s

\* The daemon's token is the operator's own.
THEOREM TokenIsKept == Spec => []DaemonTokenIsTheOperators
<1>1. IInv => DaemonTokenIsTheOperators
  <2> SUFFICES ASSUME IInv, Applied
               PROVE  Effective("CALIBAN_DAEMON_TOKEN").from =
                        [secretName |-> out.settings.sessionTokenSecret,
                         key |-> out.settings.sessionTokenKey]
    BY DEF DaemonTokenIsTheOperators
  <2>1. out.settings = FromEnv(env)
    BY AppliedIs
  <2> QED
    BY <2>1, LastToken DEF SessionToken
<1> QED
  BY <1>1, Evaluation, PTL

\* What a provider is given has names of its own.
LEMMA ProviderLacks ==
  ASSUME NEW p, p.kind \in Kinds,
         NEW name \in FixedVariables, name # "CALIBAN_PROVIDER"
  PROVE  Lacks(ProviderEnv(p), name)
<1> DEFINE first == Plain("CALIBAN_PROVIDER", p.kind.text)
           url == Plain(EnvPrefix(p.kind) \o "_BASE_URL", p.baseUrl)
           key == FromSecret(EnvPrefix(p.kind) \o "_API_KEY", p.credentialsRef)
           T == {first, url, key}
           second == Optional(p.baseUrl # None, <<url>>)
           third == Optional(p.credentialsRef # None, <<key>>)
<1>1. first.name # name
  BY DEF Plain
<1>2. url.name # name /\ key.name # name
  <2>1. name \notin {EnvPrefix(p.kind) \o "_BASE_URL", EnvPrefix(p.kind) \o "_API_KEY"}
    BY Zenon DEF Kinds, ProviderVariables
  <2>2. /\ url.name = EnvPrefix(p.kind) \o "_BASE_URL"
        /\ key.name = EnvPrefix(p.kind) \o "_API_KEY"
    BY DEF Plain, FromSecret
  <2> HIDE DEF url, key
  <2> QED
    BY <2>1, <2>2, Zenon
<1>3. ProviderEnv(p) = <<first>> \o second \o third
  BY Zenon DEF ProviderEnv
<1>4. first \in T /\ url \in T /\ key \in T
  OBVIOUS
<1> HIDE DEF first, url, key, T
<1>5. <<first>> \in Seq(T) /\ second \in Seq(T) /\ third \in Seq(T)
  BY <1>4 DEF Optional
<1>6. Lacks(<<first>>, name) /\ Lacks(second, name) /\ Lacks(third, name)
  BY <1>1, <1>2 DEF Lacks, Optional
<1> HIDE DEF second, third
<1>7. <<first>> \o second \in Seq(T) /\ Lacks(<<first>> \o second, name)
  BY <1>5, <1>6, ConcatLacks, ConcatProperties
<1> QED
  BY <1>3, <1>5, <1>6, <1>7, ConcatLacks

PolicyNames == { PolicyVariables[i].name : i \in 1 .. 11 }

\* The names of the policy variables are different.
LEMMA PolicyNamesDiffer ==
  /\ DOMAIN PolicyVariables = 1 .. 11
  /\ \A i, j \in 1 .. 11 : PolicyVariables[i].name = PolicyVariables[j].name => i = j
  /\ PolicyNames = {"CALIBAN_DEFAULT_PERMISSION_MODE", "CALIBAN_AUTO_ALLOW",
                    "CALIBAN_NO_PERMISSIONS", "CALIBAN_NO_MCP", "CALIBAN_NO_HOOKS",
                    "CALIBAN_NO_SKILLS", "CALIBAN_NO_SUB_AGENT",
                    "CALIBAN_STRICT_KNOWN_MARKETPLACES", "CALIBAN_ENABLED_PLUGINS",
                    "CALIBAN_BLOCKED_MARKETPLACES", "CALIBAN_PARALLEL_TOOL_LIMIT"}
<1>1. DOMAIN PolicyVariables = 1 .. 11
  BY DEF PolicyVariables
<1>2. \A i \in 1 .. 11 : i \in {1, 2, 3, 4, 5, 6, 7, 8, 9, 10, 11}
  OBVIOUS
<1>3. /\ PolicyVariables[1].name = "CALIBAN_DEFAULT_PERMISSION_MODE"
      /\ PolicyVariables[2].name = "CALIBAN_AUTO_ALLOW"
      /\ PolicyVariables[3].name = "CALIBAN_NO_PERMISSIONS"
      /\ PolicyVariables[4].name = "CALIBAN_NO_MCP"
      /\ PolicyVariables[5].name = "CALIBAN_NO_HOOKS"
      /\ PolicyVariables[6].name = "CALIBAN_NO_SKILLS"
      /\ PolicyVariables[7].name = "CALIBAN_NO_SUB_AGENT"
      /\ PolicyVariables[8].name = "CALIBAN_STRICT_KNOWN_MARKETPLACES"
      /\ PolicyVariables[9].name = "CALIBAN_ENABLED_PLUGINS"
      /\ PolicyVariables[10].name = "CALIBAN_BLOCKED_MARKETPLACES"
      /\ PolicyVariables[11].name = "CALIBAN_PARALLEL_TOOL_LIMIT"
  BY DEF PolicyVariables
<1>4. ASSUME NEW i \in 1 .. 11, NEW j \in 1 .. 11,
             PolicyVariables[i].name = PolicyVariables[j].name
      PROVE  i = j
  BY <1>2, <1>3, <1>4
<1>5. PolicyNames = {"CALIBAN_DEFAULT_PERMISSION_MODE", "CALIBAN_AUTO_ALLOW",
                     "CALIBAN_NO_PERMISSIONS", "CALIBAN_NO_MCP", "CALIBAN_NO_HOOKS",
                     "CALIBAN_NO_SKILLS", "CALIBAN_NO_SUB_AGENT",
                     "CALIBAN_STRICT_KNOWN_MARKETPLACES", "CALIBAN_ENABLED_PLUGINS",
                     "CALIBAN_BLOCKED_MARKETPLACES", "CALIBAN_PARALLEL_TOOL_LIMIT"}
  BY <1>2, <1>3 DEF PolicyNames
<1> QED
  BY <1>1, <1>4, <1>5

\* Whose entry a name can be.
LEMMA StorageLacks ==
  ASSUME NEW state, NEW name, name \notin StorageVariables
  PROVE  Lacks(StorageEnv(state), name)
<1> DEFINE a == Plain("CALIBAN_STORAGE_SUBSTRATE", Substrate(state))
           b == Plain("CALIBAN_STORAGE_REMOTE_URL", "endpoint")
           c == Plain("CALIBAN_STORAGE_REMOTE_TOKEN_ENV", "GONZALO_TOKEN")
           d == FromSecret("GONZALO_TOKEN", state.tokenRef)
           T == {a, b, c, d}
           first == Optional(Substrate(state) # None, <<a>>)
           second == Optional(Substrate(state) = "remote" /\ state.endpoint, <<b>>)
           third == Optional(Substrate(state) = "remote" /\ state.tokenRef # None, <<c, d>>)
<1>1. a.name # name /\ b.name # name /\ c.name # name /\ d.name # name
  BY DEF Plain, FromSecret, StorageVariables
<1>2. StorageEnv(state) = IF state = None THEN <<>> ELSE first \o second \o third
  BY Zenon DEF StorageEnv
<1>3. a \in T /\ b \in T /\ c \in T /\ d \in T
  OBVIOUS
<1> HIDE DEF a, b, c, d, T
<1>4. first \in Seq(T) /\ second \in Seq(T) /\ third \in Seq(T) /\ <<>> \in Seq(T)
  BY <1>3 DEF Optional
<1>5. /\ Lacks(first, name) /\ Lacks(second, name) /\ Lacks(third, name)
      /\ Lacks(<<>>, name)
  BY <1>1 DEF Lacks, Optional
<1> HIDE DEF first, second, third
<1>6. first \o second \in Seq(T) /\ Lacks(first \o second, name)
  BY <1>4, <1>5, ConcatLacks, ConcatProperties
<1> QED
  BY <1>2, <1>4, <1>5, <1>6, ConcatLacks

LEMMA RouterLacks ==
  ASSUME NEW t, NEW name, name # "CALIBAN_ROUTER_CONFIG"
  PROVE  Lacks(Router(t), name)
BY DEF Lacks, Router, Optional, Plain

LEMMA OwnLacks ==
  ASSUME NEW t, NEW rw, rw.env \in Seq(EnvEntry(STRING, STRING)), rw.provider.kind \in Kinds,
         NEW name \in FixedVariables \ {"CALIBAN_PROVIDER", "CALIBAN_ROUTER_CONFIG"},
         Lacks(StorageEnv(t.state), name)
  PROVE  Lacks(Own(t, rw), name)
<1> DEFINE T == Entries(t, rw)
           a == StorageEnv(t.state)
           b == Router(t)
           c == ProviderEnv(rw.provider)
<1>1. a \in Seq(T) /\ b \in Seq(T) /\ c \in Seq(T)
  BY EnvParts
<1>2. Lacks(a, name) /\ Lacks(b, name)
  BY RouterLacks
<1>3. Lacks(c, name)
  BY ProviderLacks
<1>4. Own(t, rw) = a \o b \o c
  BY DEF Own
<1> HIDE DEF T, a, b, c
<1>5. a \o b \in Seq(T) /\ Lacks(a \o b, name)
  BY <1>1, <1>2, ConcatLacks, ConcatProperties
<1> QED
  BY <1>1, <1>3, <1>4, <1>5, ConcatLacks

\* A field that is unset has no entry.
LEMMA PolicyUnset ==
  ASSUME NEW policy, NEW name,
         policy # None =>
           \A i \in 1 .. 11 : policy[PolicyVariables[i].field] # None =>
                              PolicyVariables[i].name # name
  PROVE  Lacks(AgentPolicyEnv(policy), name)
<1> DEFINE all == [i \in DOMAIN PolicyVariables |->
                     Plain(PolicyVariables[i].name, policy[PolicyVariables[i].field])]
           I == { i \in DOMAIN PolicyVariables : policy[PolicyVariables[i].field] # None }
           T == PolicyEntries(policy)
<1>1. AgentPolicyEnv(policy) = IF policy = None THEN <<>> ELSE Subsequence(all, I)
  BY Zenon DEF AgentPolicyEnv
<1>2. DOMAIN PolicyVariables = 1 .. 11
  BY PolicyNamesDiffer
<1>3. all \in Seq(T) /\ Len(all) = 11
  BY <1>2 DEF PolicyEntries
<1>4. \A i \in 1 .. 11 : all[i].name = PolicyVariables[i].name
  BY <1>2 DEF Plain
<1>0. policy # None => \A i \in I : i \in 1 .. 11 /\ PolicyVariables[i].name # name
  BY <1>2
<1> HIDE DEF all, I, T
<1>5. PICK f : Picks(f, all, I, Len(all), Subsequence(all, I))
  BY <1>3, SubsequencePicks
<1>6. Subsequence(all, I) \in Seq(T)
  BY <1>3, SubsequenceType
<1> DEFINE kept == Subsequence(all, I)
<1>7. ASSUME policy # None, NEW k \in DOMAIN kept PROVE kept[k].name # name
  <2>1. k \in 1 .. Len(kept)
    BY <1>6
  <2>2. kept[k] = all[f[k]] /\ f[k] \in I
    BY <1>3, <1>5, <2>1 DEF Picks
  <2> QED
    BY <1>0, <1>4, <1>7, <2>2
<1>8. (policy # None => Lacks(kept, name)) /\ Lacks(<<>>, name)
  BY <1>7 DEF Lacks
<1> QED
  BY <1>1, <1>8

LEMMA PolicyLacks ==
  ASSUME NEW policy, NEW name, name \notin PolicyNames
  PROVE  Lacks(AgentPolicyEnv(policy), name)
<1>1. \A i \in 1 .. 11 : PolicyVariables[i].name # name
  BY DEF PolicyNames
<1> QED
  BY <1>1, PolicyUnset

\* A policy field that is set has the only entry of its variable.
LEMMA PolicySole ==
  ASSUME NEW policy, policy # None, NEW v \in 1 .. 11,
         policy[PolicyVariables[v].field] # None
  PROVE  /\ Sole(AgentPolicyEnv(policy), PolicyVariables[v].name,
                 Plain(PolicyVariables[v].name, policy[PolicyVariables[v].field]))
         /\ PolicyVariables[v].name \in Names(AgentPolicyEnv(policy))
<1> DEFINE all == [i \in DOMAIN PolicyVariables |->
                     Plain(PolicyVariables[i].name, policy[PolicyVariables[i].field])]
           I == { i \in DOMAIN PolicyVariables : policy[PolicyVariables[i].field] # None }
           T == PolicyEntries(policy)
           name == PolicyVariables[v].name
           kept == Subsequence(all, I)
<1>1. AgentPolicyEnv(policy) = kept
  BY Zenon DEF AgentPolicyEnv
<1>2. DOMAIN PolicyVariables = 1 .. 11
  BY PolicyNamesDiffer
<1>3. all \in Seq(T) /\ Len(all) = 11
  BY <1>2 DEF PolicyEntries
<1>4. /\ \A i \in 1 .. 11 : all[i].name = PolicyVariables[i].name
      /\ all[v] = Plain(name, policy[PolicyVariables[v].field])
      /\ v \in I
  BY <1>2 DEF Plain
<1> HIDE DEF all, I, T, name
<1>5. PICK f : Picks(f, all, I, Len(all), kept)
  BY <1>3, SubsequencePicks
<1>6. kept \in Seq(T)
  BY <1>3, SubsequenceType
<1> HIDE DEF kept
<1>7. PICK k \in 1 .. Len(kept) : f[k] = v
  BY <1>3, <1>4, <1>5 DEF Picks
<1>8. kept[k] = all[v] /\ k \in DOMAIN kept /\ kept[k].name = name
  BY <1>4, <1>5, <1>6, <1>7 DEF Picks, name
<1>9. ASSUME NEW j \in DOMAIN kept, kept[j].name = name PROVE j = k
  <2>1. j \in 1 .. Len(kept) /\ Len(kept) \in Nat
    BY <1>6
  <2>2. kept[j] = all[f[j]] /\ f[j] \in 1 .. 11
    BY <1>3, <1>5, <2>1 DEF Picks
  <2>3. f[j] = v
    <3>1. PolicyVariables[f[j]].name = PolicyVariables[v].name
      BY <1>4, <1>9, <2>2 DEF name
    <3> QED
      BY <2>2, <3>1, PolicyNamesDiffer, Zenon
  <2>4. ~(j < k) /\ ~(k < j)
    BY <1>5, <1>7, <2>1, <2>3 DEF Picks
  <2> QED
    BY <2>1, <2>4
<1>10. Sole(kept, name, all[v])
  BY <1>8, <1>9 DEF Sole
<1>11. name \in Names(kept)
  BY <1>8, Zenon DEF Names
<1> QED
  BY <1>1, <1>4, <1>10, <1>11, Zenon DEF name

\* What the Workspace's own env adds.
LEMMA RawLacks ==
  ASSUME NEW rw, NEW T, rw.env \in Seq(T), NEW name,
         name \notin Names(rw.env) \/ name \in Names(AgentPolicyEnv(rw.agentPolicy))
  PROVE  Lacks(Raw(rw), name)
<1> DEFINE s == rw.env
           I == { i \in DOMAIN s : s[i].name \notin Names(AgentPolicyEnv(rw.agentPolicy)) }
           kept == Subsequence(s, I)
<1>1. PICK f : Picks(f, s, I, Len(s), kept)
  <2> HIDE DEF I, s
  <2> QED BY SubsequencePicks DEF s
<1>2. kept \in Seq(T)
  <2> HIDE DEF I
  <2> QED BY SubsequenceType
<1>3. \A i \in I : i \in DOMAIN s /\ s[i].name # name
  BY Zenon DEF Names
<1> HIDE DEF s, I, kept
<1>4. ASSUME NEW k \in DOMAIN kept PROVE kept[k].name # name
  <2>1. k \in 1 .. Len(kept)
    BY <1>2
  <2>2. kept[k] = s[f[k]] /\ f[k] \in I
    BY <1>1, <2>1 DEF Picks
  <2> QED
    BY <1>3, <2>2
<1>5. Raw(rw) = kept
  BY DEF Raw, kept, I, s
<1> QED
  BY <1>4, <1>5 DEF Lacks

\* The whole environment has one entry of the variable of a field that is set,
\* and of a field that is unset only what the Workspace's own env has.
LEMMA TypedEntry ==
  ASSUME NEW t, NEW rw, rw.env \in Seq(EnvEntry(STRING, STRING)), rw.provider.kind \in Kinds,
         NEW s, NEW v \in 1 .. 11
  PROVE  LET name == PolicyVariables[v].name
             field == PolicyVariables[v].field
             token == FromSecret("CALIBAN_DAEMON_TOKEN", SessionToken(s))
             all == ContainerEnv(t, rw, s)
             set == rw.agentPolicy # None /\ rw.agentPolicy[field] # None
         IN  /\ all \in Seq(Entries(t, rw) \cup {token})
             /\ set => Sole(all, name, Plain(name, rw.agentPolicy[field]))
             /\ ~set /\ name \notin Names(rw.env) => Lacks(all, name)
<1> DEFINE name == PolicyVariables[v].name
           field == PolicyVariables[v].field
           set == rw.agentPolicy # None /\ rw.agentPolicy[field] # None
           entry == Plain(name, rw.agentPolicy[field])
           token == FromSecret("CALIBAN_DAEMON_TOKEN", SessionToken(s))
           policy == AgentPolicyEnv(rw.agentPolicy)
           T == Entries(t, rw) \cup {token}
           own == Own(t, rw)
           raw == Raw(rw)
           all == ContainerEnv(t, rw, s)
<1>1. /\ own \in Seq(T) /\ policy \in Seq(T) /\ raw \in Seq(T) /\ <<token>> \in Seq(T)
      /\ all = ((own \o policy) \o raw) \o <<token>>
  <2>1. /\ own \in Seq(Entries(t, rw)) /\ policy \in Seq(Entries(t, rw))
        /\ raw \in Seq(Entries(t, rw))
        /\ all = ((own \o policy) \o raw) \o <<token>>
    BY EnvParts, Zenon
  <2>2. Entries(t, rw) \subseteq T /\ token \in T
    OBVIOUS
  <2> HIDE DEF T, own, policy, raw, token, all
  <2> QED
    BY <2>1, <2>2, SeqMonotonic
<1>2. /\ name \notin StorageVariables
      /\ name \in FixedVariables \ {"CALIBAN_PROVIDER", "CALIBAN_ROUTER_CONFIG"}
      /\ name # "CALIBAN_DAEMON_TOKEN"
  <2>1. name \in PolicyNames
    BY DEF PolicyNames
  <2>2. name \in FixedVariables
    BY PolicyNamesDiffer DEF FixedVariables
  <2> HIDE DEF name
  <2> QED
    BY <2>1, <2>2, PolicyNamesDiffer DEF StorageVariables
<1>3. Lacks(own, name)
  BY <1>2, StorageLacks, OwnLacks
<1>4. Lacks(<<token>>, name)
  <2>1. token.name # name
    BY <1>2 DEF FromSecret
  <2> HIDE DEF token
  <2> QED
    BY <2>1 DEF Lacks
<1>5. set => Sole(policy, name, entry) /\ name \in Names(policy)
  BY PolicySole
<1>6. ~set => Lacks(policy, name)
  <2> SUFFICES ASSUME rw.agentPolicy # None => rw.agentPolicy[field] = None
               PROVE  Lacks(policy, name)
    OBVIOUS
  <2>1. ASSUME rw.agentPolicy # None, NEW i \in 1 .. 11,
               rw.agentPolicy[PolicyVariables[i].field] # None
        PROVE  PolicyVariables[i].name # name
    BY <2>1, PolicyNamesDiffer
  <2> QED
    BY <2>1, PolicyUnset
<1>7. set \/ name \notin Names(rw.env) => Lacks(raw, name)
  BY <1>5, RawLacks
<1> HIDE DEF name, entry, token, policy, T, own, raw, all, set
<1>8. ASSUME set PROVE Sole(all, name, entry)
  <2>1. own \o policy \in Seq(T) /\ Sole(own \o policy, name, entry)
    BY <1>1, <1>3, <1>5, <1>8, ConcatSole, ConcatProperties
  <2>2. (own \o policy) \o raw \in Seq(T) /\ Sole((own \o policy) \o raw, name, entry)
    BY <1>1, <1>7, <1>8, <2>1, ConcatSole, ConcatProperties
  <2> QED
    BY <1>1, <1>4, <2>2, ConcatSole
<1>9. ASSUME ~set, name \notin Names(rw.env) PROVE Lacks(all, name)
  <2>1. own \o policy \in Seq(T) /\ Lacks(own \o policy, name)
    BY <1>1, <1>3, <1>6, <1>9, ConcatLacks, ConcatProperties
  <2>2. (own \o policy) \o raw \in Seq(T) /\ Lacks((own \o policy) \o raw, name)
    BY <1>1, <1>7, <1>9, <2>1, ConcatLacks, ConcatProperties
  <2> QED
    BY <1>1, <1>4, <2>2, ConcatLacks
<1>10. all \in Seq(T)
  BY <1>1, ConcatProperties
<1> QED
  BY <1>8, <1>9, <1>10 DEF name, entry, token, T, all, set

\* A typed policy field is what the agent runs under.
THEOREM TypedPolicy == Spec => []TypedPolicyWins
<1>1. IInv => TypedPolicyWins
  <2> SUFFICES ASSUME IInv, Applied, spec.agentPolicy # None,
                      NEW v \in DOMAIN PolicyVariables,
                      spec.agentPolicy[PolicyVariables[v].field] # None
               PROVE  /\ Cardinality(EntriesOf(PolicyVariables[v].name)) = 1
                      /\ Effective(PolicyVariables[v].name).value
                           = spec.agentPolicy[PolicyVariables[v].field]
    BY Zenon DEF TypedPolicyWins
  <2> DEFINE name == PolicyVariables[v].name
             entry == Plain(name, spec.agentPolicy[PolicyVariables[v].field])
             token == FromSecret("CALIBAN_DAEMON_TOKEN", SessionToken(FromEnv(env)))
             T == Entries(task, Pin) \cup {token}
  <2>1. Launches /\ Env = ContainerEnv(task, Pin, FromEnv(env))
    BY AppliedIs
  <2>2. /\ Pin.agentPolicy = spec.agentPolicy /\ Pin.env \in Seq(EnvEntry(STRING, STRING))
        /\ Pin.provider.kind \in Kinds
    BY <2>1, PinIs
  <2>3. v \in 1 .. 11
    BY PolicyNamesDiffer
  <2>4. Env \in Seq(T) /\ Sole(Env, name, entry)
    BY <2>1, <2>2, <2>3, TypedEntry
  <2>5. entry.value = spec.agentPolicy[PolicyVariables[v].field]
    BY DEF Plain
  <2> HIDE DEF name, entry, T
  <2>6. Cardinality(EntriesOf(name)) = 1 /\ Effective(name) = entry
    BY <2>4, SoleEntry, Zenon
  <2> QED
    BY <2>5, <2>6 DEF name
<1> QED
  BY <1>1, Evaluation, PTL

\* What a task is bound to has the parts that its environment is made of.
LEMMA BoundIs ==
  ASSUME IInv, Resolution.ok
  PROVE  LET pin == Resolution.pin IN
         /\ pin.env = spec.env /\ pin.env \in Seq(EnvEntry(STRING, STRING))
         /\ pin.agentPolicy = spec.agentPolicy /\ pin.provider.kind \in Kinds
<1>1. PICK k \in DOMAIN spec.providers :
        /\ Resolution.pin = Pinned(spec, spec.providers[k])
        /\ spec.providers[k] \in Providers
  BY BoundPin
<1>2. spec.env \in Seq(EnvEntry(STRING, STRING))
  BY WorkspaceShape DEF IInv, InputOK
<1> QED
  BY <1>1, <1>2, ProviderShape DEF Pinned

\* What the typed policy asks for is what the gate looks at.
Asks(policy, v) == policy # None /\ policy[v.field] \in v.on

LEMMA AsksIsUnsupervised ==
  ASSUME NEW rw, rw.agentPolicy \in OrNone(AnyPolicy)
  PROVE  AsksUnsupervised(rw) <=> \E v \in Powers : Asks(rw.agentPolicy, v)
<1> DEFINE p == rw.agentPolicy
<1>1. \A flag \in Flag : flag \in Affirmative <=> flag = "true"
  BY NoneAssumption DEF Flag, OrNone, Affirmative, Literals
<1>2. p # None => p.autoAllow \in Flag /\ p.noPermissions \in Flag
  BY DEF OrNone, AnyPolicy
<1>3. AsksUnsupervised(rw) <=>
        p # None /\ \/ p.permissionMode \in {"dontAsk", "bypassPermissions"}
                    \/ p.autoAllow = "true" \/ p.noPermissions = "true"
  BY DEF AsksUnsupervised, UnsupervisedSettings, UnsupervisedModes
<1>4. (\E v \in Powers : Asks(p, v)) <=>
        p # None /\ \/ p.permissionMode \in {"dontAsk", "bypassPermissions"}
                    \/ p.autoAllow \in Affirmative \/ p.noPermissions \in Affirmative
  BY DEF Powers, Asks
<1> QED
  BY <1>1, <1>2, <1>3, <1>4

\* The pod a task would get is told by a variable of the typed policy what the
\* field says, and by one whose field is unset what the raw env says.
LEMMA ToldIsAsked ==
  ASSUME IInv, Resolution.ok, NEW s, NEW v \in Powers
  PROVE  LET p == spec.agentPolicy
             pod == ContainerEnv(task, Resolution.pin, s)
             told == \E i \in DOMAIN pod : pod[i].name = v.name /\ pod[i].value \in v.on
             raw == v.name \in Names(spec.env) /\ (p = None \/ p[v.field] = None)
         IN  /\ raw => ~Asks(p, v)
             /\ ~raw => (told <=> Asks(p, v))
<1> DEFINE p == spec.agentPolicy
           pod == ContainerEnv(task, Resolution.pin, s)
           set == p # None /\ p[v.field] # None
           told == \E i \in DOMAIN pod : pod[i].name = v.name /\ pod[i].value \in v.on
           entry == Plain(v.name, p[v.field])
<1>1. None \notin v.on
  <2>1. None \notin {"dontAsk", "bypassPermissions"} /\ None \notin Affirmative
    BY NoneAssumption DEF Affirmative, Literals
  <2>2. v.on = {"dontAsk", "bypassPermissions"} \/ v.on = Affirmative
    BY DEF Powers
  <2> QED
    BY <2>1, <2>2, Zenon
<1>2. PICK k \in 1 .. 11 : PolicyVariables[k].name = v.name /\ PolicyVariables[k].field = v.field
  <2>1. /\ PolicyVariables[1].name = "CALIBAN_DEFAULT_PERMISSION_MODE"
        /\ PolicyVariables[1].field = "permissionMode"
        /\ PolicyVariables[2].name = "CALIBAN_AUTO_ALLOW"
        /\ PolicyVariables[2].field = "autoAllow"
        /\ PolicyVariables[3].name = "CALIBAN_NO_PERMISSIONS"
        /\ PolicyVariables[3].field = "noPermissions"
    BY DEF PolicyVariables
  <2>2. 1 \in 1 .. 11 /\ 2 \in 1 .. 11 /\ 3 \in 1 .. 11
    OBVIOUS
  <2>3. \/ v.name = "CALIBAN_DEFAULT_PERMISSION_MODE" /\ v.field = "permissionMode"
        \/ v.name = "CALIBAN_AUTO_ALLOW" /\ v.field = "autoAllow"
        \/ v.name = "CALIBAN_NO_PERMISSIONS" /\ v.field = "noPermissions"
    BY DEF Powers
  <2> QED
    BY <2>1, <2>2, <2>3, Zenon
<1>3. /\ set => Sole(pod, v.name, entry)
      /\ ~set /\ v.name \notin Names(spec.env) => Lacks(pod, v.name)
  BY <1>2, BoundIs, TypedEntry
<1>4. entry.name = v.name /\ entry.value = p[v.field]
  BY DEF Plain
<1> HIDE DEF pod, entry
<1>5. CASE set
  <2>1. PICK i \in DOMAIN pod : pod[i] = entry /\ \A j \in DOMAIN pod : pod[j].name = v.name <=> j = i
    BY <1>3, <1>5 DEF Sole
  <2>2. told <=> p[v.field] \in v.on
    BY <1>4, <2>1
  <2> QED
    BY <1>5, <2>2 DEF Asks, pod
<1>6. CASE ~set
  <2>1. ~Asks(p, v)
    BY <1>1, <1>6 DEF Asks
  <2>2. v.name \notin Names(spec.env) => ~told
    BY <1>3, <1>6 DEF Lacks
  <2> QED
    BY <1>6, <2>1, <2>2 DEF pod
<1> QED
  BY <1>5, <1>6

\* Nothing unsupervised without leave, by posture or by any variable of the pod,
\* but what a raw entry says where the typed policy is silent; and nothing else is
\* turned away.
THEOREM Authorization == Spec => []OneSwitchAuthorizes
<1>1. IInv => OneSwitchAuthorizes
  <2> DEFINE p == spec.agentPolicy
             pin == Resolution.pin
             posture == IF task.posture = None THEN "supervised" ELSE task.posture
             leave == p # None /\ p.allowUnattended
             pod == ContainerEnv(task, pin, FromEnv(env))
             told(v) == \E i \in DOMAIN pod : pod[i].name = v.name /\ pod[i].value \in v.on
             raw(v) == v.name \in Names(spec.env) /\ (p = None \/ p[v.field] = None)
  <2> SUFFICES ASSUME IInv, Done, out.verdict.phase = "Ready", out.resolution.ok
               PROVE  Admission.verdict = "Pin" <=>
                        \/ leave
                        \/ task.posture # "unattended" /\ \A v \in Powers : told(v) => raw(v)
    <3>1. IInv /\ Done => /\ out.admission = Admission /\ out.resolution = Resolution
                          /\ out.settings = FromEnv(env)
      BY Outcome
    <3> QED
      BY <3>1, Zenon DEF OneSwitchAuthorizes
  <2>1. Admission = AdmitResolved(Resolution, posture) /\ Resolution.ok
    BY Outcome, AdmissionIs
  <2>2. pin.agentPolicy = p /\ p \in OrNone(AnyPolicy)
    BY <2>1, BoundIs, WorkspaceShape DEF IInv, InputOK
  <2>3. posture = "unattended" <=> task.posture = "unattended"
    BY NoneAssumption DEF Literals
  <2>4. "unattended not allowed" # None /\ "agentPolicy not allowed" # None
    BY NoneAssumption DEF Literals
  <2>5. (\A v \in Powers : told(v) => raw(v)) <=> ~ \E v \in Powers : Asks(p, v)
    <3>1. ASSUME NEW v \in Powers
          PROVE  (raw(v) => ~Asks(p, v)) /\ (~raw(v) => (told(v) <=> Asks(p, v)))
      BY <2>1, ToldIsAsked, Zenon
    <3> HIDE DEF p, told, raw
    <3> QED
      BY <3>1
  <2> HIDE DEF posture, pin, told, raw
  <2>6. Admission.verdict = "Pin" <=>
          PostureProblem(posture, pin) = None /\ PolicyProblem(pin) = None
    BY <2>1 DEF AdmitResolved, Decline, pin
  <2>7. PostureProblem(posture, pin) = None <=>
          (task.posture = "unattended" => AllowsUnattended(pin))
    BY <2>3, <2>4, Zenon DEF PostureProblem
  <2>8. PolicyProblem(pin) = None <=> (AsksUnsupervised(pin) => AllowsUnattended(pin))
    BY <2>4, Zenon DEF PolicyProblem
  <2>9. AsksUnsupervised(pin) <=> \E v \in Powers : Asks(p, v)
    BY <2>2, AsksIsUnsupervised
  <2>10. AllowsUnattended(pin) <=> leave
    BY <2>2 DEF AllowsUnattended
  <2> HIDE DEF leave, p
  <2> QED
    BY <2>5, <2>6, <2>7, <2>8, <2>9, <2>10, Zenon
<1> QED
  BY <1>1, Evaluation, PTL

\* What an accepted state says of each storage variable.
LEMMA StorageSole ==
  ASSUME NEW state \in StateSpec(STRING), state # None, StateProblem(state) = None
  PROVE  LET has(name, e) == Sole(StorageEnv(state), name, e)
             lacks(name) == Lacks(StorageEnv(state), name)
         IN  /\ Substrate(state) = "remote" =>
                  /\ has("CALIBAN_STORAGE_SUBSTRATE",
                         Plain("CALIBAN_STORAGE_SUBSTRATE", "remote"))
                  /\ has("CALIBAN_STORAGE_REMOTE_URL",
                         Plain("CALIBAN_STORAGE_REMOTE_URL", "endpoint"))
                  /\ state.tokenRef # None =>
                       /\ has("CALIBAN_STORAGE_REMOTE_TOKEN_ENV",
                              Plain("CALIBAN_STORAGE_REMOTE_TOKEN_ENV", "GONZALO_TOKEN"))
                       /\ has("GONZALO_TOKEN", FromSecret("GONZALO_TOKEN", state.tokenRef))
             /\ Substrate(state) # "remote" =>
                  /\ ~state.endpoint /\ state.tokenRef = None
                  /\ lacks("CALIBAN_STORAGE_REMOTE_URL")
                  /\ \/ lacks("CALIBAN_STORAGE_SUBSTRATE")
                     \/ has("CALIBAN_STORAGE_SUBSTRATE",
                            Plain("CALIBAN_STORAGE_SUBSTRATE", "fs"))
<1> DEFINE a == Plain("CALIBAN_STORAGE_SUBSTRATE", Substrate(state))
           b == Plain("CALIBAN_STORAGE_REMOTE_URL", "endpoint")
           c == Plain("CALIBAN_STORAGE_REMOTE_TOKEN_ENV", "GONZALO_TOKEN")
           d == FromSecret("GONZALO_TOKEN", state.tokenRef)
           T == {a, b, c, d}
           first == Optional(Substrate(state) # None, <<a>>)
           second == Optional(Substrate(state) = "remote" /\ state.endpoint, <<b>>)
           third == Optional(Substrate(state) = "remote" /\ state.tokenRef # None, <<c, d>>)
<1>1. state.mode \in {"remote", "local", "other", None} /\ state.endpoint \in BOOLEAN
  BY DEF StateSpec, OrNone
<1>2. /\ "remote" # None /\ "fs" # None /\ "unknown mode" # None
      /\ "remote needs an endpoint" # None /\ "local ignores the endpoint" # None
      /\ "token needs remote storage" # None
  BY NoneAssumption DEF Literals
<1>3. /\ state.mode \in {None, "remote", "local"}
      /\ state.mode = "remote" => state.endpoint
      /\ state.mode = "local" => ~state.endpoint
      /\ state.tokenRef # None => Substrate(state) = "remote"
  BY <1>2, Zenon DEF StateProblem
<1>4. /\ Substrate(state) \in {"remote", "fs", None}
      /\ Substrate(state) = "remote" <=> state.endpoint
  BY <1>1, <1>2, <1>3 DEF Substrate
<1>5. StorageEnv(state) = first \o second \o third
  BY Zenon DEF StorageEnv
<1>6. /\ a.name = "CALIBAN_STORAGE_SUBSTRATE" /\ b.name = "CALIBAN_STORAGE_REMOTE_URL"
      /\ c.name = "CALIBAN_STORAGE_REMOTE_TOKEN_ENV" /\ d.name = "GONZALO_TOKEN"
  BY DEF Plain, FromSecret
<1>7. /\ Substrate(state) = "remote" => a = Plain("CALIBAN_STORAGE_SUBSTRATE", "remote")
      /\ Substrate(state) = "fs" => a = Plain("CALIBAN_STORAGE_SUBSTRATE", "fs")
  OBVIOUS
<1>8. a \in T /\ b \in T /\ c \in T /\ d \in T
  OBVIOUS
<1> HIDE DEF a, b, c, d, T
<1>9. first \in Seq(T) /\ second \in Seq(T) /\ third \in Seq(T)
  BY <1>8 DEF Optional
<1>10. first \o second \in Seq(T)
  BY <1>9, ConcatProperties
<1>11. /\ first = IF Substrate(state) # None THEN <<a>> ELSE <<>>
       /\ second = IF Substrate(state) = "remote" THEN <<b>> ELSE <<>>
       /\ third = IF state.tokenRef # None THEN <<c, d>> ELSE <<>>
  BY <1>3, <1>4, Zenon DEF Optional
<1> HIDE DEF first, second, third
<1>12. /\ Substrate(state) # None => Sole(first, "CALIBAN_STORAGE_SUBSTRATE", a)
       /\ Lacks(first, "CALIBAN_STORAGE_REMOTE_URL")
       /\ Lacks(first, "CALIBAN_STORAGE_REMOTE_TOKEN_ENV") /\ Lacks(first, "GONZALO_TOKEN")
       /\ Substrate(state) = None => Lacks(first, "CALIBAN_STORAGE_SUBSTRATE")
  BY <1>6, <1>11 DEF Sole, Lacks
<1>13. /\ Substrate(state) = "remote" => Sole(second, "CALIBAN_STORAGE_REMOTE_URL", b)
       /\ Lacks(second, "CALIBAN_STORAGE_SUBSTRATE")
       /\ Lacks(second, "CALIBAN_STORAGE_REMOTE_TOKEN_ENV") /\ Lacks(second, "GONZALO_TOKEN")
       /\ Substrate(state) # "remote" => Lacks(second, "CALIBAN_STORAGE_REMOTE_URL")
  BY <1>6, <1>11 DEF Sole, Lacks
<1>14. /\ Lacks(third, "CALIBAN_STORAGE_SUBSTRATE") /\ Lacks(third, "CALIBAN_STORAGE_REMOTE_URL")
       /\ state.tokenRef # None =>
            /\ Sole(third, "CALIBAN_STORAGE_REMOTE_TOKEN_ENV", c)
            /\ Sole(third, "GONZALO_TOKEN", d)
  <2>1. CASE state.tokenRef = None
    BY <1>11, <2>1 DEF Lacks
  <2>2. CASE state.tokenRef # None
    <3>1. DOMAIN third = {1, 2} /\ third[1] = c /\ third[2] = d /\ 1 # 2
      BY <1>11, <2>2
    <3>2. \A j \in DOMAIN third : j = 1 \/ j = 2
      BY <3>1
    <3>3. Lacks(third, "CALIBAN_STORAGE_SUBSTRATE") /\ Lacks(third, "CALIBAN_STORAGE_REMOTE_URL")
      BY <1>6, <3>1, <3>2 DEF Lacks
    <3>4. Sole(third, "CALIBAN_STORAGE_REMOTE_TOKEN_ENV", c) /\ Sole(third, "GONZALO_TOKEN", d)
      <4>1. /\ \A j \in DOMAIN third : third[j].name = "CALIBAN_STORAGE_REMOTE_TOKEN_ENV" <=> j = 1
            /\ \A j \in DOMAIN third : third[j].name = "GONZALO_TOKEN" <=> j = 2
        BY <1>6, <3>1, <3>2
      <4>2. 1 \in DOMAIN third /\ 2 \in DOMAIN third
        BY <3>1
      <4> QED
        BY <3>1, <4>1, <4>2, Zenon DEF Sole
    <3> QED
      BY <3>3, <3>4
  <2> QED
    BY <2>1, <2>2
<1>15. /\ Substrate(state) # None => Sole(StorageEnv(state), "CALIBAN_STORAGE_SUBSTRATE", a)
       /\ Substrate(state) = None => Lacks(StorageEnv(state), "CALIBAN_STORAGE_SUBSTRATE")
  <2>1. /\ Substrate(state) # None => Sole(first \o second, "CALIBAN_STORAGE_SUBSTRATE", a)
        /\ Substrate(state) = None => Lacks(first \o second, "CALIBAN_STORAGE_SUBSTRATE")
    BY <1>9, <1>12, <1>13, ConcatSole, ConcatLacks
  <2> QED
    BY <1>5, <1>9, <1>10, <1>14, <2>1, ConcatSole, ConcatLacks
<1>16. /\ Substrate(state) = "remote" => Sole(StorageEnv(state), "CALIBAN_STORAGE_REMOTE_URL", b)
       /\ Substrate(state) # "remote" => Lacks(StorageEnv(state), "CALIBAN_STORAGE_REMOTE_URL")
  <2>1. /\ Substrate(state) = "remote" => Sole(first \o second, "CALIBAN_STORAGE_REMOTE_URL", b)
        /\ Substrate(state) # "remote" => Lacks(first \o second, "CALIBAN_STORAGE_REMOTE_URL")
    BY <1>9, <1>12, <1>13, ConcatSole, ConcatLacks
  <2> QED
    BY <1>5, <1>9, <1>10, <1>14, <2>1, ConcatSole, ConcatLacks
<1>17. ASSUME state.tokenRef # None
       PROVE  /\ Sole(StorageEnv(state), "CALIBAN_STORAGE_REMOTE_TOKEN_ENV", c)
              /\ Sole(StorageEnv(state), "GONZALO_TOKEN", d)
  <2>1. /\ Lacks(first \o second, "CALIBAN_STORAGE_REMOTE_TOKEN_ENV")
        /\ Lacks(first \o second, "GONZALO_TOKEN")
    BY <1>9, <1>12, <1>13, ConcatLacks
  <2> QED
    BY <1>5, <1>9, <1>10, <1>14, <1>17, <2>1, ConcatSole
<1> QED
  BY <1>2, <1>3, <1>4, <1>7, <1>15, <1>16, <1>17, Zenon DEF b, c, d

\* A task whose state is accepted gets storage that caliban can open.
THEOREM StorageOpens == Spec => []StorageIsComplete
<1>1. IInv => StorageIsComplete
  <2> DEFINE remote == /\ EntriesOf("CALIBAN_STORAGE_SUBSTRATE") # {}
                       /\ Effective("CALIBAN_STORAGE_SUBSTRATE").value = "remote"
  <2> SUFFICES ASSUME IInv, Applied, task.state # None,
                      Names(spec.env) \cap StorageVariables = {}
               PROVE  /\ remote <=> EntriesOf("CALIBAN_STORAGE_REMOTE_URL") # {}
                      /\ task.state.endpoint => remote
                      /\ task.state.tokenRef # None =>
                           /\ remote
                           /\ Effective(Effective("CALIBAN_STORAGE_REMOTE_TOKEN_ENV").value).from
                                = task.state.tokenRef
    BY Zenon DEF StorageIsComplete
  <2> DEFINE token == FromSecret("CALIBAN_DAEMON_TOKEN", SessionToken(FromEnv(env)))
             T == Entries(task, Pin) \cup {token}
             storage == StorageEnv(task.state)
             router == Router(task)
             provider == ProviderEnv(Pin.provider)
             policy == AgentPolicyEnv(Pin.agentPolicy)
             raw == Raw(Pin)
  <2>1. Launches /\ Env = ContainerEnv(task, Pin, FromEnv(env))
    BY AppliedIs
  <2>2. /\ storage \in Seq(T) /\ router \in Seq(T) /\ provider \in Seq(T)
        /\ policy \in Seq(T) /\ raw \in Seq(T) /\ <<token>> \in Seq(T)
        /\ Env = ((((storage \o router) \o provider) \o policy) \o raw) \o <<token>>
    <3>1. /\ storage \in Seq(Entries(task, Pin)) /\ router \in Seq(Entries(task, Pin))
          /\ provider \in Seq(Entries(task, Pin)) /\ policy \in Seq(Entries(task, Pin))
          /\ raw \in Seq(Entries(task, Pin))
          /\ Env = ((((storage \o router) \o provider) \o policy) \o raw) \o <<token>>
      BY <2>1, PinIs, EnvParts, Zenon DEF Own
    <3>2. Entries(task, Pin) \subseteq T
      OBVIOUS
    <3>3. token \in T
      OBVIOUS
    <3> HIDE DEF T, storage, router, provider, policy, raw, token
    <3> QED
      BY <3>1, <3>2, <3>3, SeqMonotonic
  <2>3. Pin.env = spec.env /\ Pin.env \in Seq(EnvEntry(STRING, STRING))
    BY <2>1, PinIs, WorkspaceShape DEF IInv, InputOK
  <2>4. ASSUME NEW name \in StorageVariables
        PROVE  /\ Lacks(storage, name) => Lacks(Env, name)
               /\ \A e : Sole(storage, name, e) => Sole(Env, name, e)
    <3>1. /\ name \in FixedVariables /\ name # "CALIBAN_PROVIDER"
          /\ name # "CALIBAN_ROUTER_CONFIG" /\ name # "CALIBAN_DAEMON_TOKEN"
          /\ name \notin PolicyNames
      BY PolicyNamesDiffer DEF FixedVariables, StorageVariables
    <3>2. Lacks(router, name) /\ Lacks(policy, name)
      BY <3>1, RouterLacks, PolicyLacks
    <3>3. Lacks(provider, name)
      BY <2>1, <3>1, PinIs, ProviderLacks
    <3>4. Lacks(raw, name)
      BY <2>3, RawLacks
    <3>5. Lacks(<<token>>, name)
      <4>1. token.name # name
        BY <3>1 DEF FromSecret
      <4> HIDE DEF token
      <4> QED
        BY <4>1 DEF Lacks
    <3> HIDE DEF T, storage, router, provider, policy, raw, token
    <3> DEFINE s1 == storage \o router
               s2 == s1 \o provider
               s3 == s2 \o policy
               s4 == s3 \o raw
    <3>6. /\ s1 \in Seq(T)
          /\ Lacks(storage, name) => Lacks(s1, name)
          /\ \A e : Sole(storage, name, e) => Sole(s1, name, e)
      BY <2>2, <3>2, ConcatKeeps, Zenon
    <3> HIDE DEF s1
    <3>7. /\ s2 \in Seq(T)
          /\ Lacks(s1, name) => Lacks(s2, name)
          /\ \A e : Sole(s1, name, e) => Sole(s2, name, e)
      BY <2>2, <3>3, <3>6, ConcatKeeps, Zenon
    <3> HIDE DEF s2
    <3>8. /\ s3 \in Seq(T)
          /\ Lacks(s2, name) => Lacks(s3, name)
          /\ \A e : Sole(s2, name, e) => Sole(s3, name, e)
      BY <2>2, <3>2, <3>7, ConcatKeeps, Zenon
    <3> HIDE DEF s3
    <3>9. /\ s4 \in Seq(T)
          /\ Lacks(s3, name) => Lacks(s4, name)
          /\ \A e : Sole(s3, name, e) => Sole(s4, name, e)
      BY <2>2, <3>4, <3>8, ConcatKeeps, Zenon
    <3> HIDE DEF s4
    <3>10. Env = s4 \o <<token>>
      BY <2>2 DEF s1, s2, s3, s4
    <3>11. /\ Lacks(s4, name) => Lacks(Env, name)
           /\ \A e : Sole(s4, name, e) => Sole(Env, name, e)
      BY <2>2, <3>5, <3>9, <3>10, ConcatKeeps, Zenon
    <3> QED
      BY <3>6, <3>7, <3>8, <3>9, <3>11, Zenon
  <2>5. /\ "CALIBAN_STORAGE_SUBSTRATE" \in StorageVariables
        /\ "CALIBAN_STORAGE_REMOTE_URL" \in StorageVariables
        /\ "CALIBAN_STORAGE_REMOTE_TOKEN_ENV" \in StorageVariables
        /\ "GONZALO_TOKEN" \in StorageVariables
    BY DEF StorageVariables
  <2>6. Env \in Seq(T)
    <3> HIDE DEF T, storage, router, provider, policy, raw, token
    <3> QED
      BY <2>2, ConcatProperties
  <2>7. task.state \in StateSpec(STRING) /\ StateProblem(task.state) = None
    BY <2>1, TaskShape DEF IInv, InputOK, OrNone, Launches
  <2> HIDE DEF T, storage, router, provider, policy, raw, token
  <2>8. ASSUME NEW name
        PROVE  /\ Lacks(Env, name) => EntriesOf(name) = {}
               /\ \A e : Sole(Env, name, e) =>
                    EntriesOf(name) # {} /\ Effective(name) = e
    BY <2>6, SoleEntry, Zenon
  <2>9. CASE Substrate(task.state) = "remote"
    <3>1. /\ Sole(storage, "CALIBAN_STORAGE_SUBSTRATE",
                  Plain("CALIBAN_STORAGE_SUBSTRATE", "remote"))
          /\ Sole(storage, "CALIBAN_STORAGE_REMOTE_URL",
                  Plain("CALIBAN_STORAGE_REMOTE_URL", "endpoint"))
          /\ task.state.tokenRef # None =>
               /\ Sole(storage, "CALIBAN_STORAGE_REMOTE_TOKEN_ENV",
                       Plain("CALIBAN_STORAGE_REMOTE_TOKEN_ENV", "GONZALO_TOKEN"))
               /\ Sole(storage, "GONZALO_TOKEN", FromSecret("GONZALO_TOKEN", task.state.tokenRef))
      BY <2>7, <2>9, StorageSole, Zenon DEF storage
    <3>2. /\ EntriesOf("CALIBAN_STORAGE_SUBSTRATE") # {}
          /\ Effective("CALIBAN_STORAGE_SUBSTRATE") = Plain("CALIBAN_STORAGE_SUBSTRATE", "remote")
          /\ EntriesOf("CALIBAN_STORAGE_REMOTE_URL") # {}
      BY <2>4, <2>5, <2>8, <3>1, Zenon
    <3>3. ASSUME task.state.tokenRef # None
          PROVE  /\ Effective("CALIBAN_STORAGE_REMOTE_TOKEN_ENV")
                      = Plain("CALIBAN_STORAGE_REMOTE_TOKEN_ENV", "GONZALO_TOKEN")
                 /\ Effective("GONZALO_TOKEN")
                      = FromSecret("GONZALO_TOKEN", task.state.tokenRef)
      BY <2>4, <2>5, <2>8, <3>1, <3>3, Zenon
    <3>4. remote
      BY <3>2 DEF Plain
    <3>5. ASSUME task.state.tokenRef # None
          PROVE  Effective(Effective("CALIBAN_STORAGE_REMOTE_TOKEN_ENV").value).from
                   = task.state.tokenRef
      BY <3>3, <3>5 DEF Plain, FromSecret
    <3> QED
      BY <3>2, <3>4, <3>5
  <2>10. CASE Substrate(task.state) # "remote"
    <3>1. /\ ~task.state.endpoint /\ task.state.tokenRef = None
          /\ Lacks(storage, "CALIBAN_STORAGE_REMOTE_URL")
          /\ \/ Lacks(storage, "CALIBAN_STORAGE_SUBSTRATE")
             \/ Sole(storage, "CALIBAN_STORAGE_SUBSTRATE",
                     Plain("CALIBAN_STORAGE_SUBSTRATE", "fs"))
      BY <2>7, <2>10, StorageSole, Zenon DEF storage
    <3>2. /\ EntriesOf("CALIBAN_STORAGE_REMOTE_URL") = {}
          /\ \/ EntriesOf("CALIBAN_STORAGE_SUBSTRATE") = {}
             \/ Effective("CALIBAN_STORAGE_SUBSTRATE") = Plain("CALIBAN_STORAGE_SUBSTRATE", "fs")
      BY <2>4, <2>5, <2>8, <3>1, Zenon
    <3>3. ~remote
      BY <3>2 DEF Plain
    <3> QED
      BY <3>1, <3>2, <3>3
  <2> QED
    BY <2>9, <2>10
<1> QED
  BY <1>1, Evaluation, PTL

-----------------------------------------------------------------------------
(* Egress. *)

\* A rule of the policy matches a connection.
Matches(rule, c) ==
  /\ rule.to # None => c.host \in rule.to.hosts
  /\ InRange(rule.ports, c.proto, c.port)

\* The rule that admits name resolution, and the one that an entry becomes.
DnsRule == [to |-> None, ports |-> << Port("UDP", 53), Port("TCP", 53) >>]
RuleOf(entry) ==
  [to |-> entry.cidr,
   ports |-> IF entry.ports = <<>> THEN None
             ELSE [k \in DOMAIN entry.ports |-> Port("TCP", entry.ports[k])]]

LEMMA SinglePort ==
  ASSUME NEW proto \in {"TCP", "UDP"}, NEW n \in Int
  PROVE  /\ Port(proto, n) \in PortRange /\ Port(proto, n).proto = proto
         /\ \A p \in Int : p \in Port(proto, n).first .. Port(proto, n).last <=> p = n
BY DEF Port, PortRange

LEMMA DnsMatches ==
  ASSUME NEW c \in Connections
  PROVE  Matches(DnsRule, c) <=> c.port = 53
<1> DEFINE ports == << Port("UDP", 53), Port("TCP", 53) >>
<1>1. c.proto \in {"TCP", "UDP"} /\ c.port \in Int
  BY NetworkAssumption
<1>2. ports \in Seq(PortRange) /\ DOMAIN ports = {1, 2}
  BY SinglePort
<1>3. /\ ports[1].proto = "UDP" /\ ports[2].proto = "TCP"
      /\ c.port \in ports[1].first .. ports[1].last <=> c.port = 53
      /\ c.port \in ports[2].first .. ports[2].last <=> c.port = 53
  BY <1>1, SinglePort
<1>4. DnsRule.to = None /\ DnsRule.ports = ports
  BY DEF DnsRule
<1> HIDE DEF ports
<1>5. ports # None
  BY <1>2, NoneAssumption
<1>6. InRange(ports, c.proto, c.port) <=> c.port = 53
  <2>1. /\ 1 \in DOMAIN ports /\ 2 \in DOMAIN ports
        /\ \A i \in DOMAIN ports : i = 1 \/ i = 2
    BY <1>2
  <2>2. c.proto = "TCP" \/ c.proto = "UDP"
    BY <1>1
  <2> QED
    BY <1>3, <1>5, <2>1, <2>2, Zenon DEF InRange
<1> QED
  BY <1>4, <1>6 DEF Matches

LEMMA EntryMatches ==
  ASSUME NEW c \in Connections, NEW entry \in EgressRule(Cidr, Seq(Int))
  PROVE  Matches(RuleOf(entry), c) <=>
           /\ c.host \in entry.cidr.hosts
           /\ \/ entry.ports = <<>>
              \/ c.proto = "TCP" /\ \E k \in DOMAIN entry.ports : entry.ports[k] = c.port
<1> DEFINE ports == [k \in DOMAIN entry.ports |-> Port("TCP", entry.ports[k])]
<1>1. c.proto \in {"TCP", "UDP"} /\ c.port \in Int
  BY NetworkAssumption
<1>2. entry.cidr \in Cidr /\ entry.ports \in Seq(Int)
  BY DEF EgressRule
<1>3. entry.cidr # None
  BY <1>2, NoneAssumption
<1>4. /\ RuleOf(entry).to = entry.cidr
      /\ RuleOf(entry).ports = IF entry.ports = <<>> THEN None ELSE ports
  BY DEF RuleOf
<1>5. \A k \in DOMAIN entry.ports : entry.ports[k] \in Int
  BY <1>2
<1>6. ports \in Seq(PortRange) /\ DOMAIN ports = DOMAIN entry.ports
  <2>1. \A k \in DOMAIN entry.ports : Port("TCP", entry.ports[k]) \in PortRange
    BY <1>5, SinglePort
  <2>2. Len(entry.ports) \in Nat /\ DOMAIN entry.ports = 1 .. Len(entry.ports)
    BY <1>2, LenProperties
  <2> QED
    BY <2>1, <2>2
<1>7. ASSUME NEW k \in DOMAIN entry.ports
      PROVE  /\ ports[k].proto = "TCP"
             /\ c.port \in ports[k].first .. ports[k].last <=> entry.ports[k] = c.port
  BY <1>1, <1>5, SinglePort
<1> HIDE DEF ports
<1>8. ports # None
  BY <1>6, NoneAssumption
<1>9. InRange(ports, c.proto, c.port) <=>
        c.proto = "TCP" /\ \E k \in DOMAIN entry.ports : entry.ports[k] = c.port
  BY <1>6, <1>7, <1>8, Zenon DEF InRange
<1>10. InRange(None, c.proto, c.port)
  BY DEF InRange
<1> QED
  BY <1>3, <1>4, <1>9, <1>10, Zenon DEF Matches

\* An agent reaches name resolution and what the Workspace declares.
THEOREM DeclaredEgress == Spec => []EgressIsDeclared
<1>1. IInv => EgressIsDeclared
  <2> SUFFICES ASSUME IInv, Applied, NEW c \in Connections
               PROVE  c \in Reachable <=>
                        \/ c.port = 53
                        \/ spec.egress = None
                        \/ \E i \in DOMAIN spec.egress :
                             /\ c.host \in spec.egress[i].cidr.hosts
                             /\ \/ spec.egress[i].ports = <<>>
                                \/ c.proto = "TCP" /\ \E k \in DOMAIN spec.egress[i].ports :
                                                        spec.egress[i].ports[k] = c.port
    BY Zenon DEF EgressIsDeclared
  <2> DEFINE all == [to |-> None, ports |-> None]
             entries == [i \in DOMAIN spec.egress |-> RuleOf(spec.egress[i])]
             rest == IF spec.egress = None THEN <<all>> ELSE entries
             T == {DnsRule, all} \cup { RuleOf(spec.egress[i]) : i \in DOMAIN spec.egress }
  <2>1. NetworkPolicy.egress = <<DnsRule>> \o rest
    <3>1. NetworkPolicy = BuildNetworkPolicy(task, Pin, FromEnv(env)) /\ Launches
      BY AppliedIs
    <3>2. Pin.egress = spec.egress
      BY <3>1, PinIs
    <3>3. NetworkPolicy.egress = EgressRules(Pin)
      BY <3>1 DEF BuildNetworkPolicy
    <3> QED
      BY <3>2, <3>3, Zenon DEF EgressRules, DnsRule, RuleOf
  <2>2. spec.egress \in OrNone(Seq(EgressRule(Cidr, Seq(Int))))
    BY WorkspaceShape DEF IInv, InputOK
  <2>3. rest \in Seq(T) /\ <<DnsRule>> \in Seq(T) /\ Len(<<DnsRule>>) = 1
          /\ <<DnsRule>>[1] = DnsRule
    <3>1. CASE spec.egress = None
      BY <3>1
    <3>2. CASE spec.egress # None
      <4>1. spec.egress \in Seq(EgressRule(Cidr, Seq(Int)))
        BY <2>2, <3>2 DEF OrNone
      <4>2. entries \in Seq(T)
        BY <4>1
      <4> QED
        BY <3>2, <4>2
    <3> QED
      BY <3>1, <3>2
  <2>4. spec.egress = None => Matches(all, c) /\ rest = <<all>>
    BY DEF Matches, InRange
  <2>5. spec.egress # None =>
          rest = entries /\ spec.egress \in Seq(EgressRule(Cidr, Seq(Int)))
    BY <2>2 DEF OrNone
  <2> HIDE DEF rest, T, all
  <2>6. c \in Reachable <=>
          Matches(DnsRule, c) \/ \E i \in DOMAIN rest : Matches(rest[i], c)
    <3> DEFINE rules == <<DnsRule>> \o rest
    <3>1. c \in Reachable <=> \E i \in DOMAIN rules : Matches(rules[i], c)
      BY <2>1, Zenon DEF Reachable, Matches
    <3>2. /\ DOMAIN rules = 1 .. 1 + Len(rest) /\ Len(rest) \in Nat /\ DOMAIN rest = 1 .. Len(rest)
          /\ rules[1] = DnsRule
          /\ \A i \in 1 .. Len(rest) : rules[1 + i] = rest[i]
      <4>1. 1 \in 1 .. 1
        OBVIOUS
      <4> QED
        BY <2>3, <4>1, ConcatAt, LenProperties
    <3> HIDE DEF rules
    <3>3. ASSUME NEW i \in DOMAIN rules, Matches(rules[i], c)
          PROVE  Matches(DnsRule, c) \/ \E k \in DOMAIN rest : Matches(rest[k], c)
      <4>1. CASE i = 1
        BY <3>2, <3>3, <4>1
      <4>2. CASE i # 1
        <5>1. i - 1 \in 1 .. Len(rest) /\ 1 + (i - 1) = i
          BY <3>2, <4>2
        <5>2. rules[i] = rest[i - 1]
          BY <3>2, <5>1
        <5> QED
          BY <3>2, <3>3, <5>1, <5>2
      <4> QED
        BY <4>1, <4>2
    <3>4. Matches(DnsRule, c) => \E i \in DOMAIN rules : Matches(rules[i], c)
      <4>1. 1 \in DOMAIN rules
        BY <3>2
      <4> QED
        BY <3>2, <4>1
    <3>5. ASSUME NEW k \in DOMAIN rest, Matches(rest[k], c)
          PROVE  \E i \in DOMAIN rules : Matches(rules[i], c)
      <4>1. 1 + k \in DOMAIN rules /\ rules[1 + k] = rest[k]
        BY <3>2
      <4> QED
        BY <3>5, <4>1
    <3> QED
      BY <3>1, <3>3, <3>4, <3>5
  <2>7. CASE spec.egress = None
    <3>1. 1 \in DOMAIN rest /\ Matches(rest[1], c)
      BY <2>4, <2>7
    <3> QED
      BY <2>6, <2>7, <3>1
  <2>8. CASE spec.egress # None
    <3>1. /\ DOMAIN rest = DOMAIN spec.egress
          /\ \A i \in DOMAIN spec.egress :
               /\ rest[i] = RuleOf(spec.egress[i])
               /\ spec.egress[i] \in EgressRule(Cidr, Seq(Int))
      BY <2>5, <2>8
    <3> HIDE DEF entries
    <3>2. ASSUME NEW i \in DOMAIN spec.egress
          PROVE  Matches(rest[i], c) <=>
                   /\ c.host \in spec.egress[i].cidr.hosts
                   /\ \/ spec.egress[i].ports = <<>>
                      \/ c.proto = "TCP" /\ \E k \in DOMAIN spec.egress[i].ports :
                                              spec.egress[i].ports[k] = c.port
      BY <3>1, EntryMatches, Zenon
    <3> QED
      BY <2>6, <2>8, <3>1, <3>2, DnsMatches, Zenon
  <2> QED
    BY <2>7, <2>8
<1> QED
  BY <1>1, Evaluation, PTL

-----------------------------------------------------------------------------
(* The pod. *)

\* Amounts are amounts and limits are not below requests, resource by resource.
Fits(limit, request) ==
  /\ \A q \in {limit, request} \ {None} : q >= 0
  /\ limit # None /\ request # None => request <= limit

Consistent(requests, limits) ==
  /\ \A r \in requests \cup limits : r[2] >= 0
  /\ \A r \in requests : \A l \in limits : r[1] = l[1] => r[2] <= l[2]

LEMMA AmountsFit ==
  ASSUME NEW cpu, NEW memory, NEW cpuLimit, NEW memoryLimit
  PROVE  Consistent(Quantities(cpu, memory), Quantities(cpuLimit, memoryLimit))
           <=> Fits(cpuLimit, cpu) /\ Fits(memoryLimit, memory)
<1> DEFINE requests == Quantities(cpu, memory)
           limits == Quantities(cpuLimit, memoryLimit)
<1>1. ASSUME NEW a, NEW b, NEW q
      PROVE  q \in Quantities(a, b) <=>
               \/ a # None /\ q = <<"cpu", a>>
               \/ b # None /\ q = <<"memory", b>>
  BY DEF Quantities
<1>2. \A a : /\ <<"cpu", a>>[1] = "cpu" /\ <<"cpu", a>>[2] = a
             /\ <<"memory", a>>[1] = "memory" /\ <<"memory", a>>[2] = a
  OBVIOUS
<1>3. ASSUME \A r \in requests \cup limits : r[2] >= 0,
             \A r \in requests : \A l \in limits : r[1] = l[1] => r[2] <= l[2]
      PROVE  Fits(cpuLimit, cpu) /\ Fits(memoryLimit, memory)
  <2>1. /\ cpu # None => <<"cpu", cpu>> \in requests
        /\ memory # None => <<"memory", memory>> \in requests
        /\ cpuLimit # None => <<"cpu", cpuLimit>> \in limits
        /\ memoryLimit # None => <<"memory", memoryLimit>> \in limits
    BY <1>1, Zenon
  <2> HIDE DEF requests, limits
  <2>2. /\ cpu # None => cpu >= 0
        /\ memory # None => memory >= 0
        /\ cpuLimit # None => cpuLimit >= 0
        /\ memoryLimit # None => memoryLimit >= 0
    <3>1. \A a : <<"cpu", a>> \in requests \cup limits => a >= 0
      BY <1>2, <1>3, Zenon
    <3>2. \A a : <<"memory", a>> \in requests \cup limits => a >= 0
      BY <1>2, <1>3, Zenon
    <3> QED
      BY <2>1, <3>1, <3>2, Zenon
  <2>3. cpuLimit # None /\ cpu # None => cpu <= cpuLimit
    BY <1>2, <1>3, <2>1, Zenon
  <2>4. memoryLimit # None /\ memory # None => memory <= memoryLimit
    BY <1>2, <1>3, <2>1, Zenon
  <2> QED
    BY <2>2, <2>3, <2>4, Zenon DEF Fits
<1>4. ASSUME Fits(cpuLimit, cpu), Fits(memoryLimit, memory)
      PROVE  /\ \A r \in requests \cup limits : r[2] >= 0
             /\ \A r \in requests : \A l \in limits : r[1] = l[1] => r[2] <= l[2]
  <2>1. ASSUME NEW r \in requests
        PROVE  \/ cpu # None /\ r[1] = "cpu" /\ r[2] = cpu
               \/ memory # None /\ r[1] = "memory" /\ r[2] = memory
    BY <1>1, <1>2
  <2>2. ASSUME NEW l \in limits
        PROVE  \/ cpuLimit # None /\ l[1] = "cpu" /\ l[2] = cpuLimit
               \/ memoryLimit # None /\ l[1] = "memory" /\ l[2] = memoryLimit
    BY <1>1, <1>2
  <2> HIDE DEF requests, limits
  <2>3. /\ cpu # None => cpu >= 0
        /\ memory # None => memory >= 0
        /\ cpuLimit # None => cpuLimit >= 0
        /\ memoryLimit # None => memoryLimit >= 0
        /\ cpuLimit # None /\ cpu # None => cpu <= cpuLimit
        /\ memoryLimit # None /\ memory # None => memory <= memoryLimit
    BY <1>4 DEF Fits
  <2>4. \A r \in requests \cup limits : r[2] >= 0
    BY <2>1, <2>2, <2>3
  <2>5. ASSUME NEW r \in requests, NEW l \in limits, r[1] = l[1] PROVE r[2] <= l[2]
    <3>1. "cpu" # "memory"
      OBVIOUS
    <3> QED
      BY <2>1, <2>2, <2>3, <2>5, <3>1, Zenon
  <2> QED
    BY <2>4, <2>5
<1> QED
  BY <1>3, <1>4, Zenon DEF Consistent

\* What a pod under accepted settings is made of.
LEMMA PodIs ==
  ASSUME IInv, Applied
  PROVE  LET s == FromEnv(env)
             c == Sandbox.container
             clone == [name |-> "clone-workspace", image |-> s.gitImage,
                       clones |-> Pin.sources, mounts |-> {WorkspaceMount(s)},
                       resources |-> SandboxResources(s)]
         IN  /\ Sandbox.security = AgentSecurityContext(s)
             /\ s.agentUid = "user" /\ s.agentGid = "user"
             /\ c.image = s.calibandImage /\ c.mounts = Mounts(task, s)
             /\ c.resources = SandboxResources(s)
             /\ Sandbox.volumes = Volumes(task, s) /\ Sandbox.claims = {WorkspacePvc(s)}
             /\ Sandbox.initContainers = IF spec.sources = <<>> THEN {} ELSE {clone}
<1> DEFINE s == FromEnv(env)
<1>1. Sandbox = BuildSandbox(task, Pin, s) /\ Validate(s) = None /\ Pin.sources = spec.sources
  BY AppliedIs, PinIs
<1> HIDE DEF s
<1>2. s.agentUid = "user" /\ s.agentGid = "user"
  <2>1. {s.agentUid, s.agentGid} = {"user"}
    BY <1>1, ValidateFinds
  <2> QED
    BY <2>1, Zenon
<1>3. /\ Sandbox.security = AgentSecurityContext(s)
      /\ Sandbox.container = CalibandContainer(task, Pin, s)
      /\ Sandbox.volumes = Volumes(task, s) /\ Sandbox.claims = {WorkspacePvc(s)}
      /\ Sandbox.initContainers = CloneInitContainer(Pin, s)
  BY <1>1 DEF BuildSandbox
<1>4. /\ Sandbox.container.image = s.calibandImage
      /\ Sandbox.container.mounts = Mounts(task, s)
      /\ Sandbox.container.resources = SandboxResources(s)
  BY <1>3 DEF CalibandContainer
<1> QED
  BY <1>1, <1>2, <1>3, <1>4, Zenon DEF CloneInitContainer, s

\* A root that hides nothing and is not inside what is mounted read-only.
Free(root, mount) == root # mount /\ ~StrictlyBelow(mount, root)

LEMMA MountsFit ==
  ASSUME IInv, Applied
  PROVE  LET root == FromEnv(env).workspaceRoot
             containers == {Sandbox.container} \cup Sandbox.initContainers
             mounts == UNION { c.mounts : c \in containers }
             readOnly == { v.name : v \in Sandbox.volumes }
             backed == readOnly \cup { v.name : v \in Sandbox.claims }
         IN  /\ (\A m \in mounts : m.path # <<>> /\ m.volume \in backed) <=> root # <<>>
             /\ (\A m, n \in mounts : /\ m.path = n.path => m = n
                                      /\ m.volume \in readOnly => ~StrictlyBelow(m.path, n.path))
                <=> /\ Free(root, TlsMount)
                    /\ task.routerConfigRef # None => Free(root, RouterConfigMount)
<1> DEFINE s == FromEnv(env)
           root == s.workspaceRoot
           router == task.routerConfigRef # None
           containers == {Sandbox.container} \cup Sandbox.initContainers
           mounts == UNION { c.mounts : c \in containers }
           readOnly == { v.name : v \in Sandbox.volumes }
           backed == readOnly \cup { v.name : v \in Sandbox.claims }
           w == WorkspaceMount(s)
           tls == [volume |-> "session-tls", path |-> TlsMount]
           config == [volume |-> "router-config", path |-> RouterConfigMount]
<1>1. /\ w.path = root /\ w.volume = "workspace"
      /\ tls.path = TlsMount /\ tls.volume = "session-tls"
      /\ config.path = RouterConfigMount /\ config.volume = "router-config"
  BY DEF WorkspaceMount
<1>2. mounts = {w, tls} \cup IF router THEN {config} ELSE {}
  <2>1. Mounts(task, s) = {w, tls} \cup IF router THEN {config} ELSE {}
    BY Zenon DEF Mounts, RouterConfigRef
  <2>2. /\ Sandbox.container.mounts = Mounts(task, s)
        /\ \A i \in Sandbox.initContainers : i.mounts = {w}
    BY PodIs
  <2> HIDE DEF s, w, tls, config, router
  <2> QED
    BY <2>1, <2>2
<1>3. readOnly = {"session-tls"} \cup IF router THEN {"router-config"} ELSE {}
  <2> DEFINE secret == [name |-> "session-tls", from |-> s.sessionTlsSecret]
             map == [name |-> "router-config", from |-> task.routerConfigRef]
  <2>1. Sandbox.volumes = {secret} \cup IF ~router THEN {} ELSE {map}
    BY PodIs, Zenon DEF Volumes, RouterConfigRef
  <2>2. secret.name = "session-tls" /\ map.name = "router-config"
    OBVIOUS
  <2> HIDE DEF secret, map, router
  <2> QED
    BY <2>1, <2>2
<1>4. backed = readOnly \cup {"workspace"}
  <2>1. Sandbox.claims = {WorkspacePvc(s)} /\ WorkspacePvc(s).name = "workspace"
    BY PodIs DEF WorkspacePvc
  <2> HIDE DEF readOnly, s
  <2> QED
    BY <2>1
<1> HIDE DEF s, w, tls, config, router, mounts, readOnly, backed, root
<1>5. /\ TlsMount # <<>> /\ RouterConfigMount # <<>> /\ TlsMount # RouterConfigMount
      /\ ~StrictlyBelow(TlsMount, TlsMount) /\ ~StrictlyBelow(TlsMount, RouterConfigMount)
      /\ ~StrictlyBelow(RouterConfigMount, TlsMount)
      /\ ~StrictlyBelow(RouterConfigMount, RouterConfigMount)
  BY DEF TlsMount, RouterConfigMount, StrictlyBelow
<1>6. (\A m \in mounts : m.path # <<>> /\ m.volume \in backed) <=> root # <<>>
  BY <1>1, <1>2, <1>3, <1>4, <1>5
<1>7. ASSUME \A m, n \in mounts : /\ m.path = n.path => m = n
                                  /\ m.volume \in readOnly => ~StrictlyBelow(m.path, n.path)
      PROVE  Free(root, TlsMount) /\ (router => Free(root, RouterConfigMount))
  <2>1. w # tls /\ w # config
    <3>1. "workspace" # "session-tls" /\ "workspace" # "router-config"
      OBVIOUS
    <3> QED
      BY <1>1, <3>1, Zenon
  <2>2. w \in mounts /\ tls \in mounts /\ "session-tls" \in readOnly
    BY <1>2, <1>3
  <2>3. router => config \in mounts /\ "router-config" \in readOnly
    BY <1>2, <1>3
  <2> QED
    BY <1>1, <1>7, <2>1, <2>2, <2>3, Zenon DEF Free
<1>8. ASSUME Free(root, TlsMount), router => Free(root, RouterConfigMount),
             NEW m \in mounts, NEW n \in mounts
      PROVE  /\ m.path = n.path => m = n
             /\ m.volume \in readOnly => ~StrictlyBelow(m.path, n.path)
  <2>1. /\ m = w \/ m = tls \/ (router /\ m = config)
        /\ n = w \/ n = tls \/ (router /\ n = config)
    BY <1>2
  <2>2. "workspace" \notin readOnly
    BY <1>3
  <2> QED
    BY <1>1, <1>5, <1>8, <2>1, <2>2, Zenon DEF Free
<1> QED
  BY <1>6, <1>7, <1>8, Zenon DEF root, s, router, mounts, containers, readOnly, backed

\* The images, the Secrets and the ConfigMap have names.
LEMMA NamesFilled ==
  ASSUME IInv, Applied
  PROVE  LET s == FromEnv(env)
             containers == {Sandbox.container} \cup Sandbox.initContainers
             token == Effective("CALIBAN_DAEMON_TOKEN").from
             named == {s.calibandImage, s.sessionTlsSecret, s.sessionTokenSecret,
                       s.sessionTokenKey, task.routerConfigRef}
                        \cup { s.gitImage : i \in DOMAIN spec.sources }
         IN  /\ \A c \in containers : c.image \notin Blank
             /\ \A v \in Sandbox.volumes : v.from \notin Blank
             /\ token.secretName \notin Blank /\ token.key \notin Blank
             <=> named \cap Blank = {}
<1> DEFINE s == FromEnv(env)
           containers == {Sandbox.container} \cup Sandbox.initContainers
           token == Effective("CALIBAN_DAEMON_TOKEN").from
           router == task.routerConfigRef # None
           cloned == spec.sources # <<>>
           named == {s.calibandImage, s.sessionTlsSecret, s.sessionTokenSecret,
                     s.sessionTokenKey, task.routerConfigRef}
                      \cup { s.gitImage : i \in DOMAIN spec.sources }
<1>1. token.secretName = s.sessionTokenSecret /\ token.key = s.sessionTokenKey
  BY LastToken DEF SessionToken
<1>2. (\A c \in containers : c.image \notin Blank) <=>
        s.calibandImage \notin Blank /\ (cloned => s.gitImage \notin Blank)
  <2>1. /\ Sandbox.container.image = s.calibandImage
        /\ cloned => \E clone : Sandbox.initContainers = {clone} /\ clone.image = s.gitImage
        /\ ~cloned => Sandbox.initContainers = {}
    <3> DEFINE clone == [name |-> "clone-workspace", image |-> s.gitImage,
                         clones |-> Pin.sources, mounts |-> {WorkspaceMount(s)},
                         resources |-> SandboxResources(s)]
    <3>1. /\ Sandbox.container.image = s.calibandImage
          /\ Sandbox.initContainers = IF ~cloned THEN {} ELSE {clone}
      BY PodIs, Zenon
    <3>2. clone.image = s.gitImage
      OBVIOUS
    <3> HIDE DEF s, cloned, clone
    <3> QED
      BY <3>1, <3>2
  <2> HIDE DEF s, cloned
  <2> QED
    BY <2>1
<1>3. (\A v \in Sandbox.volumes : v.from \notin Blank) <=>
        s.sessionTlsSecret \notin Blank /\ (router => task.routerConfigRef \notin Blank)
  <2> DEFINE secret == [name |-> "session-tls", from |-> s.sessionTlsSecret]
             map == [name |-> "router-config", from |-> task.routerConfigRef]
  <2>1. Sandbox.volumes = {secret} \cup IF ~router THEN {} ELSE {map}
    BY PodIs, Zenon DEF Volumes, RouterConfigRef
  <2>2. secret.from = s.sessionTlsSecret /\ map.from = task.routerConfigRef
    OBVIOUS
  <2> HIDE DEF secret, map, router, s
  <2> QED
    BY <2>1, <2>2
<1>4. None \notin Blank
  BY NoneAssumption DEF Blank, Literals
<1>5. { s.gitImage : i \in DOMAIN spec.sources } = IF cloned THEN {s.gitImage} ELSE {}
  <2>1. PICK T : spec.sources \in Seq(T)
    BY WorkspaceShape DEF IInv, InputOK
  <2>2. DOMAIN spec.sources = 1 .. Len(spec.sources) /\ Len(spec.sources) \in Nat
    BY <2>1, LenProperties
  <2>3. cloned <=> Len(spec.sources) # 0
    BY <2>1, EmptySeq
  <2>4. cloned <=> 1 \in DOMAIN spec.sources
    BY <2>2, <2>3
  <2>5. ~cloned => DOMAIN spec.sources = {}
    BY <2>2, <2>3
  <2> HIDE DEF s, cloned
  <2> QED
    BY <2>4, <2>5
<1> HIDE DEF s, token, cloned
<1>6. named \cap Blank = {} <=>
        /\ s.calibandImage \notin Blank /\ s.sessionTlsSecret \notin Blank
        /\ s.sessionTokenSecret \notin Blank /\ s.sessionTokenKey \notin Blank
        /\ router => task.routerConfigRef \notin Blank
        /\ cloned => s.gitImage \notin Blank
  BY <1>4, <1>5
<1> HIDE DEF named, containers, router
<1> QED
  BY <1>1, <1>2, <1>3, <1>6, Zenon DEF s, token, named, containers

\* A pod fails to be acceptable only for what startup does not look at.
THEOREM AcceptedPods == Spec => []PodIsAcceptable
<1>1. IInv => PodIsAcceptable
  <2> DEFINE s == FromEnv(env)
             containers == {Sandbox.container} \cup Sandbox.initContainers
             mounts == UNION { c.mounts : c \in containers }
             readOnly == { v.name : v \in Sandbox.volumes }
             backed == readOnly \cup { v.name : v \in Sandbox.claims }
             token == Effective("CALIBAN_DAEMON_TOKEN").from
             amounts == Sandbox.container.resources
             named == {s.calibandImage, s.sessionTlsSecret, s.sessionTokenSecret,
                       s.sessionTokenKey, task.routerConfigRef}
                        \cup { s.gitImage : i \in DOMAIN spec.sources }
  <2> SUFFICES ASSUME IInv, Applied
               PROVE  Acceptable <=>
                        /\ Fits(s.cpuLimit, s.cpuRequest) /\ Fits(s.memoryLimit, s.memoryRequest)
                        /\ s.workspaceStorage > 0
                        /\ s.workspaceRoot # <<>> /\ Free(s.workspaceRoot, TlsMount)
                        /\ task.routerConfigRef # None => Free(s.workspaceRoot, RouterConfigMount)
                        /\ named \cap Blank = {}
    <3>1. IInv /\ Applied => out.settings = FromEnv(env)
      BY AppliedIs
    <3> QED
      BY <3>1, Zenon DEF PodIsAcceptable, Fits, Free
  <2>1. Sandbox.security.runAsUser = "user" /\ Sandbox.security.fsGroup = "user"
    BY PodIs DEF AgentSecurityContext
  <2>2. (\A v \in Sandbox.claims : v.storage > 0) <=> s.workspaceStorage > 0
    <3>1. Sandbox.claims = {WorkspacePvc(s)}
      BY PodIs
    <3>2. WorkspacePvc(s).storage = s.workspaceStorage
      BY DEF WorkspacePvc
    <3> HIDE DEF s
    <3> QED
      BY <3>1, <3>2, Zenon
  <2>3. /\ \A r \in amounts.requests \cup amounts.limits : r[2] >= 0
        /\ \A r \in amounts.requests : \A l \in amounts.limits : r[1] = l[1] => r[2] <= l[2]
        <=> Fits(s.cpuLimit, s.cpuRequest) /\ Fits(s.memoryLimit, s.memoryRequest)
    <3>1. /\ amounts.requests = Quantities(s.cpuRequest, s.memoryRequest)
          /\ amounts.limits = Quantities(s.cpuLimit, s.memoryLimit)
      BY PodIs DEF SandboxResources
    <3> HIDE DEF s, amounts
    <3>2. Consistent(Quantities(s.cpuRequest, s.memoryRequest),
                     Quantities(s.cpuLimit, s.memoryLimit))
            <=> Fits(s.cpuLimit, s.cpuRequest) /\ Fits(s.memoryLimit, s.memoryRequest)
      BY AmountsFit, Zenon
    <3>3. Consistent(amounts.requests, amounts.limits)
            <=> Fits(s.cpuLimit, s.cpuRequest) /\ Fits(s.memoryLimit, s.memoryRequest)
      BY <3>1, <3>2, Zenon
    <3> QED
      BY <3>3, Zenon DEF Consistent
  <2>4. /\ (\A m \in mounts : m.path # <<>> /\ m.volume \in backed) <=> s.workspaceRoot # <<>>
        /\ (\A m, n \in mounts : /\ m.path = n.path => m = n
                                 /\ m.volume \in readOnly => ~StrictlyBelow(m.path, n.path))
           <=> /\ Free(s.workspaceRoot, TlsMount)
               /\ task.routerConfigRef # None => Free(s.workspaceRoot, RouterConfigMount)
    BY MountsFit, Zenon
  <2>5. /\ \A c \in containers : c.image \notin Blank
        /\ \A v \in Sandbox.volumes : v.from \notin Blank
        /\ token.secretName \notin Blank /\ token.key \notin Blank
        <=> named \cap Blank = {}
    BY NamesFilled, Zenon
  <2> HIDE DEF s, named
  <2> QED
    BY <2>1, <2>2, <2>3, <2>4, <2>5, Zenon DEF Acceptable
<1> QED
  BY <1>1, Evaluation, PTL

\* The policy isolates the pod of its own task and no neighbour's.
THEOREM PolicySelection == Spec => []PolicySelectsItsPod
<1>1. IInv => PolicySelectsItsPod
  <2> DEFINE children == {out.children.serviceAccount, NetworkPolicy, Sandbox}
             other(n) == [task EXCEPT !.name = n]
             s == FromEnv(env)
  <2> SUFFICES ASSUME IInv, Applied
               PROVE  /\ NetworkPolicy.podSelector \subseteq Sandbox.podLabels
                      /\ \A n \in Neighbours :
                           NetworkPolicy.podSelector \subseteq
                             BuildSandbox(other(n), out.pin, out.settings).podLabels
                           => n = task.name
                      /\ Sandbox.serviceAccount = out.children.serviceAccount.meta.name
                      /\ \A c \in children : /\ c.meta.owner.uid = task.uid
                                             /\ c.meta.namespace = task.namespace
    BY Zenon DEF PolicySelectsItsPod
  <2>1. /\ Sandbox = BuildSandbox(task, Pin, s) /\ NetworkPolicy = BuildNetworkPolicy(task, Pin, s)
        /\ out.children = Plan(task, Pin, s)
    BY AppliedIs
  <2> HIDE DEF s
  <2>2. /\ NetworkPolicy.podSelector = CommonLabels(task)
        /\ NetworkPolicy.meta = ChildMeta(task, NetpolName(task))
    BY <2>1 DEF BuildNetworkPolicy
  <2>3. /\ Sandbox.podLabels = CommonLabels(task) /\ Sandbox.serviceAccount = SaName(task)
        /\ Sandbox.meta = ChildMeta(task, SandboxName(task))
    BY <2>1 DEF BuildSandbox
  <2>4. out.children.serviceAccount.meta = ChildMeta(task, SaName(task))
    BY <2>1 DEF Plan, BuildServiceAccount
  <2>5. ASSUME NEW name
        PROVE  /\ ChildMeta(task, name).name = name
               /\ ChildMeta(task, name).namespace = task.namespace
               /\ ChildMeta(task, name).owner.uid = task.uid
    BY DEF ChildMeta, OwnerRef
  <2>6. ASSUME NEW n,
               NetworkPolicy.podSelector \subseteq
                 BuildSandbox(other(n), out.pin, out.settings).podLabels
        PROVE  n = task.name
    <3> DEFINE key == "caliban.caliban-ai.dev/task"
    <3>1. BuildSandbox(other(n), out.pin, out.settings).podLabels = CommonLabels(other(n))
      BY DEF BuildSandbox
    <3>2. other(n).name = n
      BY TaskShape DEF IInv, InputOK
    <3> HIDE DEF other
    <3>3. <<key, task.name>> \in CommonLabels(other(n))
      <4>1. <<key, task.name>> \in CommonLabels(task)
        BY DEF CommonLabels
      <4> QED
        BY <2>2, <2>6, <3>1, <4>1, Zenon
    <3>4. \/ <<key, task.name>> = <<"app.kubernetes.io/managed-by", "caliban-operator">>
          \/ <<key, task.name>> = <<key, n>>
      BY <3>2, <3>3, Zenon DEF CommonLabels
    <3> QED
      BY <3>4
  <2>7. ASSUME NEW c \in children
        PROVE  c.meta.owner.uid = task.uid /\ c.meta.namespace = task.namespace
    <3>1. \/ c.meta = ChildMeta(task, SaName(task))
          \/ c.meta = ChildMeta(task, NetpolName(task))
          \/ c.meta = ChildMeta(task, SandboxName(task))
      BY <2>2, <2>3, <2>4, Zenon
    <3> QED
      BY <2>5, <3>1, Zenon
  <2>8. Sandbox.serviceAccount = out.children.serviceAccount.meta.name
    BY <2>3, <2>4, <2>5, Zenon
  <2> HIDE DEF children
  <2> QED
    BY <2>2, <2>3, <2>6, <2>7, <2>8, Zenon
<1> QED
  BY <1>1, Evaluation, PTL

-----------------------------------------------------------------------------
(* Notes. *)

\* Offset adds up the bytes of the characters, of which each takes one to four.
LEMMA OffsetUnfolds ==
  ASSUME NEW text \in Texts
  PROVE  /\ Offset(text) \in [0 .. Len(text) -> Nat]
         /\ Offset(text)[0] = 0
         /\ \A n \in 1 .. Len(text) : Offset(text)[n] = Offset(text)[n - 1] + text[n]
<1> DEFINE step == [n \in 1 .. Len(text) |-> [bytes \in Nat |-> bytes + text[n]]]
           Defined(f) == f = [n \in 0 .. Len(text) |->
                                IF n = 0 THEN 0 ELSE f[n - 1] + text[n]]
<1>0. Len(text) \in Nat /\ \A n \in 1 .. Len(text) : text[n] \in 1 .. 4
  BY DEF Texts
<1>1. step \in [1 .. Len(text) -> [Nat -> Nat]]
  <2>1. \A n \in 1 .. Len(text) : \A bytes \in Nat : bytes + text[n] \in Nat
    BY <1>0
  <2> QED
    BY <2>1
<1>2. PICK f : Unfolds(f, Len(text), Nat, 0, step)
  <2> HIDE DEF step
  <2>1. 0 \in Nat
    OBVIOUS
  <2> QED
    BY <1>0, <1>1, <2>1, Recursion, Zenon
<1>3. Defined(f)
  <2>1. f \in [0 .. Len(text) -> Nat] /\ f[0] = 0
    BY <1>2 DEF Unfolds
  <2>2. ASSUME NEW n \in 1 .. Len(text) PROVE f[n] = f[n - 1] + text[n]
    <3>1. f[n] = step[n][f[n - 1]]
      BY <1>2 DEF Unfolds
    <3>2. f[n - 1] \in Nat
      BY <2>1
    <3> QED
      BY <3>1, <3>2
  <2> DEFINE value(n) == IF n = 0 THEN 0 ELSE f[n - 1] + text[n]
  <2>3. ASSUME NEW n \in 0 .. Len(text) PROVE f[n] = value(n)
    <3>1. CASE n = 0
      BY <2>1, <3>1
    <3>2. CASE n \in 1 .. Len(text)
      BY <2>2, <3>2
    <3> QED
      BY <1>0, <3>1, <3>2
  <2>4. f = [n \in 0 .. Len(text) |-> value(n)]
    <3> HIDE DEF value
    <3> QED BY <2>1, <2>3
  <2> QED
    BY <2>4
<1>4. Offset(text) = CHOOSE g : Defined(g)
  BY DEF Offset
<1>5. Defined(Offset(text))
  <2> HIDE DEF Defined
  <2> QED BY <1>3, <1>4
<1>6. Offset(text)[0] = 0
  BY <1>0, <1>5
<1>7. ASSUME NEW n \in 1 .. Len(text) PROVE Offset(text)[n] = Offset(text)[n - 1] + text[n]
  <2>1. n \in 0 .. Len(text) /\ n # 0
    OBVIOUS
  <2> QED
    BY <1>5, <2>1
<1> DEFINE Good == { n \in 0 .. Len(text) : Offset(text)[n] \in Nat }
<1>8. \A n \in 0 .. Len(text) : n \in Good
  <2>1. 0 \in Good
    BY <1>0, <1>6
  <2>2. ASSUME NEW n \in 1 .. Len(text), n - 1 \in Good PROVE n \in Good
    <3>1. Offset(text)[n - 1] \in Nat /\ text[n] \in 1 .. 4 /\ n \in 0 .. Len(text)
      BY <1>0, <2>2
    <3> QED
      BY <1>7, <3>1
  <2> HIDE DEF Good
  <2> QED BY <1>0, <2>1, <2>2, Induction
<1>9. Offset(text) \in [0 .. Len(text) -> Nat]
  <2>1. \A n \in 0 .. Len(text) : Offset(text)[n] \in Nat
    BY <1>8
  <2>2. Offset(text) = [n \in 0 .. Len(text) |-> Offset(text)[n]]
    BY <1>5 DEF Defined
  <2> QED
    BY <2>1, <2>2
<1> QED
  BY <1>6, <1>7, <1>9

\* A prefix takes the bytes that lie before its end.
LEMMA PrefixBytes ==
  ASSUME NEW text \in Texts, NEW k \in 0 .. Len(text)
  PROVE  /\ SubSeq(text, 1, k) \in Texts /\ Len(SubSeq(text, 1, k)) = k
         /\ Bytes(SubSeq(text, 1, k)) = Offset(text)[k]
<1> DEFINE part == SubSeq(text, 1, k)
<1>1. Len(text) \in Nat /\ k \in Nat /\ k <= Len(text)
  BY DEF Texts
<1>2. /\ part \in Texts /\ Len(part) = k
      /\ \A n \in 1 .. k : part[n] = text[n]
  <2>1. \A n \in 1 .. k : text[n] \in 1 .. 4
    BY <1>1 DEF Texts
  <2> QED
    BY <1>1, <2>1, SubSeqProperties DEF Texts
<1> HIDE DEF part
<1>3. /\ Offset(part)[0] = 0 /\ Offset(text)[0] = 0
      /\ \A n \in 1 .. k : Offset(part)[n] = Offset(part)[n - 1] + text[n]
      /\ \A n \in 1 .. k : Offset(text)[n] = Offset(text)[n - 1] + text[n]
  <2>1. /\ Offset(part)[0] = 0 /\ Offset(text)[0] = 0
        /\ \A n \in 1 .. k : Offset(part)[n] = Offset(part)[n - 1] + part[n]
        /\ \A n \in 1 .. Len(text) : Offset(text)[n] = Offset(text)[n - 1] + text[n]
    BY <1>2, OffsetUnfolds
  <2> QED
    BY <1>1, <1>2, <2>1
<1> DEFINE Good == { n \in 0 .. k : Offset(part)[n] = Offset(text)[n] }
<1>4. \A n \in 0 .. k : n \in Good
  <2>1. 0 \in Good
    BY <1>1, <1>3
  <2>2. ASSUME NEW n \in 1 .. k, n - 1 \in Good PROVE n \in Good
    BY <1>1, <1>3, <2>2
  <2> HIDE DEF Good
  <2> QED BY <1>1, <2>1, <2>2, Induction
<1>5. k \in 0 .. k
  BY <1>1
<1> QED
  BY <1>2, <1>4, <1>5 DEF Bytes, part

\* A text that is too long is cut at the last boundary that fits.
LEMMA TruncateNoteIs ==
  ASSUME NEW text \in Texts
  PROVE  LET note == TruncateNote(text) IN
         /\ Bytes(note) <= NoteMax
         /\ note = SubSeq(text, 1, Len(note))
         /\ note # text => Bytes(SubSeq(text, 1, Len(note) + 1)) > NoteMax
<1>1. /\ Offset(text) \in [0 .. Len(text) -> Nat] /\ Offset(text)[0] = 0
      /\ \A n \in 1 .. Len(text) : Offset(text)[n] = Offset(text)[n - 1] + text[n]
  BY OffsetUnfolds
<1>2. Len(text) \in Nat /\ NoteMax \in Nat /\ Len(text) \in 0 .. Len(text)
  BY NoteAssumption DEF Texts
<1>3. CASE Bytes(text) <= NoteMax
  <2>1. TruncateNote(text) = text
    BY <1>3 DEF TruncateNote
  <2>2. text = SubSeq(text, 1, Len(text))
    BY SubSeqFull DEF Texts
  <2> QED
    BY <1>3, <2>1, <2>2
<1>4. CASE ~(Bytes(text) <= NoteMax)
  <2> DEFINE boundary(i) == Offset(text)[i] <= NoteMax
             end == CHOOSE i \in 0 .. Len(text) : boundary(i) /\ ~boundary(i + 1)
             fits == { i \in 0 .. Len(text) : boundary(i) }
  <2>1. 0 \in fits /\ fits \in SUBSET (0 .. Len(text)) /\ Len(text) \notin fits
    BY <1>1, <1>2, <1>4 DEF Bytes
  <2>2. PICK last \in fits : \A j \in fits : j <= last
    <3> HIDE DEF fits
    <3> QED BY <1>2, <2>1, GreatestElement
  <2>3. last \in 0 .. Len(text) /\ boundary(last) /\ ~boundary(last + 1)
    <3>1. last # Len(text) /\ last \in 0 .. Len(text)
      BY <2>1
    <3>2. last + 1 \in 0 .. Len(text)
      BY <1>2, <3>1
    <3> QED
      BY <2>2, <3>1, <3>2
  <2>4. \A i \in 0 .. Len(text) : boundary(i) /\ ~boundary(i + 1) => i + 1 \in 0 .. Len(text)
    <3>1. ASSUME NEW i \in 0 .. Len(text), boundary(i) PROVE i + 1 \in 0 .. Len(text)
      <4>1. i # Len(text)
        BY <2>1, <3>1
      <4> QED
        BY <1>2, <4>1
    <3> QED
      BY <3>1
  <2>5. end \in 0 .. Len(text) /\ boundary(end) /\ ~boundary(end + 1)
    BY <2>3
  <2>6. TruncateNote(text) = SubSeq(text, 1, end)
    BY <1>4, Zenon DEF TruncateNote
  <2> HIDE DEF end
  <2>7. /\ Len(SubSeq(text, 1, end)) = end /\ Bytes(SubSeq(text, 1, end)) = Offset(text)[end]
        /\ Bytes(SubSeq(text, 1, end + 1)) = Offset(text)[end + 1]
    BY <2>4, <2>5, PrefixBytes, Zenon
  <2>8. Offset(text)[end + 1] \in Nat
    BY <1>1, <2>4, <2>5
  <2> QED
    BY <1>2, <2>5, <2>6, <2>7, <2>8
<1> QED
  BY <1>3, <1>4

\* Every Event carries as much of its message as fits.
THEOREM Notes == Spec => []NoteFits
<1>1. IInv => NoteFits
  <2> SUFFICES ASSUME IInv, Done, NEW event \in out.events
               PROVE  LET note == event.note IN
                      /\ Bytes(note) <= NoteMax
                      /\ note = SubSeq(message, 1, Len(note))
                      /\ note # message => Bytes(SubSeq(message, 1, Len(note) + 1)) > NoteMax
    BY Zenon DEF NoteFits
  <2>1. message \in Texts
    BY DEF IInv, InputOK
  <2>2. ASSUME NEW type, NEW reason, NEW action
        PROVE  Event(type, reason, action, message).note = TruncateNote(message)
    BY DEF Event
  <2>3. PhaseChanged("Provisioning", "Running", message)
          = Event("Normal", "PhaseChanged", "Reconcile", message)
    BY DEF PhaseChanged
  <2>4. event.note = TruncateNote(message)
    <3>1. event \in {PhaseChanged("Provisioning", "Running", message),
                     TaskFailed("WorkspaceUnresolved", message),
                     UnattendedAdmitted(message), ReconcileError(message)}
      BY Outcome, Zenon
    <3>2. /\ TaskFailed("WorkspaceUnresolved", message)
               = Event("Warning", "WorkspaceUnresolved", "Admit", message)
          /\ UnattendedAdmitted(message) = Event("Normal", "UnattendedAdmitted", "Admit", message)
          /\ ReconcileError(message) = Event("Warning", "ReconcileError", "Reconcile", message)
      BY DEF TaskFailed, UnattendedAdmitted, ReconcileError
    <3> QED
      BY <2>2, <2>3, <3>1, <3>2, Zenon
  <2> QED
    BY <2>1, <2>4, TruncateNoteIs, Zenon
<1> QED
  BY <1>1, Evaluation, PTL
=============================================================================
