------------------------- MODULE SourceClone_proofs -------------------------
(* Proofs about SourceClone, for every list of sources and any number of   *)
(* faults.                                                                  *)
EXTENDS SourceClone, TLAPS

\* What the script may rely on when no kill interrupts git: a directory with a
\* .git is a checkout, but for the one being cloned, and every source the
\* script has passed has one.
Passed ==
  /\ \A p \in Paths : volume[p] = "partial" => cloning /\ p = sources[at]
  /\ pc = "script" => \A i \in 1 .. at - 1 : volume[sources[i]] = "checkout"
  /\ pc = "agent" => \A p \in Paths : volume[p] = "checkout"

-----------------------------------------------------------------------------
\* The shape of the variables is kept by every step of the script, of git and
\* of kubelet, however often containers are killed (resources.rs:356-393).
THEOREM TypeCorrect == Spec => []TypeOK
<1>1. Init => TypeOK
  <2> SUFFICES ASSUME Init PROVE TypeOK
    OBVIOUS
  <2>1. Len(sources) \in Nat /\ DOMAIN sources = 1 .. Len(sources)
    BY CloneAssumption DEF CloneAssumption, Init
  <2>2. MaxFaults \in Nat
    BY CloneAssumption DEF CloneAssumption
  <2> QED
    <3>1. volume \in [Paths -> {"absent", "partial", "checkout"}]
      BY DEF Init
    <3>2. at \in 1 .. Len(sources) + 1
      BY <2>1 DEF Init
    <3>3. faults \in 0 .. MaxFaults
      BY <2>2 DEF Init
    <3> QED
      BY <3>1, <3>2, <3>3 DEF Init, TypeOK
<1>2. TypeOK /\ [Next]_vars => TypeOK'
  <2> SUFFICES ASSUME TypeOK, [Next]_vars PROVE TypeOK'
    OBVIOUS
  <2>1. /\ Len(sources) \in Nat /\ DOMAIN sources = 1 .. Len(sources)
        /\ MaxFaults \in Nat
    BY CloneAssumption DEF CloneAssumption, TypeOK
  <2>2. \A i \in DOMAIN sources : sources[i] \in Paths
    BY DEF Paths
  <2>3. sources' = sources /\ Paths' = Paths
    BY DEF Next, Script, StartPod, SkipSource, BeginClone, RefuseTarget,
           EndClone, FailClone, StartAgent, Kill, vars, Paths
  <2>13. 1 \in 1 .. Len(sources') + 1
    BY <2>1, <2>3
  <2>4. CASE StartPod
    BY <2>1, <2>3, <2>4 DEF StartPod, TypeOK
  <2>5. CASE SkipSource
    BY <2>1, <2>3, <2>5 DEF SkipSource, AtSource, TypeOK
  <2>6. CASE BeginClone
    BY <2>1, <2>2, <2>3, <2>6 DEF BeginClone, AtSource, TypeOK
  <2>7. CASE RefuseTarget
    BY <2>1, <2>3, <2>7, <2>13 DEF RefuseTarget, Exit, TypeOK
  <2>8. CASE EndClone
    <3>1. at \in DOMAIN sources /\ at + 1 \in 1 .. Len(sources') + 1
      BY <2>1, <2>3, <2>8 DEF EndClone, TypeOK
    <3>2. volume' \in [Paths' -> {"absent", "partial", "checkout"}]
      BY <2>2, <2>3, <2>8, <3>1 DEF EndClone, TypeOK
    <3> QED
      BY <2>3, <2>8, <3>1, <3>2 DEF EndClone, TypeOK
  <2>9. CASE StartAgent
    BY <2>1, <2>3, <2>9 DEF StartAgent, TypeOK
  <2>10. CASE FailClone
    <3>1. faults' \in 0 .. MaxFaults
      BY <2>1, <2>10 DEF FailClone, Fault, TypeOK
    <3>2. volume' \in [Paths' -> {"absent", "partial", "checkout"}]
      BY <2>2, <2>3, <2>10 DEF FailClone, TypeOK
    <3> QED
      BY <2>3, <2>10, <2>13, <3>1, <3>2 DEF FailClone, Exit, TypeOK
  <2>11. CASE Kill
    <3>1. faults' \in 0 .. MaxFaults
      BY <2>1, <2>11 DEF Kill, Fault, TypeOK
    <3> QED
      BY <2>3, <2>11, <2>13, <3>1 DEF Kill, Exit, TypeOK
  <2>12. CASE UNCHANGED vars
    BY <2>3, <2>12 DEF vars, TypeOK
  <2> QED
    BY <2>4, <2>5, <2>6, <2>7, <2>8, <2>9, <2>10, <2>11, <2>12 DEF Next, Script
<1> QED
  BY <1>1, <1>2, PTL DEF Spec

-----------------------------------------------------------------------------
LEMMA PassedKept ==
  ASSUME ~KillsMidClone, TypeOK, Passed, [Next]_vars
  PROVE  Passed'
<1>1. /\ Len(sources) \in Nat /\ DOMAIN sources = 1 .. Len(sources)
      /\ \A i, j \in DOMAIN sources : sources[i] = sources[j] => i = j
  BY CloneAssumption DEF CloneAssumption, TypeOK
<1>2. \A i \in DOMAIN sources : sources[i] \in Paths
  BY DEF Paths
<1>3. sources' = sources /\ Paths' = Paths
  BY DEF Next, Script, StartPod, SkipSource, BeginClone, RefuseTarget,
         EndClone, FailClone, StartAgent, Kill, vars, Paths
<1>4. CASE StartPod
  <2>1. sources = <<>> => Paths = {}
    BY <1>1 DEF Paths
  <2> QED
    BY <1>1, <1>3, <1>4, <2>1 DEF StartPod, TypeOK, Passed
\* A source that is skipped has a .git and is not being cloned.
<1>5. CASE SkipSource
  <2>1. volume[sources[at]] = "checkout"
    BY <1>1, <1>2, <1>5 DEF SkipSource, AtSource, GitDirPresent, TypeOK, Passed
  <2>2. \A i \in 1 .. at : volume[sources[i]] = "checkout"
    BY <1>5, <2>1 DEF SkipSource, AtSource, TypeOK, Passed
  <2> QED
    BY <1>1, <1>3, <1>5, <2>2 DEF SkipSource, AtSource, TypeOK, Passed
<1>6. CASE BeginClone
  <2>1. \A i \in 1 .. at - 1 : sources[i] # sources[at]
    BY <1>1, <1>6 DEF BeginClone, AtSource, TypeOK
  <2> QED
    BY <1>1, <1>2, <1>3, <1>6, <2>1 DEF BeginClone, AtSource, TypeOK, Passed
<1>7. CASE RefuseTarget
  BY <1>1, <1>3, <1>7 DEF RefuseTarget, AtSource, Exit, TypeOK, Passed
<1>8. CASE EndClone
  <2>1. \A i \in 1 .. at : volume'[sources[i]] = "checkout"
    BY <1>1, <1>2, <1>8 DEF EndClone, TypeOK, Passed
  <2>2. \A p \in Paths : volume'[p] # "partial"
    BY <1>1, <1>2, <1>8 DEF EndClone, TypeOK, Passed
  <2> QED
    BY <1>1, <1>3, <1>8, <2>1, <2>2 DEF EndClone, TypeOK, Passed
<1>9. CASE StartAgent
  <2>1. \A i \in DOMAIN sources : volume[sources[i]] = "checkout"
    BY <1>1, <1>9 DEF StartAgent, TypeOK, Passed
  <2>2. \A p \in Paths : volume[p] = "checkout"
    BY <2>1 DEF Paths
  <2> QED
    BY <1>3, <1>9, <2>2 DEF StartAgent, Passed
<1>10. CASE FailClone
  <2>1. \A p \in Paths : volume'[p] # "partial"
    BY <1>1, <1>2, <1>10 DEF FailClone, TypeOK, Passed
  <2> QED
    BY <1>3, <1>10, <2>1 DEF FailClone, Exit, Passed
<1>11. CASE Kill
  BY <1>3, <1>11 DEF Kill, Exit, Passed
<1>12. CASE UNCHANGED vars
  BY <1>3, <1>12 DEF vars, Passed
<1> QED
  BY <1>4, <1>5, <1>6, <1>7, <1>8, <1>9, <1>10, <1>11, <1>12 DEF Next, Script

\* As long as no container is killed while git clones, the agent only ever
\* starts on complete checkouts of all its sources: the test for <path>/.git is
\* then as good as a test for the checkout (resources.rs:347-368).
THEOREM ClonesComplete ==
  ASSUME ~KillsMidClone
  PROVE  Spec => []AgentSeesSources
<1>1. Init => Passed
  BY DEF Init, Passed
<1>2. TypeOK /\ Passed /\ [Next]_vars => Passed'
  BY PassedKept
<1>3. Passed => AgentSeesSources
  BY DEF Passed, AgentSeesSources
<1> QED
  BY <1>1, <1>2, <1>3, TypeCorrect, PTL DEF Spec
=============================================================================
