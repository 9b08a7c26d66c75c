---------------------------- MODULE SourceClone ----------------------------
(***************************************************************************)
(* The clone-workspace init container (src/resources.rs clone_script,      *)
(* clone_init_container) filling the persistent workspace volume, over     *)
(* failed clones and containers that are killed.                           *)
(*                                                                         *)
(* The script runs through the pinned sources in order and ends at the     *)
(* first command that fails (set -eu); kubelet starts it again from the    *)
(* top, on the volume as it was left.  The agent starts once it succeeds.  *)
(*                                                                         *)
(* git is external: it refuses a target that is not absent or empty,       *)
(* creates <path>/.git first and the work tree last, and removes what it   *)
(* made when a clone fails, but not when it is killed.                     *)
(*                                                                         *)
(* Abstraction.  A path is the sequence of its components below the root.  *)
(* The repositories' own files never lie at another source's path.         *)
(***************************************************************************)
EXTENDS Integers, Sequences

CONSTANTS
  SourceLists,     \* pinned sources, as the sequence of their paths
  KillsMidClone,   \* may a container be killed while git clones?
  MaxFaults        \* bound on failed clones and killed containers

ASSUME CloneAssumption ==
  /\ KillsMidClone \in BOOLEAN /\ MaxFaults \in Nat
  /\ \A s \in SourceLists :
       /\ Len(s) \in Nat /\ DOMAIN s = 1 .. Len(s)
       /\ \A i, j \in DOMAIN s : s[i] = s[j] => i = j

VARIABLES
  sources,   \* the pin's; it stays what it is
  volume,    \* each source's directory: "absent", "partial", "checkout"
  pc,        \* "waiting" for a container, "script", or "agent"
  at,        \* the source the script has reached
  cloning,   \* git clone is running for it
  faults

vars == <<sources, volume, pc, at, cloning, faults>>

Paths == { sources[i] : i \in DOMAIN sources }

-----------------------------------------------------------------------------
Below(p, q) == Len(p) < Len(q) /\ SubSeq(q, 1, Len(p)) = p

\* Mutant: [ ! -d <path> ] in place of [ ! -d <path>/.git ].
DirectoryPresent(p) ==
  volume[p] # "absent" \/ \E q \in Paths : Below(p, q) /\ volume[q] # "absent"

\* Mutant: no test at all.
NeverPresent(p) == FALSE

\* [ -d <path>/.git ]
GitDirPresent(p) == volume[p] # "absent"

\* What git accepts as a target.
Cloneable(p) ==
  /\ volume[p] = "absent"
  /\ \A q \in Paths : Below(p, q) => volume[q] = "absent"

Exit == pc' = "waiting" /\ at' = 1 /\ cloning' = FALSE
Fault == faults < MaxFaults /\ faults' = faults + 1

-----------------------------------------------------------------------------
\* Without sources there is no init container.
StartPod ==
  /\ pc = "waiting"
  /\ pc' = IF sources = <<>> THEN "agent" ELSE "script"
  /\ UNCHANGED <<sources, volume, at, cloning, faults>>

AtSource == pc = "script" /\ at <= Len(sources) /\ ~cloning

SkipSource ==
  /\ AtSource
  /\ GitDirPresent(sources[at])
  /\ at' = at + 1
  /\ UNCHANGED <<sources, volume, pc, cloning, faults>>

BeginClone ==
  /\ AtSource
  /\ ~GitDirPresent(sources[at])
  /\ Cloneable(sources[at])
  /\ volume' = [volume EXCEPT ![sources[at]] = "partial"]
  /\ cloning' = TRUE
  /\ UNCHANGED <<sources, pc, at, faults>>

RefuseTarget ==
  /\ AtSource
  /\ ~GitDirPresent(sources[at])
  /\ ~Cloneable(sources[at])
  /\ Exit
  /\ UNCHANGED <<sources, volume, faults>>

\* Mutant: the script moves on while git is still running.
EndCloneRunning ==
  /\ cloning
  /\ volume' = [volume EXCEPT ![sources[at]] = "checkout"]
  /\ at' = at + 1
  /\ UNCHANGED <<sources, pc, cloning, faults>>

EndClone ==
  /\ cloning
  /\ volume' = [volume EXCEPT ![sources[at]] = "checkout"]
  /\ cloning' = FALSE
  /\ at' = at + 1
  /\ UNCHANGED <<sources, pc, faults>>

\* The remote, the network or the ref: git cleans up and the script exits.
FailClone ==
  /\ cloning
  /\ Fault
  /\ volume' = [volume EXCEPT ![sources[at]] = "absent"]
  /\ Exit
  /\ UNCHANGED sources

StartAgent ==
  /\ pc = "script" /\ at > Len(sources)
  /\ pc' = "agent"
  /\ UNCHANGED <<sources, volume, at, cloning, faults>>

\* Node loss, eviction, deletion past its grace period, out of memory.
Kill ==
  /\ pc # "waiting"
  /\ cloning => KillsMidClone
  /\ Fault
  /\ Exit
  /\ UNCHANGED <<sources, volume>>

Script ==
  \/ StartPod \/ SkipSource \/ BeginClone \/ RefuseTarget \/ EndClone \/ StartAgent

-----------------------------------------------------------------------------
Init ==
  /\ sources \in SourceLists
  /\ volume = [p \in Paths |-> "absent"]
  /\ pc = "waiting" /\ at = 1 /\ cloning = FALSE /\ faults = 0

Next == Script \/ FailClone \/ Kill

\* kubelet restarts the container and the script runs; git ends.
Spec == Init /\ [][Next]_vars
FairSpec == Spec /\ WF_vars(Script)

-----------------------------------------------------------------------------
\* The shape of every variable.
TypeOK ==
  /\ sources \in SourceLists
  /\ volume \in [Paths -> {"absent", "partial", "checkout"}]
  /\ pc \in {"waiting", "script", "agent"}
  /\ at \in 1 .. Len(sources) + 1
  /\ pc = "waiting" => at = 1
  /\ cloning \in BOOLEAN
  /\ cloning => pc = "script" /\ at \in DOMAIN sources /\ volume[sources[at]] = "partial"
  /\ faults \in 0 .. MaxFaults

\* The agent never starts on a workspace that lacks a source or holds part of
\* one, over any number of failed clones and restarts on the same volume
\* (resources.rs:347-349, ADR 0003:40-44).
AgentSeesSources ==
  pc = "agent" => \A p \in Paths : volume[p] = "checkout"

\* A source is listed before one whose directory it lies in.
ChildBeforeParent ==
  \E i, j \in DOMAIN sources : i < j /\ Below(sources[j], sources[i])

\* The agent gets to run once faults stop: what an earlier container left on
\* the volume never makes the script fail for good (ADR 0003:43-44).  The
\* exception is a list in which a source precedes the one it lies in: git
\* refuses the outer one on every start, although the Workspace is Ready
\* (resources.rs:358-368; workspace.rs:357 compares for equality only).
Starts ==
  /\ ~ChildBeforeParent => <>[](pc = "agent")
  /\ ChildBeforeParent => [](pc # "agent")
=============================================================================
