---------------------------- MODULE PinProtocol ----------------------------
(***************************************************************************)
(* What the controller promises about pins, without its requests, caches   *)
(* and children (docs/adr/0004, 0006; reconcile and derive_status in       *)
(* src/controller.rs).                                                     *)
(*                                                                         *)
(* A task is granted a config, and with it to run attended or unattended.  *)
(* A grant is durable before anything runs from it, only a durable config  *)
(* is ever run, and a config is forgotten only by failing the task.        *)
(***************************************************************************)
EXTENDS Option

CONSTANTS
  Configs,   \* what may be granted: a config that authorizes what it asks for
  Allowing   \* the configs that allow unattended tasks

VARIABLES
  recorded,  \* the task's durable grant, None if it has none
  known,     \* configs of durable grants that are still remembered somewhere
  carried,   \* None, or [grant, durable]: what is being acted on
  running    \* the config the task runs from, None if it does not run

vars == <<recorded, known, carried, running>>

Grant ==
  { g \in [config : Configs, unattended : BOOLEAN] :
      g.unattended => g.config \in Allowing }

Init == recorded = None /\ known = {} /\ carried = None /\ running = None

\* Memories lag behind the record and fade.
Remember ==
  known' \subseteq known \cup IF recorded' = None THEN {} ELSE {recorded'.config}

Choose ==
  /\ carried' # None
  /\ carried'.grant \in Grant /\ ~carried'.durable
  /\ UNCHANGED <<recorded, running>>

Recall ==
  /\ carried' # None
  /\ carried'.grant \in Grant /\ carried'.durable
  /\ carried'.grant.config \in known
  /\ UNCHANGED <<recorded, running>>

Persist ==
  /\ carried # None
  /\ recorded' = carried.grant
  /\ carried' \in {[grant |-> carried.grant, durable |-> TRUE], None}
  /\ UNCHANGED running

Build ==
  /\ carried # None
  /\ carried.durable
  /\ running' = carried.grant.config
  /\ carried' \in {carried, None}
  /\ UNCHANGED recorded

Drop ==
  /\ carried' = None
  /\ UNCHANGED <<recorded, running>>

Fail ==
  /\ carried = None
  /\ recorded' = None
  /\ UNCHANGED <<carried, running>>

Remove ==
  /\ running' = None
  /\ UNCHANGED <<recorded, carried>>

\* Nothing but memories changes.
Fade == UNCHANGED <<recorded, carried, running>>

Next ==
  /\ Remember
  /\ \/ Fade \/ Choose \/ Recall \/ Persist \/ Build \/ Drop \/ Fail \/ Remove

Spec == Init /\ [][Next]_vars
=============================================================================
