------------------------------ MODULE Handover ------------------------------
(***************************************************************************)
(* The CalibanTask controller across a change of leader.  A replica that   *)
(* loses the lease drops its controllers (src/bin/caliban-operator.rs      *)
(* run_elected) while a request of theirs may already have been sent; the  *)
(* replica that leads next starts from a list, and the write of the former *)
(* leader takes effect whenever it arrives, or never.                      *)
(***************************************************************************)
EXTENDS TaskReconcile

VARIABLE late   \* None, or the write of a former leader that is still under way
handoverVars == <<vars, late>>

Write(object, value) == [object |-> object, value |-> value]

\* The write a reconcile has under way.
Sent ==
  CASE pc = "pin"              -> Write("status", PinStatus(resolved, Posture(obj)))
    [] pc \in {"status", "fail"} -> Write("status", body)
    [] pc = "serviceAccount"   -> Write("child", "ServiceAccount")
    [] pc = "networkPolicy"    -> Write("child", "NetworkPolicy")
    [] pc = "sandbox"          -> Write("sandbox", BuildSandbox(None))

Writing == {"pin", "serviceAccount", "networkPolicy", "sandbox", "status", "fail"}

HandOver ==
  /\ pc \in Writing
  /\ late = None
  /\ late' = Sent
  /\ Restart

LandStatus ==
  /\ late.object = "status"
  /\ task' = [task EXCEPT !.status = Apply(@, late.value)]
  /\ UNCHANGED <<users, cluster, queued>>

LandChild ==
  /\ late.object = "child"
  /\ children' = children \cup {late.value}
  /\ UNCHANGED <<task, users, sandbox, queued>>

\* The owns() watch of the new leader sees the change.
LandSandbox ==
  /\ late.object = "sandbox"
  /\ sandbox' = IF sandbox = None THEN late.value
                ELSE [sandbox EXCEPT !.pin = late.value.pin, !.state = late.value.state]
  /\ queued' = (queued \/ sandbox' # sandbox)
  /\ UNCHANGED <<task, users, children>>

Land ==
  /\ late # None
  /\ late' = None
  /\ LandStatus \/ LandChild \/ LandSandbox
  /\ UNCHANGED <<operator, edits>>

Lose ==
  /\ late # None
  /\ late' = None
  /\ UNCHANGED vars

HandoverInit == Init /\ late = None

HandoverNext ==
  \/ Next /\ UNCHANGED late
  \/ HandOver \/ Land \/ Lose

\* As in TaskReconcile; a request under way arrives or is lost.
HandoverFairness ==
  /\ WF_handoverVars(Reconcile /\ UNCHANGED late)
  /\ WF_handoverVars(WatchTask /\ UNCHANGED late)
  /\ WF_handoverVars(TimerFires /\ UNCHANGED late)
  /\ WF_handoverVars(ValidateStep /\ UNCHANGED late)
  /\ WF_handoverVars(ServiceCreated /\ UNCHANGED late)
  /\ WF_handoverVars(PodReady /\ UNCHANGED late)
  /\ WF_handoverVars(Land \/ Lose)

HandoverSpec == HandoverInit /\ [][HandoverNext]_handoverVars /\ HandoverFairness

=============================================================================
