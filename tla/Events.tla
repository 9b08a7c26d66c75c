------------------------------- MODULE Events -------------------------------
(***************************************************************************)
(* The Events the operator publishes (src/events.rs).  A text is the       *)
(* sequence of its characters, each the number of bytes it takes.          *)
(***************************************************************************)
EXTENDS Integers, Sequences, Option

CONSTANT NoteMax   \* NOTE_MAX
ASSUME NoteAssumption == NoteMax \in Nat /\ NoteMax >= 4

\* Offset(text)[i]: the bytes that the first i characters take.
Offset(text) ==
  LET at[i \in 0 .. Len(text)] == IF i = 0 THEN 0 ELSE at[i - 1] + text[i] IN at
Bytes(text) == Offset(text)[Len(text)]

\* Mutant: characters are counted.
TruncateCharacters(text) ==
  IF Len(text) <= NoteMax THEN text ELSE SubSeq(text, 1, NoteMax)

\* Back from NoteMax to the nearest boundary between two characters.
TruncateNote(text) ==
  IF Bytes(text) <= NoteMax THEN text
  ELSE LET boundary(i) == Offset(text)[i] <= NoteMax
           end == CHOOSE i \in 0 .. Len(text) : boundary(i) /\ ~boundary(i + 1)
       IN  SubSeq(text, 1, end)

Event(type, reason, action, note) ==
  [type |-> type, reason |-> reason, action |-> action, note |-> TruncateNote(note)]

PhaseChanged(from, to, note) ==
  IF from = to THEN None ELSE Event("Normal", "PhaseChanged", "Reconcile", note)
TaskFailed(reason, message) == Event("Warning", reason, "Admit", message)
UnattendedAdmitted(note) == Event("Normal", "UnattendedAdmitted", "Admit", note)
ReconcileError(message) == Event("Warning", "ReconcileError", "Reconcile", message)
=============================================================================
