------------------------------ MODULE Handlers ------------------------------
(***************************************************************************)
(* What every component of the backend shares: request handlers, webhook   *)
(* deliveries and scheduled sweeps run as workers.  A worker's task is a   *)
(* record that names the step it is about to take, a step being the code   *)
(* between two awaits that another worker could observe.                   *)
(*                                                                         *)
(* `befell' is a history variable: it names what out of the ordinary has   *)
(* happened.  Only the bound on mishaps reads it.                          *)
(***************************************************************************)
EXTENDS Integers, Sequences, FiniteSets

CONSTANTS
  Workers,
  MaxMishaps,  \* bound: how many kinds of mishap one behaviour may see
  Repeats,     \* bound: may a mishap of one kind happen again?
  None

VARIABLES
  task,        \* what each worker is about to do
  befell       \* history: the mishaps so far

Resting == [step |-> "idle"]

HandlersInit == task = [w \in Workers |-> Resting] /\ befell = {}

Idle(w) == task[w].step = "idle"

At(w, s) == task[w].step = s

\* The bounds: which mishaps happen, and when, is open; how often, the constants say.
Befalls(mishap) ==
  /\ mishap \notin befell \/ Repeats
  /\ befell' = befell \cup {mishap}
  /\ Cardinality(befell') <= MaxMishaps

\* While one handler is half way, another begins.
Overlaps == Befalls("overlap")

\* A handler begins; other handlers may be half way.
Begin(w, t) ==
  /\ Idle(w)
  /\ task' = [task EXCEPT ![w] = t]
  /\ IF \A v \in Workers : Idle(v) THEN UNCHANGED befell ELSE Overlaps

\* A handler begins in circumstances that are a mishap.
BeginAmid(w, t, mishap) ==
  /\ Idle(w)
  /\ task' = [task EXCEPT ![w] = t]
  /\ befell' = befell \cup {mishap} \cup IF \A v \in Workers : Idle(v) THEN {} ELSE {"overlap"}
  /\ mishap \notin befell \/ Repeats
  /\ Cardinality(befell') <= MaxMishaps

\* A handler that reads and writes in one step.
AtOnce ==
  /\ UNCHANGED task
  /\ IF \A v \in Workers : Idle(v) THEN UNCHANGED befell ELSE Overlaps

\* A step of the world outside.
Outside == UNCHANGED <<task, befell>>

\* The handler goes on to another task, step, or is done.
Becomes(w, t) == task' = [task EXCEPT ![w] = t]

Goto(w, s) == Becomes(w, [task[w] EXCEPT !.step = s]) /\ UNCHANGED befell

Finish(w) == Becomes(w, Resting) /\ UNCHANGED befell

FinishAfter(w, mishap) == Becomes(w, Resting) /\ Befalls(mishap)

\* The process dies between two awaits of a handler.
Dies(w) == ~Idle(w) /\ FinishAfter(w, "crash")

AllIdle == \A w \in Workers : Idle(w)

\* A handler broken off half way, or run beside another.
Interrupted == {"crash", "thrown", "overlap"}

\* None of these happened.
Spared(mishaps) == befell \cap mishaps = {}

=============================================================================
