----------------------------- MODULE SlotQueue -----------------------------
(***************************************************************************)
(* What a limiter promises its callers, without saying how it counts: at   *)
(* most Concurrency tasks hold a slot, at most QueueSize more stand in     *)
(* line, a slot that frees goes to the head of the line in the same step,  *)
(* and a newcomer is turned away only when every place is taken.           *)
(* Limiter.tla (lib/limiter.ts) is shown to implement this.                *)
(***************************************************************************)
EXTENDS Naturals, Sequences, FiniteSets

CONSTANTS Tasks, Concurrency, QueueSize

VARIABLES holding,   \* the tasks that hold a slot
          line,      \* the tasks in line, oldest first
          refused,   \* the tasks turned away
          gone       \* the tasks that finished, or left without a slot

slots == <<holding, line, refused, gone>>

InLine == {line[i] : i \in 1..Len(line)}

New == Tasks \ (holding \cup InLine \cup refused \cup gone)

Init ==
  /\ holding = {}
  /\ line = <<>>
  /\ refused = {}
  /\ gone = {}

\* A newcomer takes a free slot only when nobody is in line before it.
Enter(t) ==
  /\ t \in New
  /\ Cardinality(holding) < Concurrency
  /\ line = <<>>
  /\ holding' = holding \cup {t}
  /\ UNCHANGED <<line, refused, gone>>

Join(t) ==
  /\ t \in New
  /\ Cardinality(holding) = Concurrency
  /\ Len(line) < QueueSize
  /\ line' = Append(line, t)
  /\ UNCHANGED <<holding, refused, gone>>

TurnAway(t) ==
  /\ t \in New
  /\ Cardinality(holding) = Concurrency
  /\ Len(line) = QueueSize
  /\ refused' = refused \cup {t}
  /\ UNCHANGED <<holding, line, gone>>

\* A task gives up before it has a slot: the rest of the line keeps its order.
GiveUp(t) ==
  /\ \/ t \in New /\ UNCHANGED line
     \/ \E k \in 1..Len(line) :
          /\ line[k] = t
          /\ line' = [i \in 1..(Len(line) - 1) |-> IF i < k THEN line[i] ELSE line[i + 1]]
  /\ gone' = gone \cup {t}
  /\ UNCHANGED <<holding, refused>>

\* A task leaves its slot, to the head of the line when there is one.
Leave(t) ==
  /\ t \in holding
  /\ gone' = gone \cup {t}
  /\ UNCHANGED refused
  /\ IF line = <<>>
     THEN /\ holding' = holding \ {t}
          /\ UNCHANGED line
     ELSE /\ holding' = (holding \ {t}) \cup {Head(line)}
          /\ line' = Tail(line)

Next ==
  \E t \in Tasks : Enter(t) \/ Join(t) \/ TurnAway(t) \/ GiveUp(t) \/ Leave(t)

Spec == Init /\ [][Next]_slots
=============================================================================
