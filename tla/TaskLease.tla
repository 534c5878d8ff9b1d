------------------------------ MODULE TaskLease ------------------------------
(***************************************************************************)
(* What the task queue promises about one unit of work, with workers,      *)
(* parents, clocks and crashes left out.                                   *)
(*                                                                         *)
(* An item is open, held for a term, settled for good, or failed.  Terms   *)
(* are numbered from 1 and never reused; while an item is held, only       *)
(* writes of the current term land on it; it has at most one effect, and   *)
(* nothing but a deliberate Reopen of failed items undoes an end.          *)
(***************************************************************************)
EXTENDS Naturals

CONSTANT Item

VARIABLES
  phase,   \* "open", "held", "settled" or "failed"
  term,    \* the number of times the item has been acquired
  writer,  \* the term of the last write that landed on it (0: none)
  effects  \* how many times it has taken effect

vars == <<phase, term, writer, effects>>

Init ==
  /\ phase = [i \in Item |-> "open"]
  /\ term = [i \in Item |-> 0]
  /\ writer = [i \in Item |-> 0]
  /\ effects = [i \in Item |-> 0]

Acquire(i) ==
  /\ phase[i] = "open"
  /\ phase' = [phase EXCEPT ![i] = "held"]
  /\ term' = [term EXCEPT ![i] = @ + 1]
  /\ UNCHANGED <<writer, effects>>

Write(i) ==
  /\ phase[i] = "held"
  /\ writer' = [writer EXCEPT ![i] = term[i]]
  /\ UNCHANGED <<phase, term, effects>>

(* The holder gives the item back, or loses it without having its say.     *)
Release(i) ==
  /\ phase[i] = "held"
  /\ phase' = [phase EXCEPT ![i] = "open"]
  /\ writer' \in {writer, [writer EXCEPT ![i] = term[i]]}
  /\ UNCHANGED <<term, effects>>

Die(i) ==
  /\ phase[i] = "held"
  /\ phase' = [phase EXCEPT ![i] = "failed"]
  /\ UNCHANGED <<term, writer, effects>>

(* The holder ends the item; with a failure it may take down items nobody  *)
(* holds.                                                                  *)
Effect(i) ==
  /\ phase[i] = "held"
  /\ phase' = [phase EXCEPT ![i] = "settled"]
  /\ writer' = [writer EXCEPT ![i] = term[i]]
  /\ effects' = [effects EXCEPT ![i] = @ + 1]
  /\ UNCHANGED term

Skip(i) ==
  /\ phase[i] = "held"
  /\ phase' = [phase EXCEPT ![i] = "settled"]
  /\ writer' = [writer EXCEPT ![i] = term[i]]
  /\ UNCHANGED <<term, effects>>

Fail(i, S) ==
  /\ phase[i] = "held"
  /\ \A j \in S : phase[j] = "open"
  /\ phase' = [j \in Item |-> IF j = i THEN "failed"
                              ELSE IF j \in S THEN "settled" ELSE phase[j]]
  /\ writer' = [writer EXCEPT ![i] = term[i]]
  /\ UNCHANGED <<term, effects>>

Cancel(S) ==
  /\ \A j \in S : phase[j] = "open"
  /\ phase' = [j \in Item |-> IF j \in S THEN "settled" ELSE phase[j]]
  /\ UNCHANGED <<term, writer, effects>>

Reopen(S) ==
  /\ \A j \in S : phase[j] = "failed"
  /\ phase' = [j \in Item |-> IF j \in S THEN "open" ELSE phase[j]]
  /\ UNCHANGED <<term, writer, effects>>

Next ==
  \/ \E i \in Item :
       \/ Acquire(i) \/ Write(i) \/ Release(i) \/ Die(i) \/ Effect(i)
       \/ Skip(i)
       \/ \E S \in SUBSET Item : Fail(i, S)
  \/ \E S \in SUBSET Item : Cancel(S) \/ Reopen(S)

Spec == Init /\ [][Next]_vars
=============================================================================
