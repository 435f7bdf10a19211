------------------------------ MODULE EventLog ------------------------------
(***************************************************************************)
(* What an Oven's event stream promises its readers: a numbered log of     *)
(* which a window base..committed can be read, every number of it.  An     *)
(* event gets the next number, at most once while it can be read; the      *)
(* window only moves forward and never loses the event published last.     *)
(***************************************************************************)
EXTENDS Integers

CONSTANT Events

VARIABLES base,       \* the first number that can be read
          committed,  \* the last one, base - 1 while there is none
          window      \* the event of each number in between

vars == <<base, committed, window>>

Init ==
  /\ base = 1
  /\ committed = 0
  /\ window = [s \in 1..0 |-> 0]

Append(e) ==
  /\ \A s \in base..committed : window[s] # e
  /\ committed' = committed + 1
  /\ window' = [s \in base..committed' |-> IF s = committed' THEN e ELSE window[s]]
  /\ UNCHANGED base

Trim ==
  /\ base' \in base + 1..committed
  /\ window' = [s \in base'..committed |-> window[s]]
  /\ UNCHANGED committed

Next == Trim \/ \E e \in Events : Append(e)

Spec == Init /\ [][Next]_vars
==============================================================================
