----------------------------- MODULE RunContract -----------------------------
(***************************************************************************)
(* What a Run promises its hosts and operators, without a journal, a graph *)
(* or a process: it works under a lease whose number is never used again,  *)
(* asks one claim at a time, takes one answer for it and acts on that once *)
(* before it asks again.  It is not paused while somebody is asked, does   *)
(* not converge after a failure or with a question open, and ends once.    *)
(***************************************************************************)
EXTENDS Naturals

CONSTANTS Claims,      \* what may be asked
          Kinds,       \* what may be answered
          Terminals,   \* the states in which a Run has ended
          NoClaim, None

VARIABLES state,     \* prepared, running, paused or ended
          gen,       \* number of the last lease
          lease,     \* number of the present one, 0 for none
          asked,     \* the claim a host has to answer
          due,       \* the answer that has not yet taken effect
          claims,    \* everything that was ever asked
          answers,   \* every answer, with its claim
          failed     \* the system has given the Run up

vars == <<state, gen, lease, asked, due, claims, answers, failed>>

Init ==
  /\ state = "prepared"
  /\ gen = 0
  /\ lease = 0
  /\ asked = NoClaim
  /\ due = None
  /\ claims = {}
  /\ answers = {}
  /\ failed = FALSE

Resume ==
  /\ state \in {"prepared", "paused"}
  /\ state' = "running"
  /\ UNCHANGED <<gen, lease, asked, due, claims, answers, failed>>

Pause ==
  /\ state = "running"
  /\ asked = NoClaim
  /\ state' = "paused"
  /\ UNCHANGED <<gen, lease, asked, due, claims, answers, failed>>

Lease ==
  /\ state = "running"
  /\ lease = 0
  /\ gen' = gen + 1
  /\ lease' = gen + 1
  /\ UNCHANGED <<state, asked, due, claims, answers, failed>>

Drop ==
  /\ lease # 0
  /\ lease' = 0
  /\ UNCHANGED <<state, gen, asked, due, claims, answers, failed>>

Working == state = "running" /\ lease # 0

Ask ==
  /\ Working
  /\ asked = NoClaim
  /\ due = None
  /\ asked' \in Claims \ (claims \cup {NoClaim})
  /\ claims' = claims \cup {asked'}
  /\ UNCHANGED <<state, gen, lease, due, answers, failed>>

Answer ==
  /\ Working
  /\ asked # NoClaim
  /\ due = None
  /\ due' \in Kinds \ {None}
  /\ answers' = answers \cup {[claim |-> asked, kind |-> due']}
  /\ asked' = NoClaim
  /\ UNCHANGED <<state, gen, lease, claims, failed>>

Leave ==
  /\ Working
  /\ due # None
  /\ due' = None
  /\ UNCHANGED <<state, gen, lease, asked, claims, answers, failed>>

\* A failure may leave open what was asked, or take it back for good.
Fail ==
  /\ Working
  /\ failed' = TRUE
  /\ \/ UNCHANGED <<asked, due>>
     \/ asked' = NoClaim /\ due' = None
  /\ UNCHANGED <<state, gen, lease, claims, answers>>

End ==
  /\ state \notin Terminals
  /\ state' \in Terminals
  /\ state' = "converged" => ~failed /\ asked = NoClaim /\ due = None
  /\ lease' = 0
  /\ asked' = NoClaim
  /\ due' = None
  /\ failed' = (state' # "converged")
  /\ UNCHANGED <<gen, claims, answers>>

Next ==
  \/ Resume \/ Pause \/ Lease \/ Drop
  \/ Ask \/ Answer \/ Leave \/ Fail \/ End

Spec == Init /\ [][Next]_vars
==============================================================================
