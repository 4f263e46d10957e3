---------------------------- MODULE TicketStates ----------------------------
(***************************************************************************)
(* The ticket state machine (orchestrator/state_machine.py): the statuses  *)
(* of the board and the transitions TicketStateMachine.transition allows.  *)
(* Many handlers write a status without asking it; they are modelled where *)
(* they live.                                                              *)
(***************************************************************************)

Statuses == {"backlog", "ready", "in_progress", "testing", "diff_pending",
             "review", "awaiting_acceptance", "done", "blocked", "abandoned",
             "split"}

LegalTransitions ==
  {<<"backlog", "ready">>,
   <<"ready", "in_progress">>,
   <<"in_progress", "testing">>,
   <<"testing", "in_progress">>, <<"testing", "diff_pending">>,
   <<"diff_pending", "in_progress">>, <<"diff_pending", "review">>,
   <<"review", "backlog">>, <<"review", "awaiting_acceptance">>,
   <<"awaiting_acceptance", "backlog">>, <<"awaiting_acceptance", "done">>}

CanTransition(source, target) == <<source, target>> \in LegalTransitions

\* A ticket some execution is supposed to be working on.
Live == {"in_progress", "testing"}

\* A ticket split and abandon refuse to touch, and the board shows as terminal.
Terminal == {"done", "abandoned", "split"}
=============================================================================
