----------------------------- MODULE MCRoomRuntime -----------------------------
(* RoomRuntime on small instances. *)
EXTENDS RoomRuntime, TLC

Symmetry == Permutations(Reqs) \cup Permutations(Gens)

\* What the tasks read: not the invites, the guests, the clock and the history.
TasksView == <<writable, status, run, messages, req, gen, active>>
================================================================================
