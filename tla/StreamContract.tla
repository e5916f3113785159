----------------------------- MODULE StreamContract -----------------------------
(***************************************************************************)
(* What the runtime relies on when it consumes a model stream              *)
(* (crates/core/app-events, ModelStream; backend/src/inference.rs          *)
(* drive_run): text deltas, then exactly one item that ends the stream,    *)
(* then nothing. Only the consumer may end it earlier, by dropping it.     *)
(***************************************************************************)
EXTENDS Sequences

VARIABLES
  yielded,   \* what the consumer has received
  state      \* "open", "ended" by a last item, or "dropped" by the consumer

Deltas == {"delta"}
Endings == {"completed", "failed", "error"}

ContractInit == yielded = <<>> /\ state = "open"

Delta ==
  /\ state = "open"
  /\ \E x \in Deltas : yielded' = Append(yielded, x)
  /\ UNCHANGED state

Ending ==
  /\ state = "open"
  /\ \E x \in Endings : yielded' = Append(yielded, x)
  /\ state' = "ended"

Dropped ==
  /\ state = "open"
  /\ state' = "dropped"
  /\ UNCHANGED yielded

ContractNext == Delta \/ Ending \/ Dropped

ContractSpec == ContractInit /\ [][ContractNext]_<<yielded, state>>
===============================================================================
