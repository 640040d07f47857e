-------------------------------- MODULE CliRun --------------------------------
(***************************************************************************)
(* What one CLI run promises the GUI (the doc comments of Process in       *)
(* gui/src/cli/process.rs): the process is always reaped, the run settles  *)
(* at most once, and only after the process is gone; a run nobody asked to *)
(* stop settles with what its output reader made of the whole output, and  *)
(* a run that was asked to stop always settles.                            *)
(***************************************************************************)
VARIABLES
  process,   \* "alive" until the process has been reaped, then "gone"
  asked,     \* whether the owner asked for the run to be cancelled
  result     \* "none", "discarded", or how the delivered output ended

runVars == <<process, asked, result>>

RunInit ==
  /\ process = "alive"
  /\ asked = FALSE
  /\ result = "none"

Ask ==
  /\ asked' = TRUE
  /\ UNCHANGED <<process, result>>

Reap ==
  /\ process = "alive"
  /\ process' = "gone"
  /\ UNCHANGED <<asked, result>>

\* A reader gives up only when the owner has asked for it.
Deliver(end) ==
  /\ process = "gone"
  /\ result = "none"
  /\ end = "stopped" => asked
  /\ result' = end
  /\ UNCHANGED <<process, asked>>

Discard ==
  /\ asked
  /\ result = "none"
  /\ process' = "gone"
  /\ result' = "discarded"
  /\ UNCHANGED asked

Settle == Discard \/ \E end \in {"eof", "refused", "stopped"} : Deliver(end)

RunNext == Ask \/ Reap \/ Settle

SafeRun == RunInit /\ [][RunNext]_runVars

Run == SafeRun /\ WF_runVars(asked /\ (Reap \/ Settle))
===============================================================================
