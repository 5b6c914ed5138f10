---------------------------- MODULE RemoteCall -----------------------------
(***************************************************************************)
(* What a function of the host driver promises its caller: it asks the     *)
(* device once, waits for the device's verdict, and returns that verdict.  *)
(* A function may refuse a call by itself, and then asks nothing.          *)
(***************************************************************************)
CONSTANTS
  Functions,  (* the functions that ask the device                          *)
  Trusted     (* those whose return value is the verdict                    *)

VARIABLES
  running,    \* the function that is being executed, or "none"
  verdict,    \* "success" or "failure" once the device has decided
  outcome     \* what the last call to return told its caller

remoteVars == <<running, verdict, outcome>>

Verdict == {"success", "failure"}

RemoteInit == running = "none" /\ verdict = "open" /\ outcome = "success"

Refuse(f) ==
  /\ running = "none" /\ outcome' \in Verdict
  /\ UNCHANGED <<running, verdict>>

Ask(f) ==
  /\ running = "none"
  /\ running' = f /\ outcome' = "open"
  /\ UNCHANGED verdict

Decide ==
  /\ running # "none" /\ verdict = "open"
  /\ verdict' \in Verdict
  /\ UNCHANGED <<running, outcome>>

Return ==
  /\ running # "none" /\ verdict \in Verdict
  /\ outcome' \in IF running \in Trusted THEN {verdict} ELSE Verdict
  /\ running' = "none" /\ verdict' = "open"

RemoteNext == Decide \/ Return \/ \E f \in Functions : Refuse(f) \/ Ask(f)

RemoteSpec == RemoteInit /\ [][RemoteNext]_remoteVars

============================================================================
