----------------------------- MODULE MCHardware -----------------------------
(***************************************************************************)
(* Hardware for TLC: two images, a confidential machine, a simulator that  *)
(* speaks its protocol, or nothing, behind each way of naming an endpoint. *)
(***************************************************************************)
EXTENDS Hardware

MCEvent == [kind |-> "prompt", environment |-> "staging", approval |-> {}, approvers |-> 0,
            risk |-> 0, before |-> {}, after |-> "text"]

Config(required, verifier, pinned, variable, sim, socket) ==
    [required |-> required, verifier |-> verifier, pin |-> pinned,
     DSTACK_ENDPOINT |-> variable, DSTACK_SIMULATOR_ENDPOINT |-> sim, socket |-> socket]

At(form, agent) == {[form |-> form, agent |-> agent]}

(* Each agent with and without a requirement, a verifier and a pin; a      *)
(* variable that hides the socket, one that is empty, an incomplete pin.   *)
MCConfigs ==
    {Config(required, verifier, p, {}, {}, At("path", "cvm")) :
        required \in BOOLEAN, verifier \in BOOLEAN, p \in {{}, {measurement("i1")}}}
    \cup {Config(required, verifier, {}, {}, At("url", "protocol"), {}) :
        required \in BOOLEAN, verifier \in BOOLEAN}
    \cup {Config(FALSE, verifier, {}, {}, {}, {}) : verifier \in BOOLEAN}
    \cup {Config(TRUE, TRUE, {}, At("url", "cvm"), At("url", "protocol"), At("path", "protocol")),
          Config(TRUE, TRUE, {}, At("empty", "none"), {}, At("path", "cvm")),
          Config(FALSE, FALSE, {}, At("empty", "none"), {}, At("path", "cvm")),
          Config(FALSE, TRUE, {[r \in REGISTERS \ {"rtmr3"} |-> measurement("i1")[r]]}, {}, {}, At("path", "cvm"))}
=============================================================================
