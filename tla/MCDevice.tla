-------------------------------- MODULE MCDevice --------------------------------
(* Two calls at a time about two devices and one truck, five calls in all.       *)
(* Requests, secrets and trips are not permuted: a liveness property is checked. *)
EXTENDS DeviceIngest
================================================================================
