------------------------------- MODULE MCBackend -------------------------------
(* Instance for TLC of the parts of a backend that its role does not concern:   *)
(* its boot, and the functions it hands to funrun pods.  They share no state,   *)
(* so a behaviour is one of a single part, and the others stay as they began.   *)
EXTENDS FunrunCall, FunrunEndpoints, FunrunPod, Boot

VARIABLE part

MCInit ==
  /\ part \in {"call", "endpoints", "pod", "boot"}
  /\ CallInit /\ EndpointsInit /\ PodInit /\ BootInit
  /\ part # "call" => kind = "query"
  /\ part # "boot" => leaders = CHOOSE ls \in LeaderSets : TRUE

MCNext ==
  \/ part = "call" /\ CallNext /\ UNCHANGED <<part, endpointsVars, podVars, bootVars>>
  \/ part = "endpoints" /\ EndpointsNext /\ UNCHANGED <<part, callVars, podVars, bootVars>>
  \/ part = "pod" /\ PodNext /\ UNCHANGED <<part, callVars, endpointsVars, bootVars>>
  \/ part = "boot" /\ BootNext /\ UNCHANGED <<part, callVars, endpointsVars, podVars>>

MCSpec ==
  /\ MCInit /\ [][MCNext]_<<part, callVars, endpointsVars, podVars, bootVars>>
  /\ \/ part = "call" /\ CallFairness
     \/ part = "endpoints" /\ EndpointsFairness
     \/ part = "pod" /\ PodFairness
     \/ part = "boot" /\ BootFairness
================================================================================
