-------------------------- MODULE MCDeploymentGate --------------------------
(* DeploymentGate for TLC, four instances: assessments that cross seconds    *)
(* and share batches, without labels; a scored label, incidents and the      *)
(* evidence around one HIGH assessment, which is HIGH in three of its seven  *)
(* categories only; the same around a LIMITED assessment, with one incident; *)
(* and labels by score and by checklist over two seconds.                    *)
EXTENDS DeploymentGate

Factors(pii, autonomous) ==
  [sector |-> "telecom", handles_pii |-> pii, population |-> "individual",
   autonomy |-> AutonomyLevel(autonomous, FALSE)]

MCInstances ==
  {[profiles |-> {Factors(FALSE, FALSE), Factors(TRUE, FALSE), Factors(TRUE, TRUE)},
    levels |-> {"supervised"}, causes |-> {}, asked |-> TRUE, requested |-> FALSE,
    runs |-> 2, labels |-> 0, incidents |-> 0, time |-> 3],
   [profiles |-> {Factors(TRUE, FALSE)},
    levels |-> {"supervised"}, causes |-> {TRUE}, asked |-> TRUE, requested |-> FALSE,
    runs |-> 1, labels |-> 1, incidents |-> 2, time |-> 0],
   [profiles |-> {Factors(FALSE, FALSE)},
    levels |-> {"supervised"}, causes |-> {TRUE}, asked |-> TRUE, requested |-> FALSE,
    runs |-> 1, labels |-> 1, incidents |-> 1, time |-> 0],
   [profiles |-> {Factors(FALSE, FALSE)},
    levels |-> {"supervised"}, causes |-> {}, asked |-> FALSE, requested |-> TRUE,
    runs |-> 1, labels |-> 2, incidents |-> 0, time |-> 3]}
=============================================================================
