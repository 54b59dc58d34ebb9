-------------------------- MODULE MCRegistryDelivery --------------------------
(* Small instances of RegistryDelivery: the commands of two pull requests, *)
(* both applies, or a plan and an apply beside a scheduled job.            *)
EXTENDS RegistryDelivery, TLC

CONSTANTS r1, r2, p1, p2, v1

TwoPRs == (r1 :> p1) @@ (r2 :> p2)
UpUp == (r1 :> "up") @@ (r2 :> "up")
PlanUp == (r1 :> "plan") @@ (r2 :> "up")
===============================================================================
