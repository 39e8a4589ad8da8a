------------------------------ MODULE Governance ------------------------------
(***************************************************************************)
(* Versions that move through their states while their policies are        *)
(* evaluated and their promotions checked.  The PATCH route that moves a   *)
(* version asks nobody but the trigger.                                    *)
(***************************************************************************)
EXTENDS VersionLifecycle, PolicyEngine

vars == <<lifecycleVars, engineVars>>

Init == LifecycleInit /\ EngineInit

Next ==
  \/ EngineNext /\ UNCHANGED lifecycleVars
  \/ LifecycleNext /\ UNCHANGED engineVars

Spec == Init /\ [][Next]_vars

------------------------------------------------------------------------------
TypeOK == LifecycleType /\ EngineType

(* troubleshooting-faq.md "Policies can only be bypassed through the       *)
(* formal exception process with proper approvals": a version that enters  *)
(* production has no violation without an exception on record.             *)
ProductionIsCompliant ==
  [][\A v \in Versions :
       state[v] # "production" /\ state'[v] = "production" =>
         \A p \in Blocking : exception[p] = "active"]_vars
=============================================================================
