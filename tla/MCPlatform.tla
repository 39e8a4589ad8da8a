------------------------------- MODULE MCPlatform ------------------------------
(***************************************************************************)
(* The components around the registry: events between services, machine    *)
(* learning platforms, pipelines, migrations, and accounts.  They share no *)
(* state, so each moves by itself: focus is the one that does, the others  *)
(* rest where they start.  Offers to users follow the states of versions,  *)
(* which move under the focus "offers".                                    *)
(***************************************************************************)
EXTENDS Messaging, MlPlatforms, CicdIntegration, Migrator, Access, TLC

CONSTANTS p1, p2, p3, e1, e2, x1, x2, r1, r2, c1, c2, s1, k1, v1, v2, w1, w2, w3, w4,
          a1, a2, i1, i2, ann, bob

VARIABLE focus

platformVars ==
  <<messagingVars, mlVars, cicdVars, migratorVars, accessVars, lifecycleVars>>

Focused(part, vars1, vars2, vars3, vars4, vars5) ==
  focus = part /\ UNCHANGED <<focus, vars1, vars2, vars3, vars4, vars5>>

AllInit ==
  /\ focus \in {"events", "platforms", "pipelines", "migrations", "accounts", "offers"}
  /\ kind \in [Events -> (IF focus = "events" THEN Event ELSE {CHOOSE e \in Event : TRUE})]
  /\ MessagingInit /\ MlInit /\ CicdInit /\ MigratorInit /\ AccessInit /\ LifecycleInit

AllNext ==
  \/ /\ Focused("events", mlVars, cicdVars, migratorVars, accessVars, lifecycleVars)
     /\ MessagingNext
  \/ /\ Focused("platforms", messagingVars, cicdVars, migratorVars, accessVars, lifecycleVars)
     /\ MlNext
  \/ /\ Focused("pipelines", messagingVars, mlVars, migratorVars, accessVars, lifecycleVars)
     /\ CicdNext
  \/ /\ Focused("migrations", messagingVars, mlVars, cicdVars, accessVars, lifecycleVars)
     /\ MigratorNext
  \/ /\ Focused("accounts", messagingVars, mlVars, cicdVars, migratorVars, lifecycleVars)
     /\ AccessNext
  \/ /\ Focused("offers", messagingVars, mlVars, cicdVars, migratorVars, accessVars)
     /\ LifecycleNext

AllSpec == AllInit /\ [][AllNext]_<<focus, platformVars>>

-----------------------------------------------------------------------------
TheMention == k1 :> "version"
TheEvents == {"import_started", "import_completed", "export_started", "export_completed"}

(* a release without a second file, a later one that has it, edited since,  *)
(* and a copy of a checkout before the third                                *)
TheReleases ==
  (p1 :> (1 :> e1 @@ 3 :> e1)) @@ (p2 :> (1 :> e1 @@ 2 :> e2 @@ 3 :> e1)) @@
  (p3 :> (1 :> e1 @@ 2 :> e1))

(* two identities of one person; nobody signs on as the other *)
OneMail == (i1 :> ann) @@ (i2 :> ann)
TwoRoles == {{"MRC"}, {"SRE"}}
=============================================================================
