---------------------------- MODULE MCKernelStartup ----------------------------
(******************************************************************************)
(* KernelStartup with an older build, a newer one and a build whose last step *)
(* is unsafe; with and without an advance; and configurations that list one   *)
(* root more, or one that is enrolled later.                                  *)
(******************************************************************************)
EXTENDS KernelStartup, TLC

Listed(k, t) == [key |-> k, from |-> t]

Older  == [target |-> 1, advance |-> 0, roots |-> << Listed("r1", 0) >>]
Newer  == [target |-> 2, advance |-> 1,
           roots |-> << Listed("r1", 0), Listed("r2", 1) >>]
Broken == [target |-> 3, advance |-> 0, roots |-> << >>]
Ahead  == [target |-> 2, advance |-> 2, roots |-> << Listed("r2", 1) >>]

Builds == {Older, Newer, Broken, Ahead}
Releases == {Newer}
MCConfig == Builds
OneBuild == Releases
Processes == Permutations(Proc)
================================================================================
