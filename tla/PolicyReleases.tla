---------------------------- MODULE PolicyReleases ----------------------------
(***************************************************************************)
(* Which version of the tool policy is in force                            *)
(* (research_technology/mcp/gateway/policy_releases.py): a row of SQLite   *)
(* with a stable version and perhaps a canary, changed by configure_canary,*)
(* promote and rollback in one transaction each, and read by select_policy.*)
(*                                                                         *)
(* A change is a pair of a guard and the row it makes; one whose guard     *)
(* fails raises and leaves the row.  The bucket of a call is a number      *)
(* below 100, a hash of who makes it and for which task.                   *)
(***************************************************************************)
EXTENDS Integers

NoVersion == "none"

(* _initialize_path.                                                       *)
Initial(stable) ==
  [stable |-> stable, canary |-> NoVersion, rollout |-> 0, previous |-> NoVersion]

CanConfigure(release, files, version, percent) ==
  version \in files /\ percent \in 1..100 /\ version # release.stable
Configured(release, version, percent) ==
  [release EXCEPT !.canary = version, !.rollout = percent]

Replaced(release, version) ==
  [stable |-> version, canary |-> NoVersion, rollout |-> 0, previous |-> release.stable]
CanPromote(release)      == release.canary # NoVersion
Promoted(release)        == Replaced(release, release.canary)
CanRollBack(release)     == release.previous # NoVersion
RolledBack(release)      == Replaced(release, release.previous)

Changes(release, files) ==
  {Configured(release, c[1], c[2]) :
     c \in {x \in files \X (1..100) : CanConfigure(release, files, x[1], x[2])}}
    \cup (IF CanPromote(release) THEN {Promoted(release)} ELSE {})
    \cup (IF CanRollBack(release) THEN {RolledBack(release)} ELSE {})

(* select_policy: a call bound to a version that is not in force has none. *)
InForce(release) == {release.stable, release.canary} \ {NoVersion}
select_policy(release, bound, bucket) ==
  IF bound # NoVersion
  THEN IF bound \in InForce(release) THEN bound ELSE NoVersion
  ELSE IF release.canary # NoVersion /\ bucket < release.rollout THEN release.canary
  ELSE release.stable

-----------------------------------------------------------------------------
(* What every change keeps: a canary is another version than the stable    *)
(* one and has a share of the calls, and a rollback changes the version.   *)
ReleaseOK(release, files) ==
  /\ release \in [stable: files, canary: files \cup {NoVersion}, rollout: 0..100,
                  previous: files \cup {NoVersion}]
  /\ release.stable \notin {release.canary, release.previous}
  /\ release.canary = NoVersion <=> release.rollout = 0
=============================================================================
