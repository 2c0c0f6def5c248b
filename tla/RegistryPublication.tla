------------------------ MODULE RegistryPublication -------------------------
(***************************************************************************)
(* What happens to a stable release next: an operator copies its container *)
(* images to the registry (scripts/publish_verified.py) and resolves them  *)
(* to digests for a deployment (scripts/verified_images.py).               *)
(***************************************************************************)
EXTENDS ReleasePipeline

CONSTANT Images    \* images of container_assets, in order: naturals

VARIABLES
  registry,        \* image -> bases whose version tag it has, and the base
                   \* "latest" shows
  commands,        \* copies still to run: <<1, image>> to the version tag,
                   \* then <<2, image>> to latest
  copying,         \* base the copies are of
  deployed         \* base of the last resolved image references

registryVars == <<registry, commands, copying, deployed>>

SystemInit ==
  /\ Init
  /\ registry = [i \in Images |-> [versions |-> {}, latest |-> NoBase]]
  /\ commands = {} /\ copying = NoBase /\ deployed = NoBase

(* verified_assets: the stable release is public and complete, its tag is  *)
(* at the source of the candidate, and the candidate's run succeeded.      *)
Verified(base) ==
  \E x \in releases :
    /\ x.tag = StableTag(base) /\ ~x.draft /\ x.files = Files
    /\ TagSha(x.tag) = {x.plan.sha}
    /\ \E c \in Runs : /\ Completed(c) /\ job[c].event = "dispatch"
                       /\ ledger.plans[c] = x.plan /\ job[c].rc = 0

(* Bug: latest follows each image as it is copied. *)
CopyInAnyOrder(command) == command \in commands

(* Every version tag is copied before the first latest.                    *)
CopyNext(command) ==
  /\ command \in commands
  /\ \A other \in commands :
       \/ other[1] > command[1]
       \/ other[1] = command[1] /\ other[2] >= command[2]

(* container_commands: no image may have the version yet.                  *)
PublishImages(base, latest) ==
  /\ commands = {} /\ Verified(base)
  /\ \A i \in Images : base \notin registry[i].versions
  /\ commands' = {<<phase, i>> : phase \in IF latest THEN {1, 2} ELSE {1},
                                 i \in Images}
  /\ copying' = base
  /\ UNCHANGED <<registry, deployed>>

(* One skopeo copy; a copy that does not report success ends the command.  *)
CopyImage(command) ==
  /\ CopyNext(command)
  /\ \E fate \in WriteFates :
       /\ registry' =
            IF fate = "refused" THEN registry
            ELSE IF command[1] = 1
            THEN [registry EXCEPT ![command[2]].versions = @ \cup {copying}]
            ELSE [registry EXCEPT ![command[2]].latest = copying]
       /\ commands' = IF fate = "confirmed" THEN commands \ {command} ELSE {}
  /\ copying' = IF commands' = {} THEN NoBase ELSE copying
  /\ UNCHANGED deployed

(* resolve: every image is in the registry with the approved bytes, and    *)
(* only then is the list of references written.                            *)
ResolveImages(base) ==
  /\ Verified(base)
  /\ \A i \in Images : base \in registry[i].versions
  /\ deployed' = base
  /\ UNCHANGED <<registry, commands, copying>>

RegistryStep ==
  \/ \E base \in Bases : \/ \E latest \in BOOLEAN : PublishImages(base, latest)
                         \/ ResolveImages(base)
  \/ \E command \in commands : CopyImage(command)

SystemNext ==
  \/ Next /\ UNCHANGED registryVars
  \/ RegistryStep /\ UNCHANGED vars

SystemSpec ==
  SystemInit /\ [][SystemNext]_<<vars, registryVars>>

(* Whatever copy failed: what "latest" shows, and what is deployed, is     *)
(* in the registry under its version for every image (container_commands,  *)
(* resolve).                                                               *)
LatestIsComplete ==
  \A base \in Bases :
    (deployed = base \/ \E i \in Images : registry[i].latest = base)
    => \A i \in Images : base \in registry[i].versions
=============================================================================
