--------------------------- MODULE NativeAssembly ---------------------------
(***************************************************************************)
(* The step of a release that turns two native container builds into one   *)
(* archive with its evidence (assemble in                                  *)
(* scripts/assemble_native_container.py, merge_archives): processes that   *)
(* read the same input directories and publish under the same names, with  *)
(* inputs that change under them, names taken by others, write failures    *)
(* and kills at every step, those of a rollback included.                  *)
(***************************************************************************)
EXTENDS OciArchive, Naturals, Sequences

CONSTANTS
  Assemblers,    \* processes that run assemble()
  Foreign,       \* a file some other program put under one of the names
  Packages,      \* platform -> native builds, of any attempt of the run
  Attempt,       \* the attempt that assembles
  Version,       \* image version of the plan
  MaxChanges     \* bound: interferences of others with files

(* A package: the archive; native-build.json: the tested image's config    *)
(* and the attempt; the receipt: the two files it is for.                  *)
Parts == {"archive", "build", "receipt"}

ASSUME AssemblyAssumption ==
  MaxChanges \in Nat /\ {None, Foreign} \cap Assemblers = {} /\ None # Foreign
ASSUME PackagesAssumption ==
  \A q \in Platforms : \A package \in Packages[q] :
    DOMAIN package = Parts /\ Parsed(package.archive)

VARIABLES
  input,         \* platform -> the three files of its input directory
  rewritten,     \* <<process, platform>> whose open archive was written to
  changes,       \* interferences so far
  mode,          \* attestations stay "inline", or are "detached"
  step,          \* process -> where it is
  builds,        \* process -> platform -> build and receipt it verified
  opened,        \* process -> platform -> archive it holds open
  temporary,     \* process -> the merged archive, before it has a name
  files,         \* name -> [by, archive, inputs, builds]; by is None when
                 \* there is no file, and may be Foreign
  stuck          \* <<process, name>> for a removal that failed

inputVars == <<input, rewritten, changes>>
outputVars == <<files, stuck>>
vars == <<inputVars, mode, step, builds, opened, temporary, outputVars>>

FileNames == {"output", "sidecar", "evidence"}
(* The names in the order they are published.                              *)
Names == IF mode = "inline" THEN <<"output", "evidence">>
         ELSE <<"output", "sidecar", "evidence">>
NothingYet == [q \in Platforms |-> None]
FileBy(owner) ==
  [by |-> owner, archive |-> None, inputs |-> None, builds |-> None]

Init ==
  /\ input \in {i \in [Platforms -> Packages["amd64"] \cup Packages["arm64"]] :
                  \A q \in Platforms : i[q] \in Packages[q]}
  /\ rewritten = {} /\ changes = 0
  /\ mode \in {"inline", "detached"}
  /\ step = [p \in Assemblers |-> "start"]
  /\ builds = [p \in Assemblers |-> NothingYet]
  /\ opened = [p \in Assemblers |-> NothingYet]
  /\ temporary = [p \in Assemblers |-> None]
  /\ files = [n \in FileNames |-> FileBy(None)]
  /\ stuck = {}

Goto(p, next) == step' = [step EXCEPT ![p] = next]
FileOf(p, n) == files[n].by = p

-----------------------------------------------------------------------------
(* assemble, its first lines: the destinations are new.                    *)
Vacant(n) == files[n].by = None
Begin(p) ==
  /\ step[p] = "start"
  /\ \A i \in DOMAIN Names : Vacant(Names[i])
  /\ Goto(p, "amd64")
  /\ UNCHANGED <<inputVars, mode, builds, opened, temporary, outputVars>>

(* The receipt covers both other files, and the build is of this attempt.  *)
Covered(package) ==
  package.receipt = [archive |-> package.archive, build |-> package.build]
VerifyNativeInput(p, q) ==
  LET package == input[q] IN
  /\ step[p] = q
  /\ Covered(package) /\ package.build.attempt = Attempt
  /\ builds' = [builds EXCEPT ![p][q] = [build |-> package.build,
                                         receipt |-> package.receipt]]
  /\ Goto(p, IF q = "amd64" THEN "arm64" ELSE "openAmd64")
  /\ UNCHANGED <<inputVars, mode, opened, temporary, outputVars>>

OpenStep(q) == IF q = "amd64" THEN "openAmd64" ELSE "openArm64"
(* Archive.__init__: the archive is opened by its name once more.          *)
Open(p, q) ==
  /\ step[p] = OpenStep(q)
  /\ NativeArchive(input[q].archive, q, Version)
  /\ opened' = [opened EXCEPT ![p][q] = input[q].archive]
  /\ Goto(p, IF q = "amd64" THEN "openArm64" ELSE "merge")
  /\ UNCHANGED <<inputVars, mode, builds, temporary, outputVars>>

(* The input is one the receipt is about, and its image the tested one.    *)
Bound(p, q) == /\ builds[p][q].receipt.archive = opened[p][q]
               /\ ConfigOf(opened[p][q]) = {builds[p][q].build.config}

(* The archive is written under a temporary name.  Bytes of an input that  *)
(* was written to are not the ones that were checked.                      *)
Merge(p) ==
  LET torn == {opened[p][q].manifests : q \in {o \in Platforms : <<p, o>> \in rewritten}}
      merged == IF mode = "inline" THEN Merged(opened[p]) ELSE Runtime(opened[p])
  IN
  /\ step[p] = "merge"
  /\ mode = "detached" => \A q \in Platforms : /\ Bound(p, q)
                                              /\ Provenance(opened[p][q]) # {}
  /\ temporary' = [temporary EXCEPT ![p] =
                     [merged EXCEPT !.absent = {m.digest : m \in UNION torn}]]
  /\ Goto(p, "unchanged")
  /\ UNCHANGED <<inputVars, mode, builds, opened, outputVars>>

AfterMerge == IF mode = "inline" THEN "output" ELSE "pair"
(* Archive.unchanged: size and times of the open files.                    *)
Unchanged(p) ==
  /\ step[p] = "unchanged"
  /\ \A q \in Platforms : <<p, q>> \notin rewritten
  /\ Goto(p, AfterMerge)
  /\ UNCHANGED <<inputVars, mode, builds, opened, temporary, outputVars>>

(* detach checks the archive and the sidecar it has written, in staging.   *)
VerifyPair(p) ==
  /\ step[p] = "pair"
  /\ VerifiedPair(temporary[p], opened[p], Version)
  /\ Goto(p, "bind")
  /\ UNCHANGED <<inputVars, mode, builds, opened, temporary, outputVars>>

AfterBind == IF mode = "inline" THEN "evidence" ELSE "output"
(* Bug: the receipts are taken to be about what was merged. *)
AssumeBound(p) ==
  /\ step[p] = "bind"
  /\ \A q \in Platforms : Provenance(opened[p][q]) # {}
  /\ Goto(p, AfterBind)
  /\ UNCHANGED <<inputVars, mode, builds, opened, temporary, outputVars>>
(* The archives that were merged are those of the receipts, with           *)
(* attestations, provenance among them, and their images were tested.      *)
VerifyAssembledInputs(p) ==
  /\ step[p] = "bind"
  /\ \A q \in Platforms : /\ Bound(p, q)
                          /\ Attestations(opened[p][q]) # {}
                          /\ Provenance(opened[p][q]) # {}
  /\ Goto(p, AfterBind)
  /\ UNCHANGED <<inputVars, mode, builds, opened, temporary, outputVars>>

NextName(n) ==
  CASE n = "output" -> IF mode = "inline" THEN "bind" ELSE "sidecar"
    [] n = "sidecar" -> "evidence"
    [] n = "evidence" -> IF mode = "inline" THEN "done" ELSE "unalias"
Published(p) == [by |-> p, archive |-> temporary[p], inputs |-> opened[p],
                 builds |-> builds[p]]

(* os.link gives a file its name, and never takes one that is taken.       *)
(* Inline, merge_archives publishes the output before it is bound, and     *)
(* publish_evidence the evidence; publish_detached_outputs all three.      *)
Publish(p, n) ==
  /\ step[p] = n /\ Vacant(n)
  /\ files' = [files EXCEPT ![n] = Published(p)]
  /\ Goto(p, NextName(n))
  /\ UNCHANGED <<inputVars, mode, builds, opened, temporary, stuck>>

(* The links in staging are removed.                                       *)
Unalias(p) ==
  /\ step[p] = "unalias" /\ Goto(p, "done")
  /\ UNCHANGED <<inputVars, mode, builds, opened, temporary, outputVars>>

-----------------------------------------------------------------------------
(* Failures.  What was published is withdrawn name by name, in the order   *)
(* it was published, by a look at the file that has the name and, when it  *)
(* is the one the process linked there, the removal of the name.           *)
LookAt(n) == [output |-> "lookAtOutput", sidecar |-> "lookAtSidecar",
              evidence |-> "lookAtEvidence"][n]
Removal(n) == [output |-> "removeOutput", sidecar |-> "removeSidecar",
               evidence |-> "removeEvidence"][n]
Rollback == {LookAt(n) : n \in FileNames} \cup {Removal(n) : n \in FileNames}

Running(p) == step[p] \notin Rollback \cup {"done", "failed", "killed", "cutShort"}
HasPublished(p) ==
  step[p] \in IF mode = "inline" THEN {"bind", "evidence"}
             ELSE {"sidecar", "evidence", "unalias"}

(* A check or a call fails.                                                *)
Fail(p) ==
  /\ Running(p)
  /\ mode = "inline" => ~HasPublished(p)
  /\ Goto(p, IF HasPublished(p) THEN LookAt("output") ELSE "failed")
  /\ UNCHANGED <<inputVars, mode, builds, opened, temporary, outputVars>>

(* The removal of a name: of whatever has it by now, and it may fail.      *)
Unlink(p, n) ==
  \/ /\ files' = [files EXCEPT ![n] = FileBy(None)]
     /\ UNCHANGED stuck
  \/ /\ stuck' = stuck \cup {<<p, n>>}
     /\ UNCHANGED files

(* Inline, the output is unlinked by its name, which is not looked at.     *)
Discard(p) ==
  /\ Running(p) /\ mode = "inline" /\ HasPublished(p)
  /\ Unlink(p, "output") /\ Goto(p, "failed")
  /\ UNCHANGED <<inputVars, mode, builds, opened, temporary>>

(* Bug: the first error ends the rollback. *)
StopAfter(n) == "failed"
AfterName(n) ==
  CASE n = "output" -> LookAt("sidecar")
    [] n = "sidecar" -> LookAt("evidence")
    [] n = "evidence" -> "failed"

(* Bug: the rollback removes whatever has the name. *)
LookAtAny(p, n) ==
  /\ step[p] = LookAt(n)
  /\ Goto(p, IF Vacant(n) THEN AfterName(n) ELSE Removal(n))
  /\ UNCHANGED <<inputVars, mode, builds, opened, temporary, outputVars>>
(* os.path.samestat; an error of stat leaves the file.                     *)
LookAtName(p, n) ==
  /\ step[p] = LookAt(n)
  /\ \/ /\ Goto(p, IF FileOf(p, n) THEN Removal(n) ELSE AfterName(n))
        /\ UNCHANGED stuck
     \/ /\ FileOf(p, n)
        /\ Goto(p, AfterName(n))
        /\ stuck' = stuck \cup {<<p, n>>}
  /\ UNCHANGED <<inputVars, mode, builds, opened, temporary, files>>

RemoveName(p, n) ==
  /\ step[p] = Removal(n)
  /\ Unlink(p, n) /\ Goto(p, AfterName(n))
  /\ UNCHANGED <<inputVars, mode, builds, opened, temporary>>

Kill(p) ==
  /\ Running(p) \/ step[p] \in Rollback
  /\ Goto(p, IF Running(p) THEN "killed" ELSE "cutShort")
  /\ UNCHANGED <<inputVars, mode, builds, opened, temporary, outputVars>>

-----------------------------------------------------------------------------
(* Others, at most MaxChanges times.                                       *)
Interfere == changes < MaxChanges /\ changes' = changes + 1

(* Files of an input directory are replaced by another build's.            *)
Replace(q, parts) ==
  /\ Interfere
  /\ \E package \in Packages[q] :
       /\ package # input[q]
       /\ input' = [input EXCEPT ![q] = [part \in Parts |->
                      IF part \in parts THEN package[part] ELSE input[q][part]]]
  /\ UNCHANGED <<rewritten, mode, step, builds, opened, temporary, outputVars>>

(* An archive is written to in place.                                      *)
Rewrite(q) ==
  /\ Interfere
  /\ input' = [input EXCEPT ![q].archive.absent =
                 {m.digest : m \in input[q].archive.manifests}]
  /\ rewritten' = rewritten \cup {<<p, q>> : p \in {a \in Assemblers :
                                                     opened[a][q] = input[q].archive}}
  /\ UNCHANGED <<mode, step, builds, opened, temporary, outputVars>>

(* Another program puts its own file under one of the names.               *)
Take(n) ==
  /\ Interfere /\ files[n].by # Foreign
  /\ files' = [files EXCEPT ![n] = FileBy(Foreign)]
  /\ UNCHANGED <<input, rewritten, mode, step, builds, opened, temporary, stuck>>

-----------------------------------------------------------------------------
Next ==
  \/ \E p \in Assemblers :
       \/ Begin(p) \/ \E q \in Platforms : VerifyNativeInput(p, q) \/ Open(p, q)
       \/ Merge(p) \/ Unchanged(p) \/ VerifyPair(p) \/ VerifyAssembledInputs(p)
       \/ \E n \in FileNames : Publish(p, n) \/ LookAtName(p, n) \/ RemoveName(p, n)
       \/ Unalias(p) \/ Fail(p) \/ Discard(p) \/ Kill(p)
  \/ \E q \in Platforms : Rewrite(q) \/ \E parts \in SUBSET Parts : Replace(q, parts)
  \/ \E n \in FileNames : Take(n)

Spec == Init /\ [][Next]_vars

-----------------------------------------------------------------------------
(* Every output under its name passes the release verifier, with one image *)
(* of each platform, however the inputs changed while it was made: what    *)
(* Archive accepts and merge_archives writes, _OciMetadata accepts.        *)
OutputVerifies ==
  \A p \in Assemblers : FileOf(p, "output") =>
    LET archive == files["output"].archive IN
    /\ VerifiedArchive(archive, Version)
    /\ \A q \in Platforms :
         Cardinality({i \in Images(archive) : i.arch = q /\ i.configArch = q}) = 1

(* Evidence beside an output tells what is in it (verify_assembled_inputs, *)
(* "Bind the assembled archive back to receipts, attestations and smoke    *)
(* tests"): the output has the images of the archives the receipts are     *)
(* for, those were tested in this attempt, and their attestations are in   *)
(* the output or in its sidecar, provenance for each platform.             *)
EvidenceIsTrue ==
  \A p \in Assemblers : FileOf(p, "output") /\ FileOf(p, "evidence") =>
    LET archive == files["output"].archive
        told == files["evidence"].builds
        beside == IF mode = "inline" THEN archive.manifests
                  ELSE UNION {files["output"].inputs[q].manifests : q \in Platforms}
    IN
    /\ archive.absent = {}
    /\ Images(archive) = UNION {Images(told[q].receipt.archive) : q \in Platforms}
    /\ beside = UNION {told[q].receipt.archive.manifests : q \in Platforms}
    /\ \A q \in Platforms :
         /\ Provenance(told[q].receipt.archive) # {}
         /\ told[q].build.attempt = Attempt
         /\ \E i \in Images(archive) : i.arch = q /\ i.config = told[q].build.config

(* An assembler that succeeds has all of its files under their names; one  *)
(* that fails has none, but for those whose removal failed; and files of   *)
(* two assemblers lie side by side only once one of them has begun to      *)
(* withdraw its own, whatever fails, is killed or takes a name             *)
(* (publish_detached_outputs, "Publish the complete verified set"; inline, *)
(* the unlink of the output).                                              *)
Withdraws(p) == step[p] \in Rollback \cup {"failed", "cutShort"}
SetIsWhole ==
  \A p \in Assemblers :
    /\ step[p] = "done" => \A i \in DOMAIN Names :
         FileOf(p, Names[i]) \/ files[Names[i]].by = Foreign
    /\ step[p] = "failed" => \A n \in FileNames :
         FileOf(p, n) => <<p, n>> \in stuck
    /\ \A o \in Assemblers \ {p}, n, m \in FileNames :
         FileOf(p, n) /\ FileOf(o, m) => Withdraws(p) \/ Withdraws(o)

(* Publication and rollback, which remove files by their names, leave the  *)
(* files of others alone (publish_detached_outputs): a file that has a     *)
(* name keeps it until another program takes the name or the process that  *)
(* published it withdraws it; a file of another program loses it only while   *)
(* a rollback is between its look at that name and the removal.            *)
OthersKeepTheirNames ==
  [][mode = "detached" =>
       \A n \in FileNames :
         files[n].by # None /\ files'[n].by # files[n].by =>
           \/ files'[n].by = Foreign
           \/ \E p \in Assemblers : /\ files[n].by \in {p, Foreign}
                                   /\ step[p] = Removal(n)]_vars
=============================================================================
