------------------------ MODULE NativeAssemblyProofs ------------------------
(* Theorems about the assembly of native builds, for any number of         *)
(* processes and interferences and any archives.                           *)
EXTENDS NativeAssembly, TLAPS, FiniteSetTheorems

Opening == {"start", "amd64", "arm64", "openAmd64", "openArm64"}
Loaded == {"merge", "unchanged", "pair", "output", "bind", "sidecar", "evidence",
           "unalias", "done"}
Finished == Loaded \ {"merge", "unchanged"}
Stopped == Rollback \cup {"failed", "killed", "cutShort"}
Steps == Opening \cup Loaded \cup Stopped

(* Where a process is once it has published a name.                        *)
After(n) ==
  IF mode = "inline"
  THEN IF n = "output" THEN {"bind", "evidence", "done"}
       ELSE IF n = "evidence" THEN {"done"} ELSE {}
  ELSE IF n = "output" THEN {"sidecar", "evidence", "unalias", "done"}
       ELSE IF n = "sidecar" THEN {"evidence", "unalias", "done"}
       ELSE {"unalias", "done"}
(* Where it is once it has withdrawn a name.                               *)
Past(n) ==
  IF n = "output" THEN {LookAt("sidecar"), Removal("sidecar"), LookAt("evidence"),
                        Removal("evidence"), "failed"}
  ELSE IF n = "sidecar" THEN {LookAt("evidence"), Removal("evidence"), "failed"}
  ELSE {"failed"}
Checked == IF mode = "inline" THEN {"evidence", "done"}
           ELSE {"output", "sidecar", "evidence", "unalias", "done"}

TypeInv ==
  /\ mode \in {"inline", "detached"}
  /\ DOMAIN input = Platforms
  /\ \A q \in Platforms : DOMAIN input[q] = Parts /\ Parsed(input[q].archive)
  /\ step \in [Assemblers -> Steps]
  /\ \A p \in Assemblers :
       /\ mode = "inline" => step[p] \notin {"pair", "sidecar", "unalias"}
  /\ DOMAIN builds = Assemblers /\ DOMAIN opened = Assemblers
  /\ DOMAIN temporary = Assemblers /\ DOMAIN files = FileNames
  /\ \A p \in Assemblers : DOMAIN builds[p] = Platforms /\ DOMAIN opened[p] = Platforms

-----------------------------------------------------------------------------
(* What a process knows of its inputs and of the archive it made, by how   *)
(* far it is.                                                              *)
Read(p, q) == builds[p][q].build.attempt = Attempt
Accepted(p, q) ==
  Parsed(opened[p][q]) /\ NativeArchive(opened[p][q], q, Version)
Made(p) ==
  temporary[p].manifests =
    (IF mode = "inline" THEN Merged(opened[p]) ELSE Runtime(opened[p])).manifests
Whole(p) ==
  /\ \A q \in Platforms : Read(p, q) /\ Accepted(p, q)
  /\ Made(p) /\ temporary[p].absent = {}
Proven(p) ==
  \A q \in Platforms : Bound(p, q) /\ Provenance(opened[p][q]) # {}

Progress(p) ==
  /\ step[p] \in {"arm64", "openAmd64", "openArm64"} => Read(p, "amd64")
  /\ step[p] \in {"openAmd64", "openArm64"} => Read(p, "arm64")
  /\ step[p] = "openArm64" => Accepted(p, "amd64")
  /\ step[p] \in Loaded => \A q \in Platforms : Read(p, q) /\ Accepted(p, q)
  /\ step[p] = "unchanged" =>
       Made(p) /\ ((\A q \in Platforms : <<p, q>> \notin rewritten)
                     => temporary[p].absent = {})
  /\ step[p] \in Finished => Whole(p)
  /\ step[p] \in Checked => Proven(p)

(* A file is what its process has made, and a process that is stopped may  *)
(* leave what it published.                                                *)
Faithful(p) ==
  \A n \in FileNames : FileOf(p, n) =>
    /\ step[p] \in After(n) \cup Stopped
    /\ files[n] = Published(p) /\ Whole(p)
    /\ n = "evidence" => Proven(p)

(* A rollback leaves a name behind only when its removal failed.           *)
Cleared(p) ==
  \A n \in FileNames : step[p] \in Past(n) /\ FileOf(p, n) => <<p, n>> \in stuck

(* Of the processes that do not withdraw, one at most holds the names: the *)
(* one that got the output's.                                              *)
Holds(p) == step[p] \in After("output") \/ \E n \in FileNames : FileOf(p, n)
Stays(p) == Holds(p) /\ ~Withdraws(p)
Kept(p) ==
  /\ Stays(p) => FileOf(p, "output") \/ files["output"].by = Foreign
  /\ \A n \in FileNames :
       step[p] \in After(n) => FileOf(p, n) \/ files[n].by = Foreign
Exclusive == \A p, o \in Assemblers : Stays(p) /\ Stays(o) => p = o

(* Between the look at a name and its removal nobody but another program   *)
(* gets the name, and nobody else relies on having it.                     *)
Pending(p, n) ==
  step[p] = Removal(n) =>
    /\ files[n].by \in {p, Foreign}
    /\ \A o \in Assemblers \ {p} :
         /\ step[o] # Removal(n) /\ step[o] \notin After(n)
         /\ n = "output" => ~Stays(o)

IInv ==
  /\ TypeInv /\ Exclusive
  /\ \A p \in Assemblers : Progress(p) /\ Faithful(p) /\ Cleared(p) /\ Kept(p)
  /\ \A p \in Assemblers, n \in FileNames : Pending(p, n)

-----------------------------------------------------------------------------
(* Archives.                                                               *)

LEMMA PlatformsDiffer ==
  /\ "amd64" \in Platforms /\ "arm64" \in Platforms /\ "amd64" # "arm64"
  /\ \A q \in Platforms : q = "amd64" \/ q = "arm64"
BY DEF Platforms

\* The merged manifests, and the images among them.
LEMMA MadeManifests ==
  ASSUME NEW p, Made(p), mode \in {"inline", "detached"}
  PROVE  /\ Images(temporary[p]) = UNION {Images(opened[p][q]) : q \in Platforms}
         /\ mode = "inline" =>
              temporary[p].manifests = UNION {opened[p][q].manifests : q \in Platforms}
         /\ mode = "detached" => Attestations(temporary[p]) = {}
<1> DEFINE archives == opened[p]
<1>1. Merged(archives).manifests = UNION {archives[q].manifests : q \in Platforms}
  BY DEF Merged
<1>2. Runtime(archives).manifests = UNION {Images(archives[q]) : q \in Platforms}
  BY DEF Runtime, Merged
<1>3. CASE mode = "inline"
  <2>1. temporary[p].manifests = UNION {archives[q].manifests : q \in Platforms}
    BY <1>1, <1>3 DEF Made
  <2>2. Images(temporary[p]) = UNION {Images(archives[q]) : q \in Platforms}
    BY <2>1 DEF Images
  <2> QED
    BY <1>3, <2>1, <2>2
<1>4. CASE mode = "detached"
  <2>1. temporary[p].manifests = UNION {Images(archives[q]) : q \in Platforms}
    BY <1>2, <1>4 DEF Made
  <2>2. \A m \in temporary[p].manifests : m.type = "image"
    BY <2>1 DEF Images
  <2>3. Images(temporary[p]) = UNION {Images(archives[q]) : q \in Platforms}
    BY <2>1, <2>2 DEF Images
  <2>4. Attestations(temporary[p]) = {}
    BY <2>2 DEF Attestations
  <2> QED
    BY <1>4, <2>3, <2>4
<1> QED
  BY <1>3, <1>4

\* An archive the merger accepts has exactly one image, which is its
\* platform's, and whatever it has besides is about that image.
LEMMA AcceptedImage ==
  ASSUME NEW q, NEW archive, Parsed(archive), NativeArchive(archive, q, Version)
  PROVE  \E i \in Images(archive) :
           /\ Images(archive) = {i}
           /\ NativeImage(i, q, Version)
           /\ \A a \in Attestations(archive) : Subject(a) = i.digest
<1>1. IsFiniteSet(Images(archive))
  BY FS_Subset DEF Parsed, Images
<1>2. Cardinality(Images(archive)) = 1
  BY DEF NativeArchive, CompleteGraph
<1>3. PICK i : Images(archive) = {i}
  BY <1>1, <1>2, FS_Singleton
<1> QED
  BY <1>3 DEF NativeArchive, CompleteGraph

\* Whatever archives the merger accepts, what it makes of them passes the
\* release verifier, with one image of each platform.
LEMMA WholeVerifies ==
  ASSUME NEW p, Whole(p), mode \in {"inline", "detached"}
  PROVE  /\ VerifiedArchive(temporary[p], Version)
         /\ \A q \in Platforms :
              /\ Cardinality({i \in Images(temporary[p]) :
                                i.arch = q /\ i.configArch = q}) = 1
              /\ \E i \in Images(temporary[p]) :
                   i.arch = q /\ i \in Images(opened[p][q])
<1> DEFINE archive == temporary[p]
<1>1. /\ \A q \in Platforms : Accepted(p, q)
      /\ archive.absent = {} /\ Made(p)
  BY DEF Whole
<1>2. Images(archive) = UNION {Images(opened[p][q]) : q \in Platforms}
  BY <1>1, MadeManifests
<1>3. \A q \in Platforms : \E i \in Images(opened[p][q]) :
        /\ Images(opened[p][q]) = {i}
        /\ NativeImage(i, q, Version)
        /\ \A a \in Attestations(opened[p][q]) : Subject(a) = i.digest
  BY <1>1, AcceptedImage DEF Accepted
<1>4. ASSUME NEW q \in Platforms
      PROVE  /\ Cardinality({i \in Images(archive) : i.arch = q /\ i.configArch = q}) = 1
             /\ \E i \in Images(archive) : i.arch = q /\ i \in Images(opened[p][q])
  <2>1. PICK i \in Images(opened[p][q]) :
          Images(opened[p][q]) = {i} /\ NativeImage(i, q, Version)
    BY <1>3
  <2>2. \A o \in Platforms : \A j \in Images(opened[p][o]) : j.arch = o
    BY <1>3 DEF NativeImage
  <2>3. {j \in Images(archive) : j.arch = q /\ j.configArch = q} = {i}
    BY <1>2, <2>1, <2>2 DEF NativeImage
  <2> QED
    BY <1>2, <2>1, <2>3, FS_Singleton DEF NativeImage
<1>5. \A i \in Images(archive) : RunnableImage(i, Version)
  BY <1>2, <1>3 DEF NativeImage, RunnableImage
<1>6. ASSUME NEW a \in Attestations(archive)
      PROVE  AttachedTo(a, Images(archive))
  <2>1. mode = "inline"
    BY <1>1, <1>6, MadeManifests
  <2>2. PICK q \in Platforms : a \in Attestations(opened[p][q])
    BY <1>1, <2>1, MadeManifests DEF Attestations
  <2>3. PICK i \in Images(opened[p][q]) :
          NativeImage(i, q, Version) /\ Subject(a) = i.digest
    BY <1>3, <2>2
  <2>4. i \in Images(archive) /\ i.configArch = q
    BY <1>2, <2>3 DEF NativeImage
  <2>5. NativeAttestation(a, q) /\ a.style \in {"artifact", "legacy"}
    BY <1>1, <2>2 DEF Accepted, NativeArchive, Parsed
  <2>6. CASE a.style = "artifact"
    BY <2>3, <2>4, <2>5, <2>6 DEF NativeAttestation, Subject, AttachedTo
  <2>7. CASE a.style = "legacy"
    BY <2>3, <2>4, <2>5, <2>7 DEF NativeAttestation, Subject, AttachedTo
  <2> QED
    BY <2>5, <2>6, <2>7
<1>7. Walked(archive)
  BY <1>1 DEF Walked
<1>8. Images(archive) # {}
  BY <1>4, PlatformsDiffer
<1> QED
  BY <1>4, <1>5, <1>6, <1>7, <1>8 DEF VerifiedArchive

-----------------------------------------------------------------------------
(* The steps of a process.                                                 *)

(* Those that leave the names alone.                                       *)
Prepares(p) ==
  \/ Begin(p) \/ \E q \in Platforms : VerifyNativeInput(p, q) \/ Open(p, q)
  \/ Merge(p) \/ Unchanged(p) \/ VerifyPair(p) \/ VerifyAssembledInputs(p)
  \/ Unalias(p)

LEMMA StepNames ==
  /\ LookAt("output") = "lookAtOutput" /\ Removal("output") = "removeOutput"
  /\ LookAt("sidecar") = "lookAtSidecar" /\ Removal("sidecar") = "removeSidecar"
  /\ LookAt("evidence") = "lookAtEvidence" /\ Removal("evidence") = "removeEvidence"
BY DEF LookAt, Removal

LEMMA StoppedNames ==
  /\ Rollback = {"lookAtOutput", "lookAtSidecar", "lookAtEvidence",
                 "removeOutput", "removeSidecar", "removeEvidence"}
  /\ Stopped = {"lookAtOutput", "lookAtSidecar", "lookAtEvidence",
                "removeOutput", "removeSidecar", "removeEvidence",
                "failed", "killed", "cutShort"}
BY StepNames DEF Rollback, Stopped, FileNames

LEMMA PastNames ==
  /\ Past("output") = {"lookAtSidecar", "removeSidecar", "lookAtEvidence",
                       "removeEvidence", "failed"}
  /\ Past("sidecar") = {"lookAtEvidence", "removeEvidence", "failed"}
  /\ Past("evidence") = {"failed"}
  /\ AfterName("output") = "lookAtSidecar"
  /\ AfterName("sidecar") = "lookAtEvidence" /\ AfterName("evidence") = "failed"
BY StepNames DEF Past, AfterName

\* A process is stopped, or has published, or neither; and the steps of a
\* rollback are all different.
LEMMA StepsApart ==
  /\ Stopped \cap (Opening \cup Loaded) = {}
  /\ \A n \in FileNames : After(n) \cap Stopped = {} /\ Past(n) \subseteq Stopped
  /\ \A n \in FileNames : Removal(n) \in Stopped /\ Removal(n) \notin After("output")
  /\ \A n, m \in FileNames : Removal(n) \notin After(m)
<1>1. Stopped \cap (Opening \cup Loaded) = {}
  BY StoppedNames DEF Opening, Loaded
<1>2. \A n \in FileNames : After(n) \subseteq Loaded
  BY DEF After, Loaded
<1>3. \A n \in FileNames : Removal(n) \in Stopped
  BY DEF Stopped, Rollback
<1>4. \A n \in FileNames : Past(n) \subseteq Stopped
  BY PastNames, StoppedNames DEF FileNames
<1> QED
  BY <1>1, <1>2, <1>3, <1>4 DEF FileNames

LEMMA PrepareEffect ==
  ASSUME TypeInv, NEW p \in Assemblers, Prepares(p)
  PROVE  /\ UNCHANGED <<inputVars, mode, files, stuck>>
         /\ step' = [step EXCEPT ![p] = step'[p]]
         /\ DOMAIN builds' = Assemblers /\ DOMAIN opened' = Assemblers
         /\ DOMAIN temporary' = Assemblers
         /\ DOMAIN builds'[p] = Platforms /\ DOMAIN opened'[p] = Platforms
         /\ \A o \in Assemblers : o # p =>
              /\ builds'[o] = builds[o] /\ opened'[o] = opened[o]
              /\ temporary'[o] = temporary[o]
         /\ step[p] \notin Stopped \cup {"done"} /\ step'[p] \in Steps \ Stopped
         /\ mode = "inline" => step'[p] \notin {"pair", "sidecar", "unalias"}
<1> DEFINE Effect(next) ==
       /\ UNCHANGED <<inputVars, mode, files, stuck>>
       /\ step' = [step EXCEPT ![p] = next]
       /\ DOMAIN builds' = Assemblers /\ DOMAIN opened' = Assemblers
       /\ DOMAIN temporary' = Assemblers
       /\ DOMAIN builds'[p] = Platforms /\ DOMAIN opened'[p] = Platforms
       /\ \A o \in Assemblers : o # p =>
            /\ builds'[o] = builds[o] /\ opened'[o] = opened[o]
            /\ temporary'[o] = temporary[o]
       /\ step[p] \notin Stopped \cup {"done"} /\ next \in Steps \ Stopped
       /\ mode = "inline" => next \notin {"pair", "sidecar", "unalias"}
<1>0. Stopped \cap (Opening \cup Loaded) = {}
  BY StepsApart
<1> USE <1>0 DEF Goto, Steps, Opening, Loaded, outputVars
<1>1. ASSUME Begin(p) PROVE \E next : Effect(next)
  <2>1. Effect("amd64")
    BY <1>1 DEF Begin, TypeInv
  <2> QED
    BY <2>1
<1>2. ASSUME NEW q \in Platforms, VerifyNativeInput(p, q)
      PROVE  \E next : Effect(next)
  <2>1. Effect(IF q = "amd64" THEN "arm64" ELSE "openAmd64")
    BY <1>2, PlatformsDiffer DEF VerifyNativeInput, TypeInv
  <2> QED
    BY <2>1
<1>3. ASSUME NEW q \in Platforms, Open(p, q)
      PROVE  \E next : Effect(next)
  <2>1. step[p] \in {"openAmd64", "openArm64"}
    BY <1>3, PlatformsDiffer DEF Open, OpenStep
  <2>2. Effect(IF q = "amd64" THEN "openArm64" ELSE "merge")
    BY <1>3, <2>1 DEF Open, TypeInv
  <2> QED
    BY <2>2
<1>4. ASSUME Merge(p) PROVE \E next : Effect(next)
  <2>1. Effect("unchanged")
    BY <1>4 DEF Merge, TypeInv
  <2> QED
    BY <2>1
<1>5. ASSUME Unchanged(p) PROVE \E next : Effect(next)
  <2>1. Effect(AfterMerge)
    BY <1>5 DEF Unchanged, AfterMerge, TypeInv
  <2> QED
    BY <2>1
<1>6. ASSUME VerifyPair(p) PROVE \E next : Effect(next)
  <2>1. Effect("bind")
    BY <1>6 DEF VerifyPair, TypeInv
  <2> QED
    BY <2>1
<1>7. ASSUME VerifyAssembledInputs(p) PROVE \E next : Effect(next)
  <2>1. Effect(AfterBind)
    BY <1>7 DEF VerifyAssembledInputs, AfterBind, TypeInv
  <2> QED
    BY <2>1
<1>8. ASSUME Unalias(p) PROVE \E next : Effect(next)
  <2>1. Effect("done")
    BY <1>8 DEF Unalias, TypeInv
  <2> QED
    BY <2>1
<1>9. PICK next : Effect(next)
  <2> HIDE DEF Effect
  <2> QED
    BY <1>1, <1>2, <1>3, <1>4, <1>5, <1>6, <1>7, <1>8 DEF Prepares
<1>10. step'[p] = next
  BY <1>9 DEF TypeInv
<1> QED
  BY <1>9, <1>10

LEMMA PrepareTyped ==
  ASSUME TypeInv, NEW p \in Assemblers, Prepares(p)
  PROVE  TypeInv'
<1>1. /\ UNCHANGED <<inputVars, mode, files, stuck>>
      /\ step' = [step EXCEPT ![p] = step'[p]]
      /\ DOMAIN builds' = Assemblers /\ DOMAIN opened' = Assemblers
      /\ DOMAIN temporary' = Assemblers
      /\ DOMAIN builds'[p] = Platforms /\ DOMAIN opened'[p] = Platforms
      /\ \A o \in Assemblers : o # p =>
           /\ builds'[o] = builds[o] /\ opened'[o] = opened[o]
      /\ step'[p] \in Steps
      /\ mode = "inline" => step'[p] \notin {"pair", "sidecar", "unalias"}
  BY PrepareEffect
<1>2. step' \in [Assemblers -> Steps]
  BY <1>1 DEF TypeInv
<1>3. \A o \in Assemblers : /\ mode = "inline" => step'[o] \notin {"pair", "sidecar", "unalias"}
                            /\ DOMAIN builds'[o] = Platforms
                            /\ DOMAIN opened'[o] = Platforms
  BY <1>1 DEF TypeInv
<1> QED
  BY <1>1, <1>2, <1>3 DEF TypeInv, inputVars

\* Merging bytes that nobody wrote to gives an archive with all its blobs.
LEMMA MergeMakes ==
  ASSUME TypeInv, NEW p \in Assemblers, Merge(p)
  PROVE  /\ Made(p)'
         /\ (\A q \in Platforms : <<p, q>> \notin rewritten)
              => temporary'[p].absent = {}
<1> DEFINE merged == IF mode = "inline" THEN Merged(opened[p]) ELSE Runtime(opened[p])
           torn == {opened[p][q].manifests :
                      q \in {o \in Platforms : <<p, o>> \in rewritten}}
<1>1. DOMAIN merged = {"manifests", "absent"}
  BY DEF Merged, Runtime
<1>2. /\ temporary'[p] = [merged EXCEPT !.absent = {m.digest : m \in UNION torn}]
      /\ UNCHANGED <<mode, opened>>
  BY DEF Merge, TypeInv
<1>3. /\ temporary'[p].manifests = merged.manifests
      /\ temporary'[p].absent = {m.digest : m \in UNION torn}
  <2> HIDE DEF merged
  <2> QED
    BY <1>1, <1>2
<1>4. (\A q \in Platforms : <<p, q>> \notin rewritten) => torn = {}
  OBVIOUS
<1> QED
  BY <1>2, <1>3, <1>4 DEF Made

LEMMA ProgressSteps ==
  ASSUME TypeInv, NEW p \in Assemblers, Progress(p), Prepares(p)
  PROVE  Progress(p)'
<1> USE DEF Goto, Opening, Loaded, Finished, Checked, outputVars
<1>1. CASE Begin(p)
  BY <1>1 DEF Begin, TypeInv, Progress
<1>2. ASSUME NEW q \in Platforms, VerifyNativeInput(p, q) PROVE Progress(p)'
  <2>1. /\ step'[p] = IF q = "amd64" THEN "arm64" ELSE "openAmd64"
        /\ UNCHANGED <<inputVars, mode, opened, temporary, files>>
    BY <1>2 DEF VerifyNativeInput, TypeInv
  <2>2. Read(p, q)'
    BY <1>2 DEF VerifyNativeInput, TypeInv, Read
  <2>3. \A o \in Platforms : o # q => builds'[p][o] = builds[p][o]
    BY <1>2 DEF VerifyNativeInput, TypeInv
  <2>4. CASE q = "amd64"
    BY <2>1, <2>2, <2>4 DEF Progress
  <2>5. CASE q = "arm64"
    <3>1. Read(p, "amd64")
      BY <1>2, <2>5 DEF VerifyNativeInput, Progress
    <3>2. Read(p, "amd64")'
      BY <2>3, <2>5, <3>1, PlatformsDiffer DEF Read
    <3> QED
      BY <2>1, <2>2, <2>5, <3>2 DEF Progress
  <2> QED
    BY <2>4, <2>5, PlatformsDiffer
<1>3. ASSUME NEW q \in Platforms, Open(p, q) PROVE Progress(p)'
  <2>1. /\ step[p] = OpenStep(q)
        /\ step'[p] = IF q = "amd64" THEN "openArm64" ELSE "merge"
        /\ UNCHANGED <<inputVars, mode, builds, temporary, files>>
    BY <1>3 DEF Open, TypeInv
  <2>2. Read(p, "amd64") /\ Read(p, "arm64")
    BY <2>1 DEF OpenStep, Progress
  <2>3. (\A o \in Platforms : Read(p, o))'
    BY <2>1, <2>2, PlatformsDiffer DEF Read
  <2>4. Accepted(p, q)'
    BY <1>3 DEF Open, TypeInv, Accepted
  <2>5. \A o \in Platforms : o # q => opened'[p][o] = opened[p][o]
    BY <1>3 DEF Open, TypeInv
  <2>6. CASE q = "amd64"
    BY <2>1, <2>3, <2>4, <2>6, PlatformsDiffer DEF Progress
  <2>7. CASE q = "arm64"
    <3>1. Accepted(p, "amd64")
      BY <2>1, <2>7 DEF OpenStep, Progress
    <3>2. Accepted(p, "amd64")'
      BY <2>5, <2>7, <3>1, PlatformsDiffer DEF Accepted
    <3>3. (\A o \in Platforms : Accepted(p, o))'
      BY <2>4, <2>7, <3>2, PlatformsDiffer
    <3> QED
      BY <2>1, <2>3, <2>7, <3>3 DEF Progress
  <2> QED
    BY <2>6, <2>7, PlatformsDiffer
<1>4. CASE Merge(p)
  <2>1. /\ step[p] = "merge" /\ step'[p] = "unchanged"
        /\ UNCHANGED <<rewritten, builds, opened>>
    BY <1>4 DEF Merge, TypeInv, inputVars
  <2>2. (\A q \in Platforms : Read(p, q) /\ Accepted(p, q))'
    BY <2>1 DEF Progress, Read, Accepted
  <2> QED
    BY <1>4, <2>1, <2>2, MergeMakes DEF Progress
<1>5. CASE Unchanged(p)
  <2>1. /\ step[p] = "unchanged" /\ step'[p] = AfterMerge
        /\ \A q \in Platforms : <<p, q>> \notin rewritten
        /\ UNCHANGED <<rewritten, mode, builds, opened, temporary>>
    BY <1>5 DEF Unchanged, TypeInv, inputVars
  <2>2. Whole(p)
    BY <2>1 DEF Progress, Whole
  <2>3. Whole(p)'
    BY <2>1, <2>2 DEF Whole, Read, Accepted, Made
  <2>4. (\A q \in Platforms : Read(p, q) /\ Accepted(p, q))'
    BY <2>3 DEF Whole
  <2>5. step'[p] \in {"output", "pair"} /\ step'[p] \notin Checked'
    BY <2>1 DEF AfterMerge, TypeInv
  <2> QED
    BY <2>3, <2>4, <2>5 DEF Progress
<1>6. CASE VerifyPair(p)
  <2>1. /\ step[p] = "pair" /\ step'[p] = "bind"
        /\ UNCHANGED <<rewritten, mode, builds, opened, temporary>>
    BY <1>6 DEF VerifyPair, TypeInv, inputVars
  <2> QED
    BY <2>1 DEF Progress, Whole, Read, Accepted, Made
<1>7. CASE VerifyAssembledInputs(p)
  <2>1. /\ step[p] = "bind" /\ step'[p] = AfterBind /\ Proven(p)
        /\ UNCHANGED <<rewritten, mode, builds, opened, temporary>>
    BY <1>7 DEF VerifyAssembledInputs, TypeInv, Proven, inputVars
  <2>2. Whole(p)
    BY <2>1 DEF Progress
  <2>3. Whole(p)' /\ Proven(p)'
    BY <2>1, <2>2 DEF Whole, Read, Accepted, Made, Proven, Bound
  <2>4. step'[p] \in {"evidence", "output"}
    BY <2>1 DEF AfterBind
  <2> QED
    BY <2>3, <2>4 DEF Progress, Whole
<1>8. CASE Unalias(p)
  <2>1. /\ step[p] = "unalias" /\ step'[p] = "done"
        /\ UNCHANGED <<rewritten, mode, builds, opened, temporary>>
    BY <1>8 DEF Unalias, TypeInv, inputVars
  <2>2. Whole(p) /\ Proven(p)
    BY <2>1 DEF Progress, TypeInv
  <2>3. Whole(p)' /\ Proven(p)'
    BY <2>1, <2>2 DEF Whole, Read, Accepted, Made, Proven, Bound
  <2> QED
    BY <2>1, <2>3 DEF Progress, Whole
<1> QED
  BY <1>1, <1>2, <1>3, <1>4, <1>5, <1>6, <1>7, <1>8 DEF Prepares

\* A step that leaves the names alone leaves a process where it was relative
\* to each of them; one that has published no longer changes what it made.
LEMMA PreparePlace ==
  ASSUME TypeInv, NEW p \in Assemblers, Prepares(p)
  PROVE  /\ \A n \in FileNames : step[p] \in After(n) <=> step'[p] \in After(n)
         /\ \A n \in FileNames : step[p] \in After(n) =>
              UNCHANGED <<builds, opened, temporary>>
<1> USE DEF Goto, After, FileNames
<1>1. CASE Begin(p)
  BY <1>1 DEF Begin, TypeInv
<1>2. ASSUME NEW q \in Platforms, VerifyNativeInput(p, q)
      PROVE  /\ \A n \in FileNames : step[p] \notin After(n)
             /\ \A n \in FileNames : step'[p] \notin After(n)
  <2>1. step[p] \in {"amd64", "arm64"} /\ step'[p] \in {"arm64", "openAmd64"}
    BY <1>2, PlatformsDiffer DEF VerifyNativeInput, TypeInv
  <2> QED
    BY <2>1
<1>3. ASSUME NEW q \in Platforms, Open(p, q)
      PROVE  /\ \A n \in FileNames : step[p] \notin After(n)
             /\ \A n \in FileNames : step'[p] \notin After(n)
  <2>1. /\ step[p] \in {"openAmd64", "openArm64"}
        /\ step'[p] \in {"openArm64", "merge"}
    BY <1>3, PlatformsDiffer DEF Open, OpenStep, TypeInv
  <2> QED
    BY <2>1
<1>4. CASE Merge(p)
  BY <1>4 DEF Merge, TypeInv
<1>5. CASE Unchanged(p)
  BY <1>5 DEF Unchanged, AfterMerge, TypeInv
<1>6. CASE VerifyPair(p)
  BY <1>6 DEF VerifyPair, TypeInv
<1>7. CASE VerifyAssembledInputs(p)
  BY <1>7 DEF VerifyAssembledInputs, AfterBind, TypeInv
<1>8. CASE Unalias(p)
  BY <1>8 DEF Unalias, TypeInv
<1> QED
  BY <1>1, <1>2, <1>3, <1>4, <1>5, <1>6, <1>7, <1>8 DEF Prepares

\* What other processes do does not touch what a process knows.
LEMMA ProgressElsewhere ==
  ASSUME NEW o \in Assemblers, Progress(o),
         step'[o] = step[o], builds'[o] = builds[o], opened'[o] = opened[o],
         temporary'[o] = temporary[o], mode' = mode, rewritten \subseteq rewritten'
  PROVE  Progress(o)'
BY DEF Progress, Read, Accepted, Made, Whole, Proven, Bound, Checked

LEMMA FaithfulElsewhere ==
  ASSUME NEW o \in Assemblers, Faithful(o), builds'[o] = builds[o],
         opened'[o] = opened[o], temporary'[o] = temporary[o], mode' = mode,
         \A n \in FileNames : FileOf(o, n)' =>
           /\ files'[n] = files[n]
           /\ step'[o] = step[o] \/ step'[o] \in After(n) \cup Stopped
  PROVE  Faithful(o)'
BY DEF Faithful, FileOf, Published, Read, Accepted, Made, Whole, Proven, Bound, After

\* Nothing that is about the names changes with the rest of the state.
LEMMA NamesElsewhere ==
  ASSUME IInv, UNCHANGED <<mode, step, files, stuck>>
  PROVE  /\ Exclusive'
         /\ \A p \in Assemblers : Cleared(p)' /\ Kept(p)'
         /\ \A p \in Assemblers, n \in FileNames : Pending(p, n)'
<1>1. \A p \in Assemblers : /\ Stays(p)' <=> Stays(p)
                            /\ \A n \in FileNames : FileOf(p, n)' <=> FileOf(p, n)
  BY DEF Stays, Holds, Withdraws, After, FileOf
<1>2. \A n \in FileNames : After(n)' = After(n)
  BY DEF After
<1>3. Exclusive'
  BY <1>1 DEF IInv, Exclusive
<1>4. \A p \in Assemblers : Cleared(p)' /\ Kept(p)'
  <2>1. \A p \in Assemblers : Cleared(p)'
    BY <1>1 DEF IInv, Cleared
  <2>2. \A p \in Assemblers : Kept(p)'
    BY <1>1, <1>2 DEF IInv, Kept, FileNames
  <2> QED
    BY <2>1, <2>2
<1>5. ASSUME NEW p \in Assemblers, NEW n \in FileNames PROVE Pending(p, n)'
  <2>1. Pending(p, n)
    BY DEF IInv
  <2> QED
    BY <1>1, <1>2, <2>1 DEF Pending
<1> QED
  BY <1>3, <1>4, <1>5

LEMMA PrepareKeeps ==
  ASSUME IInv, NEW p \in Assemblers, Prepares(p)
  PROVE  IInv'
<1>1. TypeInv /\ TypeInv'
  BY PrepareTyped DEF IInv
<1>2. /\ UNCHANGED <<inputVars, mode, files, stuck>>
      /\ \A o \in Assemblers : o # p =>
           /\ step'[o] = step[o] /\ builds'[o] = builds[o]
           /\ opened'[o] = opened[o] /\ temporary'[o] = temporary[o]
      /\ step[p] \notin Stopped /\ step'[p] \notin Stopped
  <2>1. step' = [step EXCEPT ![p] = step'[p]]
    BY <1>1, PrepareEffect
  <2>2. \A o \in Assemblers : o # p => step'[o] = step[o]
    BY <1>1, <2>1 DEF TypeInv
  <2> QED
    BY <1>1, <2>2, PrepareEffect
<1>3. \A o \in Assemblers : \A n \in FileNames :
        /\ step[o] \in After(n) <=> step'[o] \in After(n)'
        /\ FileOf(o, n) <=> FileOf(o, n)'
  BY <1>1, <1>2, PreparePlace DEF After, FileOf
<1>4. \A o \in Assemblers : Stays(o) <=> Stays(o)'
  <2>1. \A o \in Assemblers : Withdraws(o) <=> Withdraws(o)'
    BY <1>2 DEF Withdraws, Stopped
  <2> QED
    BY <1>3, <2>1 DEF Stays, Holds, FileNames
<1>5. ASSUME NEW o \in Assemblers PROVE Progress(o)' /\ Faithful(o)'
  <2>1. Progress(o) /\ Faithful(o)
    BY DEF IInv
  <2>3. CASE o # p
    BY <1>2, <2>1, <2>3, ProgressElsewhere, FaithfulElsewhere
       DEF inputVars, FileOf
  <2>4. CASE o = p
    <3>1. Progress(p)'
      BY <1>1, <2>1, <2>4, ProgressSteps
    <3>2. CASE \A n \in FileNames : ~FileOf(p, n)
      BY <1>3, <2>4, <3>1, <3>2 DEF Faithful
    <3>3. CASE \E n \in FileNames : FileOf(p, n)
      <4>1. PICK n \in FileNames : step[p] \in After(n)
        BY <1>2, <2>1, <2>4, <3>3 DEF Faithful
      <4>2. UNCHANGED <<builds, opened, temporary>>
        BY <1>1, <4>1, PreparePlace
      <4>3. \A m \in FileNames : FileOf(p, m)' => step'[p] \in After(m)
        BY <1>1, <1>2, <1>3, <2>1, <2>4, PreparePlace DEF Faithful
      <4>4. Faithful(p)'
        BY <1>2, <2>1, <2>4, <4>2, <4>3, FaithfulElsewhere
      <4> QED
        BY <2>4, <3>1, <4>4
    <3> QED
      BY <3>2, <3>3
  <2> QED
    BY <2>3, <2>4
<1>6. \A o \in Assemblers : Cleared(o)' /\ Kept(o)'
  <2>1. \A o \in Assemblers : Cleared(o)'
    BY <1>2, <1>3, StepsApart DEF IInv, Cleared
  <2>2. \A o \in Assemblers : Kept(o)'
    BY <1>2, <1>3, <1>4 DEF IInv, Kept, FileNames
  <2> QED
    BY <2>1, <2>2
<1>7. \A o \in Assemblers, n \in FileNames : Pending(o, n)'
  <2>1. \A o \in Assemblers, n \in FileNames :
          step'[o] = Removal(n) <=> step[o] = Removal(n)
    BY <1>2, StepsApart
  <2> QED
    BY <1>2, <1>3, <1>4, <2>1 DEF IInv, Pending
<1>8. Exclusive'
  BY <1>4 DEF IInv, Exclusive
<1> QED
  BY <1>1, <1>5, <1>6, <1>7, <1>8 DEF IInv

\* A name is published by a process that has checked all it publishes, and
\* moves it past that name only.
LEMMA PublishPlace ==
  ASSUME TypeInv, NEW p \in Assemblers, NEW n \in FileNames, Publish(p, n), Progress(p)
  PROVE  /\ step[p] = n /\ step'[p] \in Finished \cap Steps
         /\ \A m \in FileNames : step'[p] \in After(m) <=> step[p] \in After(m) \/ m = n
         /\ n # "output" => step[p] \in After("output")
         /\ mode = "inline" => step'[p] \notin {"pair", "sidecar", "unalias"}
         /\ Whole(p) /\ (n = "evidence" => Proven(p))
         /\ step'[p] \in Checked => Proven(p)
<1> USE DEF FileNames
<1>1. step[p] = n /\ step'[p] = NextName(n)
  BY DEF Publish, Goto, TypeInv
<1>2. Whole(p) /\ (step[p] \in Checked => Proven(p))
  BY <1>1 DEF Progress, Finished, Loaded
<1>3. CASE n = "output" /\ mode = "inline"
  BY <1>1, <1>2, <1>3 DEF NextName, After, Checked, Finished, Loaded, Steps
<1>4. CASE n = "output" /\ mode = "detached"
  BY <1>1, <1>2, <1>4 DEF NextName, After, Checked, Finished, Loaded, Steps
<1>5. CASE n = "sidecar"
  <2>1. mode = "detached"
    BY <1>1, <1>5 DEF TypeInv
  <2> QED
    BY <1>1, <1>2, <1>5, <2>1 DEF NextName, After, Checked, Finished, Loaded, Steps
<1>6. CASE n = "evidence" /\ mode = "inline"
  BY <1>1, <1>2, <1>6 DEF NextName, After, Checked, Finished, Loaded, Steps
<1>7. CASE n = "evidence" /\ mode = "detached"
  BY <1>1, <1>2, <1>7 DEF NextName, After, Checked, Finished, Loaded, Steps
<1> QED
  BY <1>3, <1>4, <1>5, <1>6, <1>7 DEF TypeInv

LEMMA PublishKeeps ==
  ASSUME IInv, NEW p \in Assemblers, NEW n \in FileNames, Publish(p, n)
  PROVE  IInv'
<1>1. TypeInv /\ Progress(p)
  BY DEF IInv
<1>2. /\ files[n].by = None
      /\ files' = [files EXCEPT ![n] = Published(p)]
      /\ UNCHANGED <<inputVars, mode, builds, opened, temporary, stuck>>
      /\ step' = [step EXCEPT ![p] = step'[p]]
  BY <1>1 DEF Publish, Vacant, Goto, TypeInv
<1>3. /\ \A o \in Assemblers : o # p => step'[o] = step[o]
      /\ step[p] = n /\ step'[p] \in Finished
      /\ step[p] \notin Stopped /\ step'[p] \notin Stopped
  BY <1>1, <1>2, PublishPlace, StepsApart DEF TypeInv, Finished, Loaded, FileNames
<1>4. /\ files'[n] = Published(p) /\ files'[n].by = p
      /\ \A m \in FileNames : m # n => files'[m] = files[m]
  BY <1>1, <1>2 DEF TypeInv, Published
<1>5. TypeInv'
  <2>1. step' \in [Assemblers -> Steps]
    BY <1>1, <1>2, PublishPlace DEF TypeInv
  <2>2. \A o \in Assemblers :
          mode = "inline" => step'[o] \notin {"pair", "sidecar", "unalias"}
    BY <1>1, <1>3, PublishPlace DEF TypeInv
  <2> QED
    BY <1>1, <1>2, <2>1, <2>2 DEF TypeInv, inputVars
<1>6. \A o \in Assemblers : \A m \in FileNames :
        /\ step'[o] \in After(m)' <=> step[o] \in After(m) \/ (o = p /\ m = n)
        /\ FileOf(o, m)' <=> FileOf(o, m) \/ (o = p /\ m = n)
  <2>1. \A m \in FileNames : After(m)' = After(m)
    BY <1>2 DEF After
  <2>2. \A o \in Assemblers : \A m \in FileNames :
          step'[o] \in After(m) <=> step[o] \in After(m) \/ (o = p /\ m = n)
    BY <1>1, <1>3, PublishPlace
  <2>3. \A o \in Assemblers : \A m \in FileNames :
          FileOf(o, m)' <=> FileOf(o, m) \/ (o = p /\ m = n)
    BY <1>2, <1>4, AssemblyAssumption DEF FileOf
  <2> QED
    BY <2>1, <2>2, <2>3
<1>7. \A o \in Assemblers : Stays(o)' <=> Stays(o) \/ o = p
  <2>1. Stays(p)'
    BY <1>3, <1>6 DEF Stays, Holds, Withdraws, Stopped
  <2>2. \A o \in Assemblers : o # p => (Stays(o)' <=> Stays(o))
    BY <1>3, <1>6 DEF Stays, Holds, Withdraws, FileNames
  <2> QED
    BY <2>1, <2>2
<1>8. n # "output" => Stays(p)
  BY <1>1, <1>3, PublishPlace DEF Stays, Holds, Withdraws, Stopped
<1>9. n = "output" => \A o \in Assemblers : ~Stays(o)
  BY <1>2, AssemblyAssumption DEF IInv, Kept, FileOf
<1>10. Exclusive'
  BY <1>7, <1>8, <1>9 DEF Exclusive, IInv
<1>11. ASSUME NEW o \in Assemblers PROVE Cleared(o)' /\ Kept(o)'
  <2>1. Cleared(o) /\ Kept(o)
    BY DEF IInv
  <2>2. \A m \in FileNames : files[m].by = Foreign => files'[m].by = Foreign
    BY <1>2, <1>4, AssemblyAssumption
  <2>3. \A m \in FileNames :
          step'[o] \in After(m)' => FileOf(o, m)' \/ files'[m].by = Foreign
    BY <1>6, <2>1, <2>2 DEF Kept
  <2>4. Stays(o)' => FileOf(o, "output")' \/ files'["output"].by = Foreign
    <3>1. CASE Stays(o)
      BY <1>6, <2>1, <2>2, <3>1 DEF Kept, FileNames
    <3>2. CASE o = p /\ n = "output"
      BY <1>6, <3>2
    <3> QED
      BY <1>7, <1>8, <3>1, <3>2
  <2>5. Cleared(o)'
    BY <1>2, <1>3, <1>6, <2>1, StepsApart DEF Cleared
  <2> QED
    BY <2>3, <2>4, <2>5 DEF Kept
<1>12. ASSUME NEW o \in Assemblers, NEW m \in FileNames PROVE Pending(o, m)'
  <2> SUFFICES ASSUME step'[o] = Removal(m)
               PROVE  /\ files'[m].by \in {o, Foreign}
                      /\ \A a \in Assemblers \ {o} :
                           /\ step'[a] # Removal(m) /\ step'[a] \notin After(m)'
                           /\ m = "output" => ~Stays(a)'
    BY DEF Pending
  <2>1. o # p /\ step[o] = Removal(m)
    BY <1>3, StepsApart
  <2>2. /\ files[m].by \in {o, Foreign}
        /\ \A a \in Assemblers \ {o} :
             /\ step[a] # Removal(m) /\ step[a] \notin After(m)
             /\ m = "output" => ~Stays(a)
    BY <2>1 DEF IInv, Pending
  <2>3. m # n
    BY <1>2, <2>2, AssemblyAssumption
  <2>4. \A a \in Assemblers : step'[a] = Removal(m) => step[a] = Removal(m)
    BY <1>3, StepsApart
  <2>5. m = "output" => Stays(p)
    BY <1>8, <2>3
  <2> QED
    BY <1>4, <1>6, <1>7, <2>1, <2>2, <2>3, <2>4, <2>5
<1>13. ASSUME NEW o \in Assemblers PROVE Progress(o)' /\ Faithful(o)'
  <2>1. Progress(o) /\ Faithful(o)
    BY DEF IInv
  <2>2. CASE o # p
    <3>0. \A m \in FileNames : FileOf(o, m)' =>
            /\ files'[m] = files[m]
            /\ step'[o] = step[o] \/ step'[o] \in After(m) \cup Stopped
      BY <1>3, <1>4, <2>2 DEF FileOf
    <3>1. Faithful(o)'
      BY <1>2, <2>1, <3>0, FaithfulElsewhere
    <3>2. Progress(o)'
      BY <1>2, <1>3, <2>1, <2>2, ProgressElsewhere DEF inputVars
    <3> QED
      BY <3>1, <3>2
  <2>3. CASE o = p
    <3>1. /\ step'[p] \in Finished /\ Whole(p) /\ (n = "evidence" => Proven(p))
          /\ step'[p] \in Checked => Proven(p)
      BY <1>1, PublishPlace
    <3>2. /\ Whole(p)' /\ (Proven(p) => Proven(p)') /\ Published(p)' = Published(p)
          /\ Checked' = Checked
      BY <1>2, <3>1 DEF Whole, Read, Accepted, Made, Proven, Bound, Published, Checked
    <3>3. Progress(p)'
      BY <3>1, <3>2 DEF Progress, Whole, Finished, Loaded
    <3>4. Faithful(p)'
      <4> SUFFICES ASSUME NEW m \in FileNames, FileOf(p, m)'
                   PROVE  /\ step'[p] \in After(m)' \cup Stopped
                          /\ files'[m] = Published(p) /\ (m = "evidence" => Proven(p))
        BY <3>2 DEF Faithful
      <4>1. CASE m = n
        BY <1>4, <1>6, <3>1, <4>1
      <4>2. CASE m # n
        <5>1. FileOf(p, m)
          BY <1>6, <4>2
        <5> QED
          BY <1>3, <1>4, <1>6, <2>1, <2>3, <4>2, <5>1 DEF Faithful
      <4> QED
        BY <4>1, <4>2
    <3> QED
      BY <2>3, <3>3, <3>4
  <2> QED
    BY <2>2, <2>3
<1> QED
  BY <1>5, <1>10, <1>11, <1>12, <1>13 DEF IInv

(* The steps of a process that fails, withdraws its files or is killed.    *)
Stops(p) ==
  \/ Fail(p) \/ Discard(p) \/ Kill(p)
  \/ \E n \in FileNames : LookAtName(p, n) \/ RemoveName(p, n)
(* A name that is removed is one that nobody else relies on.               *)
Released(p, n) ==
  /\ files' = [files EXCEPT ![n] = FileBy(None)]
  /\ \A o \in Assemblers \ {p} :
       /\ step[o] # Removal(n) /\ step[o] \notin After(n)
       /\ n = "output" => ~Stays(o)

LEMMA StopEffect ==
  ASSUME TypeInv, NEW p \in Assemblers, Stops(p)
  PROVE  /\ UNCHANGED <<inputVars, mode, builds, opened, temporary>>
         /\ step' = [step EXCEPT ![p] = step'[p]] /\ step'[p] \in Stopped
         /\ stuck \subseteq stuck'
<1>1. ASSUME NEW next, Goto(p, next)
      PROVE  step' = [step EXCEPT ![p] = step'[p]] /\ step'[p] = next
  BY <1>1 DEF Goto, TypeInv
<1>2. \A n \in FileNames : LookAt(n) \in Stopped /\ Removal(n) \in Stopped
  BY DEF Stopped, Rollback
<1>3. \A n \in FileNames : AfterName(n) \in Stopped
  BY PastNames, StoppedNames DEF FileNames
<1>4. CASE Fail(p)
  BY <1>1, <1>2, <1>4, StoppedNames DEF Fail, outputVars, FileNames
<1>5. CASE Discard(p)
  BY <1>1, <1>5, StoppedNames DEF Discard, Unlink
<1>6. CASE Kill(p)
  BY <1>1, <1>6, StoppedNames DEF Kill, outputVars
<1>7. ASSUME NEW n \in FileNames, LookAtName(p, n)
      PROVE  /\ UNCHANGED <<inputVars, mode, builds, opened, temporary>>
             /\ step' = [step EXCEPT ![p] = step'[p]] /\ step'[p] \in Stopped
             /\ stuck \subseteq stuck'
  BY <1>1, <1>2, <1>3, <1>7 DEF LookAtName
<1>8. ASSUME NEW n \in FileNames, RemoveName(p, n)
      PROVE  /\ UNCHANGED <<inputVars, mode, builds, opened, temporary>>
             /\ step' = [step EXCEPT ![p] = step'[p]] /\ step'[p] \in Stopped
             /\ stuck \subseteq stuck'
  BY <1>1, <1>3, <1>8 DEF RemoveName, Unlink
<1> QED
  BY <1>4, <1>5, <1>6, <1>7, <1>8 DEF Stops

\* Such a step keeps the invariant when what it does to the names does.
LEMMA StopKeeps ==
  ASSUME IInv, NEW p \in Assemblers, Stops(p), Cleared(p)', Kept(p)',
         Stays(p)' => Stays(p),
         UNCHANGED files \/ \E n \in FileNames : Released(p, n),
         \A n \in FileNames :
           step'[p] = Removal(n) => FileOf(p, n) /\ UNCHANGED files
  PROVE  IInv'
<1>1. TypeInv
  BY DEF IInv
<1>2. /\ UNCHANGED <<inputVars, mode, builds, opened, temporary>>
      /\ step' = [step EXCEPT ![p] = step'[p]] /\ step'[p] \in Stopped
      /\ stuck \subseteq stuck'
  BY <1>1, StopEffect
<1>3. \A o \in Assemblers : o # p => step'[o] = step[o]
  BY <1>1, <1>2 DEF TypeInv
<1>4. \A n \in FileNames :
        \/ files'[n] = files[n]
        \/ /\ files'[n].by = None
           /\ \A o \in Assemblers \ {p} :
                /\ step[o] # Removal(n) /\ step[o] \notin After(n)
                /\ n = "output" => ~Stays(o)
  <2>1. ASSUME NEW n \in FileNames, Released(p, n)
        PROVE  /\ files'[n].by = None
               /\ \A m \in FileNames : m # n => files'[m] = files[m]
    BY <1>1, <2>1 DEF Released, FileBy, TypeInv
  <2> QED
    BY <2>1 DEF Released
<1>5. TypeInv'
  <2>1. step' \in [Assemblers -> Steps]
    BY <1>1, <1>2 DEF TypeInv, Steps
  <2>2. step'[p] \notin {"pair", "sidecar", "unalias"}
    BY <1>2, StepsApart DEF Loaded
  <2>3. \A o \in Assemblers :
          mode = "inline" => step'[o] \notin {"pair", "sidecar", "unalias"}
    BY <1>1, <1>3, <2>2 DEF TypeInv
  <2>4. DOMAIN files' = FileNames
    BY <1>1 DEF TypeInv, Released
  <2> QED
    BY <1>1, <1>2, <2>1, <2>3, <2>4 DEF TypeInv, inputVars
<1>6. /\ \A n \in FileNames : After(n)' = After(n) /\ step'[p] \notin After(n)
      /\ \A o \in Assemblers : \A n \in FileNames :
           FileOf(o, n)' => FileOf(o, n) /\ files'[n] = files[n]
  <2>1. \A n \in FileNames : After(n)' = After(n) /\ step'[p] \notin After(n)
    BY <1>2, StepsApart DEF After
  <2>2. \A o \in Assemblers : \A n \in FileNames :
          FileOf(o, n)' => FileOf(o, n) /\ files'[n] = files[n]
    BY <1>4, AssemblyAssumption DEF FileOf
  <2> QED
    BY <2>1, <2>2
<1>7. \A o \in Assemblers : Stays(o)' => Stays(o)
  <2>1. \A o \in Assemblers : o # p /\ Stays(o)' => Stays(o)
    BY <1>3, <1>6 DEF Stays, Holds, Withdraws, FileNames
  <2> QED
    BY <2>1
<1>8. Exclusive'
  BY <1>7 DEF IInv, Exclusive
<1>9. ASSUME NEW o \in Assemblers, o # p PROVE Cleared(o)' /\ Kept(o)'
  <2>1. Cleared(o) /\ Kept(o) /\ step'[o] = step[o]
    BY <1>3, <1>9 DEF IInv
  <2>2. Cleared(o)'
    BY <1>2, <1>6, <2>1 DEF Cleared
  <2>3. \A n \in FileNames :
          step'[o] \in After(n)' => FileOf(o, n)' \/ files'[n].by = Foreign
    BY <1>4, <1>6, <1>9, <2>1 DEF Kept, FileOf
  <2>4. Stays(o)' => FileOf(o, "output")' \/ files'["output"].by = Foreign
    BY <1>4, <1>7, <1>9, <2>1 DEF Kept, FileOf, FileNames
  <2> QED
    BY <2>2, <2>3, <2>4 DEF Kept
<1>10. ASSUME NEW o \in Assemblers, NEW n \in FileNames PROVE Pending(o, n)'
  <2> SUFFICES ASSUME step'[o] = Removal(n)
               PROVE  /\ files'[n].by \in {o, Foreign}
                      /\ \A a \in Assemblers \ {o} :
                           /\ step'[a] # Removal(n) /\ step'[a] \notin After(n)'
                           /\ n = "output" => ~Stays(a)'
    BY DEF Pending
  <2>1. CASE o # p
    <3>1. /\ files[n].by \in {o, Foreign} /\ step[o] = Removal(n)
          /\ \A a \in Assemblers \ {o} :
               /\ step[a] # Removal(n) /\ step[a] \notin After(n)
               /\ n = "output" => ~Stays(a)
      BY <1>3, <2>1 DEF IInv, Pending
    <3>2. files'[n] = files[n]
      BY <1>4, <2>1, <3>1
    <3>3. step'[p] # Removal(n)
      BY <2>1, <3>1, AssemblyAssumption DEF FileOf
    <3> QED
      BY <1>3, <1>6, <1>7, <3>1, <3>2, <3>3
  <2>2. CASE o = p
    <3>1. FileOf(p, n) /\ files' = files
      BY <2>2
    <3>2. ASSUME NEW a \in Assemblers, a # p
          PROVE  /\ step[a] # Removal(n) /\ step[a] \notin After(n)
                 /\ n = "output" => ~Stays(a)
      <4>1. files[n].by # Foreign /\ ~FileOf(a, n)
        BY <3>1, <3>2, AssemblyAssumption DEF FileOf
      <4>2. Kept(a) /\ Pending(a, n)
        BY DEF IInv
      <4> QED
        BY <4>1, <4>2 DEF Kept, Pending, FileOf
    <3> QED
      BY <1>3, <1>6, <1>7, <2>2, <3>1, <3>2 DEF FileOf
  <2> QED
    BY <2>1, <2>2
<1>11. ASSUME NEW o \in Assemblers PROVE Progress(o)' /\ Faithful(o)'
  <2>1. Progress(o) /\ Faithful(o)
    BY DEF IInv
  <2>2. Progress(o)'
    <3>1. CASE o # p
      BY <1>2, <1>3, <2>1, <3>1, ProgressElsewhere DEF inputVars
    <3>2. CASE o = p
      <4>1. step'[o] \notin Opening \cup Loaded
        BY <1>2, <3>2, StepsApart
      <4> QED
        BY <4>1 DEF Progress, Opening, Loaded, Finished, Checked
    <3> QED
      BY <3>1, <3>2
  <2>3. \A n \in FileNames : FileOf(o, n)' =>
          /\ files'[n] = files[n]
          /\ step'[o] = step[o] \/ step'[o] \in After(n) \cup Stopped
    BY <1>2, <1>3, <1>6
  <2>4. Faithful(o)'
    BY <1>2, <2>1, <2>3, FaithfulElsewhere
  <2> QED
    BY <2>2, <2>4
<1> QED
  BY <1>5, <1>8, <1>9, <1>10, <1>11 DEF IInv

\* A process that has published nothing has nothing to withdraw.
LEMMA FailKeeps ==
  ASSUME IInv, NEW p \in Assemblers, Fail(p)
  PROVE  IInv'
<1>1. TypeInv /\ Faithful(p)
  BY DEF IInv
<1>2. /\ step'[p] = (IF HasPublished(p) THEN "lookAtOutput" ELSE "failed")
      /\ UNCHANGED <<mode, files, stuck>>
  BY <1>1, StepNames DEF Fail, Goto, TypeInv, outputVars
<1>3. step[p] \notin Stopped \cup {"done"}
  BY DEF Fail, Running, Stopped
<1>4. ~HasPublished(p) => \A n \in FileNames : ~FileOf(p, n)
  BY <1>1, <1>3 DEF Faithful, HasPublished, After, FileNames
<1>5. Cleared(p)'
  <2>1. CASE HasPublished(p)
    <3>1. \A n \in FileNames : step'[p] \notin Past(n)
      BY <1>2, <2>1, PastNames DEF FileNames
    <3> QED
      BY <3>1 DEF Cleared
  <2>2. CASE ~HasPublished(p)
    BY <1>2, <1>4, <2>2 DEF Cleared, FileOf
  <2> QED
    BY <2>1, <2>2
<1>6. ~Stays(p)' /\ \A n \in FileNames : step'[p] \notin After(n)'
  BY <1>2, StoppedNames DEF Stays, Withdraws, After
<1>7. Kept(p)'
  BY <1>6 DEF Kept
<1>8. \A n \in FileNames : step'[p] # Removal(n)
  BY <1>2, StepNames DEF FileNames
<1> QED
  BY <1>2, <1>5, <1>6, <1>7, <1>8, StopKeeps DEF Stops

\* Inline, who discards the output is the only one that has published any.
LEMMA DiscardKeeps ==
  ASSUME IInv, NEW p \in Assemblers, Discard(p)
  PROVE  IInv'
<1>1. TypeInv /\ Faithful(p)
  BY DEF IInv
<1>2. /\ step'[p] = "failed" /\ Unlink(p, "output")
      /\ mode = "inline" /\ mode' = mode /\ step[p] \in {"bind", "evidence"}
  BY <1>1 DEF Discard, HasPublished, Goto, TypeInv
<1>3. \A n \in FileNames : FileOf(p, n) => n = "output"
  BY <1>1, <1>2, StoppedNames DEF Faithful, After, FileNames
<1>4. Stays(p)
  BY <1>2, StoppedNames DEF Stays, Holds, Withdraws, After
<1>5. \A o \in Assemblers \ {p} : ~Stays(o)
  BY <1>4 DEF IInv, Exclusive
<1>6. \A o \in Assemblers \ {p} :
        step[o] # Removal("output") /\ step[o] \notin After("output")
  <2>1. \A o \in Assemblers \ {p} : step[o] # Removal("output")
    <3>1. step[p] \in After("output")
      BY <1>2 DEF After
    <3> QED
      BY <3>1 DEF IInv, Pending, FileNames
  <2>2. \A o \in Assemblers \ {p} : step[o] \notin After("output")
    <3>1. \A o \in Assemblers :
            step[o] \in After("output") => ~Withdraws(o) /\ Holds(o)
      BY <1>2, StoppedNames DEF Withdraws, After, Holds
    <3> QED
      BY <1>5, <3>1 DEF Stays
  <2> QED
    BY <2>1, <2>2
<1>7. UNCHANGED files \/ \E n \in FileNames : Released(p, n)
  BY <1>2, <1>5, <1>6 DEF Unlink, Released, FileNames
<1>8. Cleared(p)'
  <2>1. \A n \in FileNames : FileOf(p, n)' => n = "output" /\ <<p, "output">> \in stuck'
    <3>1. CASE files' = [files EXCEPT !["output"] = FileBy(None)]
      BY <1>1, <1>3, <3>1, AssemblyAssumption DEF FileOf, FileBy, TypeInv, FileNames
    <3>2. CASE stuck' = stuck \cup {<<p, "output">>} /\ files' = files
      BY <1>3, <3>2 DEF FileOf
    <3> QED
      BY <1>2, <3>1, <3>2 DEF Unlink
  <2> QED
    BY <2>1 DEF Cleared
<1>9. ~Stays(p)' /\ \A n \in FileNames : step'[p] \notin After(n)'
  BY <1>2, StoppedNames DEF Stays, Withdraws, After
<1>10. Kept(p)'
  BY <1>9 DEF Kept
<1>11. \A n \in FileNames : step'[p] # Removal(n)
  BY <1>2, StepNames DEF FileNames
<1> QED
  BY <1>7, <1>8, <1>9, <1>10, <1>11, StopKeeps DEF Stops

\* A process that is past a name is past the names before it.
LEMMA PastSteps ==
  /\ \A n, m \in FileNames : /\ Removal(n) \in Past(m) => LookAt(n) \in Past(m)
                             /\ AfterName(n) \in Past(m) =>
                                  m = n \/ Removal(n) \in Past(m)
  /\ \A n, m \in FileNames : LookAt(n) \notin After(m)
  /\ \A n \in FileNames : /\ {LookAt(n), Removal(n)} \subseteq Rollback
                          /\ AfterName(n) \in Rollback \cup {"failed"}
                          /\ \A m \in FileNames : AfterName(n) # Removal(m)
                          /\ LookAt(n) # Removal(n)
  /\ \A n, m \in FileNames : Removal(n) = Removal(m) => n = m
BY StepNames, PastNames, StoppedNames DEF FileNames, After

\* A process that withdraws its files relies on none of them.
LEMMA WithdrawsKept ==
  ASSUME NEW p, step'[p] \in Rollback \cup {"failed"}
  PROVE  ~Stays(p)' /\ Kept(p)'
<1>1. ~Stays(p)' /\ step'[p] \in Stopped
  BY DEF Stays, Withdraws, Stopped
<1>2. \A n \in FileNames : step'[p] \notin After(n)'
  BY <1>1, StoppedNames DEF After
<1> QED
  BY <1>1, <1>2 DEF Kept

LEMMA LookKeeps ==
  ASSUME IInv, NEW p \in Assemblers, NEW n \in FileNames, LookAtName(p, n)
  PROVE  IInv'
<1>1. TypeInv /\ Cleared(p)
  BY DEF IInv
<1>2. /\ step[p] = LookAt(n) /\ UNCHANGED files
      /\ \/ step'[p] = Removal(n) /\ FileOf(p, n) /\ stuck' = stuck
         \/ step'[p] = AfterName(n) /\ ~FileOf(p, n) /\ stuck' = stuck
         \/ step'[p] = AfterName(n) /\ stuck' = stuck \cup {<<p, n>>}
  BY <1>1 DEF LookAtName, Goto, TypeInv
<1>3. Cleared(p)'
  <2> SUFFICES ASSUME NEW m \in FileNames, step'[p] \in Past(m), FileOf(p, m)
               PROVE  <<p, m>> \in stuck'
    BY <1>2 DEF Cleared, FileOf
  <2>1. /\ Removal(n) \in Past(m) => LookAt(n) \in Past(m)
        /\ AfterName(n) \in Past(m) => m = n \/ Removal(n) \in Past(m)
        /\ Removal(n) \in Past(m) => m # n
    BY PastSteps, PastNames, StepNames DEF FileNames
  <2>2. CASE LookAt(n) \in Past(m)
    <3>1. <<p, m>> \in stuck
      BY <1>1, <1>2, <2>2 DEF Cleared
    <3> QED
      BY <1>2, <3>1
  <2>3. CASE LookAt(n) \notin Past(m)
    <3>1. m = n /\ step'[p] = AfterName(n)
      BY <1>2, <2>1, <2>3
    <3>2. <<p, n>> \in stuck'
      BY <1>2, <3>1, PastSteps
    <3> QED
      BY <3>1, <3>2
  <2> QED
    BY <2>2, <2>3
<1>4. ~Stays(p)' /\ Kept(p)'
  BY <1>2, PastSteps, WithdrawsKept
<1>5. \A m \in FileNames : step'[p] = Removal(m) => FileOf(p, m)
  BY <1>2, PastSteps
<1> QED
  BY <1>2, <1>3, <1>4, <1>5, StopKeeps DEF Stops

LEMMA RemoveKeeps ==
  ASSUME IInv, NEW p \in Assemblers, NEW n \in FileNames, RemoveName(p, n)
  PROVE  IInv'
<1>1. TypeInv /\ Cleared(p) /\ Pending(p, n)
  BY DEF IInv
<1>2. step[p] = Removal(n) /\ step'[p] = AfterName(n) /\ Unlink(p, n)
  BY <1>1 DEF RemoveName, Goto, TypeInv
<1>3. UNCHANGED files \/ \E m \in FileNames : Released(p, m)
  BY <1>1, <1>2 DEF Unlink, Released, Pending
<1>4. Cleared(p)'
  <2> SUFFICES ASSUME NEW m \in FileNames, step'[p] \in Past(m), FileOf(p, m)'
               PROVE  <<p, m>> \in stuck'
    BY DEF Cleared
  <2>1. m = n \/ Removal(n) \in Past(m)
    <3>1. AfterName(n) \in Past(m) => m = n \/ Removal(n) \in Past(m)
      BY PastSteps
    <3> QED
      BY <1>2, <3>1
  <2>2. CASE files' = [files EXCEPT ![n] = FileBy(None)] /\ stuck' = stuck
    <3>1. m # n /\ FileOf(p, m)
      BY <1>1, <2>2, AssemblyAssumption DEF FileOf, FileBy, TypeInv
    <3> QED
      BY <1>1, <1>2, <2>1, <2>2, <3>1 DEF Cleared
  <2>3. CASE stuck' = stuck \cup {<<p, n>>} /\ files' = files
    BY <1>1, <1>2, <2>1, <2>3 DEF Cleared, FileOf
  <2> QED
    BY <1>2, <2>2, <2>3 DEF Unlink
<1>5. ~Stays(p)' /\ Kept(p)'
  BY <1>2, PastSteps, WithdrawsKept
<1>6. \A m \in FileNames : step'[p] # Removal(m)
  BY <1>2, PastSteps
<1> QED
  BY <1>3, <1>4, <1>5, <1>6, StopKeeps DEF Stops

LEMMA KillKeeps ==
  ASSUME IInv, NEW p \in Assemblers, Kill(p)
  PROVE  IInv'
<1>1. TypeInv /\ Kept(p)
  BY DEF IInv
<1>2. /\ step'[p] = (IF Running(p) THEN "killed" ELSE "cutShort")
      /\ UNCHANGED <<mode, files, stuck>>
  BY <1>1 DEF Kill, Goto, TypeInv, outputVars
<1>3. \A n \in FileNames : /\ step'[p] \notin After(n)' /\ step'[p] \notin Past(n)
                           /\ step'[p] # Removal(n)
  BY <1>2, PastNames, StepNames DEF After, FileNames
<1>4. Cleared(p)'
  BY <1>3 DEF Cleared
<1>5. Stays(p)' => Stays(p)
  <2>1. CASE Running(p)
    <3>1. ~Withdraws(p)
      BY <2>1, StoppedNames DEF Withdraws, Running
    <3>2. Holds(p)' => Holds(p)
      BY <1>2, <1>3 DEF Holds, FileOf, FileNames
    <3> QED
      BY <3>1, <3>2 DEF Stays
  <2>2. CASE ~Running(p)
    BY <1>2, <2>2 DEF Stays, Withdraws
  <2> QED
    BY <2>1, <2>2
<1>6. Kept(p)'
  BY <1>1, <1>2, <1>3, <1>5 DEF Kept, FileOf
<1> QED
  BY <1>2, <1>3, <1>4, <1>5, <1>6, StopKeeps DEF Stops

-----------------------------------------------------------------------------
(* The others.                                                             *)

LEMMA ParsedRewrite ==
  ASSUME TypeInv, NEW q \in Platforms, Rewrite(q) \/ \E parts : Replace(q, parts)
  PROVE  /\ DOMAIN input' = Platforms
         /\ \A o \in Platforms : DOMAIN input'[o] = Parts /\ Parsed(input'[o].archive)
<1>1. CASE Rewrite(q)
  <2> DEFINE gone == {m.digest : m \in input[q].archive.manifests}
  <2>1. input' = [input EXCEPT ![q].archive.absent = gone]
    BY <1>1 DEF Rewrite
  <2>2. \A o \in Platforms : o # q => input'[o] = input[o]
    BY <2>1 DEF TypeInv
  <2>3. /\ DOMAIN input[q] = Parts /\ Parsed(input[q].archive)
        /\ DOMAIN input[q].archive = {"manifests", "absent"}
    BY DEF TypeInv, Parsed
  <2>4. /\ DOMAIN input'[q] = Parts
        /\ DOMAIN input'[q].archive = {"manifests", "absent"}
        /\ input'[q].archive.manifests = input[q].archive.manifests
    BY <2>1, <2>3 DEF TypeInv, Parts
  <2>5. Parsed(input'[q].archive)
    BY <2>3, <2>4 DEF Parsed, Attestations
  <2> QED
    BY <2>1, <2>2, <2>4, <2>5 DEF TypeInv
<1>2. ASSUME NEW parts, Replace(q, parts)
      PROVE  /\ DOMAIN input' = Platforms
             /\ \A o \in Platforms : DOMAIN input'[o] = Parts /\ Parsed(input'[o].archive)
  <2>1. PICK package \in Packages[q] :
          input' = [input EXCEPT ![q] = [part \in Parts |->
                      IF part \in parts THEN package[part] ELSE input[q][part]]]
    BY <1>2 DEF Replace
  <2>2. \A o \in Platforms : o # q => input'[o] = input[o]
    BY <2>1 DEF TypeInv
  <2>3. input'[q] = [part \in Parts |->
                       IF part \in parts THEN package[part] ELSE input[q][part]]
    BY <2>1 DEF TypeInv
  <2>4. input'[q].archive = package.archive \/ input'[q].archive = input[q].archive
    BY <2>3 DEF Parts
  <2>5. Parsed(package.archive) /\ Parsed(input[q].archive)
    BY PackagesAssumption DEF TypeInv
  <2> QED
    BY <2>1, <2>2, <2>3, <2>4, <2>5 DEF TypeInv
<1> QED
  BY <1>1, <1>2

LEMMA InputKeeps ==
  ASSUME IInv, NEW q \in Platforms, Rewrite(q) \/ \E parts : Replace(q, parts)
  PROVE  IInv'
<1>1. /\ UNCHANGED <<mode, step, builds, opened, temporary, files, stuck>>
      /\ rewritten \subseteq rewritten'
  BY DEF Rewrite, Replace, outputVars
<1>2. TypeInv'
  BY <1>1, ParsedRewrite DEF IInv, TypeInv
<1>3. ASSUME NEW o \in Assemblers PROVE Progress(o)' /\ Faithful(o)'
  BY <1>1, ProgressElsewhere, FaithfulElsewhere DEF IInv
<1> QED
  BY <1>1, <1>2, <1>3, NamesElsewhere DEF IInv

\* A file of another program is one that nobody needs to withdraw.
LEMMA TakeKeeps ==
  ASSUME IInv, NEW n \in FileNames, Take(n)
  PROVE  IInv'
<1>1. TypeInv
  BY DEF IInv
<1>2. /\ UNCHANGED <<input, rewritten, mode, step, builds, opened, temporary, stuck>>
      /\ files' = [files EXCEPT ![n] = FileBy(Foreign)]
  BY DEF Take
<1>3. /\ files'[n].by = Foreign /\ DOMAIN files' = FileNames
      /\ \A m \in FileNames : m # n => files'[m] = files[m]
  BY <1>1, <1>2 DEF TypeInv, FileBy
<1>4. TypeInv'
  BY <1>1, <1>2, <1>3 DEF TypeInv
<1>5. \A o \in Assemblers : \A m \in FileNames :
        /\ FileOf(o, m)' => FileOf(o, m) /\ files'[m] = files[m]
        /\ FileOf(o, m) \/ files[m].by = Foreign =>
             FileOf(o, m)' \/ files'[m].by = Foreign
        /\ After(m)' = After(m)
  BY <1>2, <1>3, AssemblyAssumption DEF FileOf, After
<1>6. \A o \in Assemblers : Stays(o)' => Stays(o)
  BY <1>2, <1>5 DEF Stays, Holds, Withdraws, FileNames
<1>7. ASSUME NEW o \in Assemblers
      PROVE  Progress(o)' /\ Faithful(o)' /\ Cleared(o)' /\ Kept(o)'
  <2>1. Progress(o) /\ Faithful(o) /\ Cleared(o) /\ Kept(o)
    BY DEF IInv
  <2>2. Progress(o)'
    BY <1>2, <2>1, ProgressElsewhere
  <2>3. Faithful(o)'
    BY <1>2, <1>5, <2>1, FaithfulElsewhere
  <2>4. Cleared(o)'
    BY <1>2, <1>5, <2>1 DEF Cleared
  <2>5. Kept(o)'
    BY <1>2, <1>5, <1>6, <2>1 DEF Kept, FileNames
  <2> QED
    BY <2>2, <2>3, <2>4, <2>5
<1>8. ASSUME NEW o \in Assemblers, NEW m \in FileNames PROVE Pending(o, m)'
  <2>1. Pending(o, m)
    BY DEF IInv
  <2>2. files[m].by \in {o, Foreign} => files'[m].by \in {o, Foreign}
    BY <1>3
  <2> QED
    BY <1>2, <1>5, <1>6, <2>1, <2>2 DEF Pending
<1>9. Exclusive'
  BY <1>6 DEF IInv, Exclusive
<1> QED
  BY <1>4, <1>7, <1>8, <1>9 DEF IInv

LEMMA StutterKeeps ==
  ASSUME IInv, UNCHANGED vars
  PROVE  IInv'
<1>1. UNCHANGED <<input, rewritten, mode, step, builds, opened, temporary, files, stuck>>
  BY DEF vars, inputVars, outputVars
<1>2. TypeInv'
  BY <1>1 DEF IInv, TypeInv
<1>3. ASSUME NEW o \in Assemblers PROVE Progress(o)' /\ Faithful(o)'
  BY <1>1, ProgressElsewhere, FaithfulElsewhere DEF IInv
<1> QED
  BY <1>1, <1>2, <1>3, NamesElsewhere DEF IInv

LEMMA NextCases ==
  ASSUME Next
  PROVE  \/ \E p \in Assemblers : \/ Prepares(p) \/ Stops(p)
                                  \/ \E n \in FileNames : Publish(p, n)
         \/ \E q \in Platforms : Rewrite(q) \/ \E parts : Replace(q, parts)
         \/ \E n \in FileNames : Take(n)
<1>1. CASE \E p \in Assemblers :
             \/ Begin(p) \/ \E q \in Platforms : VerifyNativeInput(p, q) \/ Open(p, q)
             \/ Merge(p) \/ Unchanged(p) \/ VerifyPair(p) \/ VerifyAssembledInputs(p)
             \/ Unalias(p)
  BY <1>1 DEF Prepares
<1>2. CASE \E p \in Assemblers :
             \/ Fail(p) \/ Discard(p) \/ Kill(p)
             \/ \E n \in FileNames : Publish(p, n) \/ LookAtName(p, n) \/ RemoveName(p, n)
  BY <1>2 DEF Stops
<1>3. CASE \/ \E q \in Platforms :
                Rewrite(q) \/ \E parts \in SUBSET Parts : Replace(q, parts)
           \/ \E n \in FileNames : Take(n)
  BY <1>3
<1> QED
  BY <1>1, <1>2, <1>3 DEF Next

LEMMA AssemblyKeeps == IInv /\ [Next]_vars => IInv'
<1> SUFFICES ASSUME IInv, [Next]_vars PROVE IInv'
  OBVIOUS
<1>1. CASE UNCHANGED vars
  BY <1>1, StutterKeeps
<1>2. CASE Next
  <2>1. \A p \in Assemblers : Stops(p) => IInv'
    BY FailKeeps, DiscardKeeps, KillKeeps, LookKeeps, RemoveKeeps DEF Stops
  <2> QED
    BY <1>2, <2>1, NextCases, PrepareKeeps, PublishKeeps, InputKeeps, TakeKeeps
<1> QED
  BY <1>1, <1>2

LEMMA AssemblyInit == Init => IInv
<1> SUFFICES ASSUME Init PROVE IInv
  OBVIOUS
<1>1. TypeInv
  <2>1. DOMAIN input = Platforms /\ \A q \in Platforms : input[q] \in Packages[q]
    BY DEF Init
  <2>2. \A q \in Platforms : DOMAIN input[q] = Parts /\ Parsed(input[q].archive)
    BY <2>1, PackagesAssumption
  <2> QED
    BY <2>1, <2>2 DEF Init, TypeInv, NothingYet, Steps, Opening, FileNames
<1>2. \A p \in Assemblers : \A n \in FileNames : ~FileOf(p, n)
  BY AssemblyAssumption DEF Init, FileOf, FileBy, FileNames
<1>3. \A p \in Assemblers : \A n \in FileNames : step[p] \notin After(n)
  BY DEF Init, After
<1>4. \A p \in Assemblers : ~Stays(p)
  BY <1>2, <1>3 DEF Stays, Holds, FileNames
<1>5. \A p \in Assemblers : Progress(p)
  BY DEF Init, Progress, Loaded, Finished, Checked
<1>6. \A p \in Assemblers : Faithful(p) /\ Cleared(p) /\ Kept(p)
  BY <1>2, <1>3, <1>4 DEF Faithful, Cleared, Kept
<1>7. \A p \in Assemblers, n \in FileNames : Pending(p, n)
  BY StepNames DEF Init, Pending, FileNames
<1> QED
  BY <1>1, <1>4, <1>5, <1>6, <1>7 DEF IInv, Exclusive

\* Every state of the assembly is typed, every process knows what the checks
\* it passed have told it, and one process at most holds the names.
THEOREM AssemblyInvariant == Spec => []IInv
<1> QED
  BY AssemblyInit, AssemblyKeeps, PTL DEF Spec

\* What assemble publishes passes the release verifier, with one image of
\* each platform, whatever the inputs are and however they change meanwhile.
THEOREM OutputsVerify == Spec => []OutputVerifies
<1>1. IInv => OutputVerifies
  <2> SUFFICES ASSUME IInv, NEW p \in Assemblers, FileOf(p, "output")
               PROVE  /\ VerifiedArchive(files["output"].archive, Version)
                      /\ \A q \in Platforms :
                           Cardinality({i \in Images(files["output"].archive) :
                                          i.arch = q /\ i.configArch = q}) = 1
    BY DEF OutputVerifies
  <2>1. Faithful(p) /\ mode \in {"inline", "detached"}
    BY DEF IInv, TypeInv
  <2>2. files["output"].archive = temporary[p] /\ Whole(p)
    BY <2>1 DEF Faithful, FileNames, Published
  <2> QED
    BY <2>1, <2>2, WholeVerifies
<1> QED
  BY <1>1, AssemblyInvariant, PTL

\* Evidence beside an output is about the archives that are in it: those of
\* the receipts, tested in this attempt, with provenance for each platform.
THEOREM EvidenceTellsTruth == Spec => []EvidenceIsTrue
<1>1. IInv => EvidenceIsTrue
  <2> SUFFICES ASSUME IInv, NEW p \in Assemblers, FileOf(p, "output"),
                      FileOf(p, "evidence")
               PROVE  LET archive == files["output"].archive
                          told == files["evidence"].builds
                          beside == IF mode = "inline" THEN archive.manifests
                                    ELSE UNION {files["output"].inputs[q].manifests :
                                                  q \in Platforms}
                      IN /\ archive.absent = {}
                         /\ Images(archive) =
                              UNION {Images(told[q].receipt.archive) : q \in Platforms}
                         /\ beside = UNION {told[q].receipt.archive.manifests :
                                              q \in Platforms}
                         /\ \A q \in Platforms :
                              /\ Provenance(told[q].receipt.archive) # {}
                              /\ told[q].build.attempt = Attempt
                              /\ \E i \in Images(archive) :
                                   i.arch = q /\ i.config = told[q].build.config
    BY DEF EvidenceIsTrue
  <2> DEFINE archive == temporary[p]
             told == builds[p]
  <2>1. Faithful(p) /\ mode \in {"inline", "detached"}
    BY DEF IInv, TypeInv
  <2>2. /\ files["output"].archive = archive /\ files["output"].inputs = opened[p]
        /\ files["evidence"].builds = told /\ Whole(p) /\ Proven(p)
    BY <2>1 DEF Faithful, FileNames, Published
  <2>3. \A q \in Platforms :
          /\ told[q].receipt.archive = opened[p][q]
          /\ ConfigOf(opened[p][q]) = {told[q].build.config}
          /\ Provenance(opened[p][q]) # {}
          /\ told[q].build.attempt = Attempt
    BY <2>2 DEF Proven, Bound, Whole, Read
  <2>4. /\ archive.absent = {}
        /\ Images(archive) = UNION {Images(opened[p][q]) : q \in Platforms}
        /\ mode = "inline" =>
             archive.manifests = UNION {opened[p][q].manifests : q \in Platforms}
    BY <2>1, <2>2, MadeManifests DEF Whole
  <2>5. /\ UNION {Images(told[q].receipt.archive) : q \in Platforms} =
             UNION {Images(opened[p][q]) : q \in Platforms}
        /\ UNION {told[q].receipt.archive.manifests : q \in Platforms} =
             UNION {opened[p][q].manifests : q \in Platforms}
    BY <2>3
  <2>6. ASSUME NEW q \in Platforms
        PROVE  \E i \in Images(archive) : i.arch = q /\ i.config = told[q].build.config
    <3>1. PICK i \in Images(archive) : i.arch = q /\ i \in Images(opened[p][q])
      BY <2>1, <2>2, WholeVerifies
    <3>2. i.config \in ConfigOf(opened[p][q])
      BY <3>1 DEF ConfigOf
    <3> QED
      BY <2>3, <3>1, <3>2
  <2>7. (IF mode = "inline" THEN archive.manifests
         ELSE UNION {opened[p][q].manifests : q \in Platforms})
          = UNION {told[q].receipt.archive.manifests : q \in Platforms}
    BY <2>4, <2>5
  <2> QED
    BY <2>2, <2>3, <2>4, <2>5, <2>6, <2>7
<1> QED
  BY <1>1, AssemblyInvariant, PTL

\* An assembler that succeeds has all of its files, one that fails leaves
\* those only whose removal failed, and files of two assemblers lie side by
\* side only once one of them withdraws its own.
THEOREM SetsAreWhole == Spec => []SetIsWhole
<1>1. ASSUME IInv PROVE SetIsWhole
  <2> SUFFICES ASSUME NEW p \in Assemblers
               PROVE  /\ step[p] = "done" => \A i \in DOMAIN Names :
                           FileOf(p, Names[i]) \/ files[Names[i]].by = Foreign
                      /\ step[p] = "failed" => \A n \in FileNames :
                           FileOf(p, n) => <<p, n>> \in stuck
                      /\ \A o \in Assemblers \ {p}, n, m \in FileNames :
                           FileOf(p, n) /\ FileOf(o, m) => Withdraws(p) \/ Withdraws(o)
    BY DEF SetIsWhole
  <2>1. Cleared(p) /\ Kept(p) /\ mode \in {"inline", "detached"}
    BY <1>1 DEF IInv, TypeInv
  <2>2. ASSUME step[p] = "done", NEW i \in DOMAIN Names
        PROVE  FileOf(p, Names[i]) \/ files[Names[i]].by = Foreign
    <3>1. Names[i] \in FileNames /\ step[p] \in After(Names[i])
      <4>1. CASE mode = "inline"
        <5>1. Names = <<"output", "evidence">>
          BY <4>1 DEF Names
        <5>2. i = 1 \/ i = 2
          BY <2>2, <5>1
        <5> QED
          BY <2>2, <4>1, <5>1, <5>2 DEF After, FileNames
      <4>2. CASE mode = "detached"
        <5>1. Names = <<"output", "sidecar", "evidence">>
          BY <4>2 DEF Names
        <5>2. i = 1 \/ i = 2 \/ i = 3
          BY <2>2, <5>1
        <5> QED
          BY <2>2, <4>2, <5>1, <5>2 DEF After, FileNames
      <4> QED
        BY <2>1, <4>1, <4>2
    <3> QED
      BY <2>1, <3>1 DEF Kept
  <2>3. step[p] = "failed" => \A n \in FileNames : FileOf(p, n) => <<p, n>> \in stuck
    BY <2>1, PastNames DEF Cleared, FileNames
  <2>4. \A o \in Assemblers \ {p}, n, m \in FileNames :
          FileOf(p, n) /\ FileOf(o, m) => Withdraws(p) \/ Withdraws(o)
    BY <1>1 DEF IInv, Exclusive, Stays, Holds
  <2> QED
    BY <2>2, <2>3, <2>4
<1> QED
  BY <1>1, AssemblyInvariant, PTL

\* Detached outputs are published and withdrawn without touching files of
\* others: a file loses its name to another program, or to the removal by the
\* process that published it or has just seen its own file there.
THEOREM OthersAreSpared == Spec => OthersKeepTheirNames
<1>1. IInv /\ [Next]_vars =>
        [mode = "detached" =>
           \A n \in FileNames :
             files[n].by # None /\ files'[n].by # files[n].by =>
               \/ files'[n].by = Foreign
               \/ \E p \in Assemblers : /\ files[n].by \in {p, Foreign}
                                       /\ step[p] = Removal(n)]_vars
  <2> SUFFICES ASSUME IInv, Next, mode = "detached", NEW n \in FileNames,
                      files[n].by # None, files'[n].by # files[n].by
               PROVE  \/ files'[n].by = Foreign
                      \/ \E p \in Assemblers : /\ files[n].by \in {p, Foreign}
                                              /\ step[p] = Removal(n)
    OBVIOUS
  <2>1. TypeInv
    BY DEF IInv
  <2>2. ASSUME NEW p \in Assemblers, Prepares(p) PROVE FALSE
    BY <2>1, <2>2, PrepareEffect
  <2>3. ASSUME NEW p \in Assemblers, NEW m \in FileNames, Publish(p, m) PROVE FALSE
    <3>1. m # n
      BY <2>3 DEF Publish, Vacant
    <3>2. files' = [files EXCEPT ![m] = Published(p)]
      BY <2>3 DEF Publish
    <3> QED
      BY <2>1, <3>1, <3>2 DEF TypeInv
  <2>4. ASSUME NEW p \in Assemblers, Stops(p)
        PROVE  files[n].by \in {p, Foreign} /\ step[p] = Removal(n)
    <3>1. CASE Fail(p) \/ Kill(p)
      BY <3>1 DEF Fail, Kill, outputVars
    <3>2. CASE Discard(p)
      BY <3>2 DEF Discard
    <3>3. ASSUME NEW m \in FileNames, LookAtName(p, m) PROVE FALSE
      BY <3>3 DEF LookAtName
    <3>4. ASSUME NEW m \in FileNames, RemoveName(p, m)
          PROVE  files[n].by \in {p, Foreign} /\ step[p] = Removal(n)
      <4>1. step[p] = Removal(m) /\ m = n
        BY <2>1, <3>4 DEF RemoveName, Unlink, TypeInv
      <4> QED
        BY <4>1 DEF IInv, Pending
    <3> QED
      BY <2>4, <3>1, <3>2, <3>3, <3>4 DEF Stops
  <2>5. ASSUME NEW m \in FileNames, Take(m) PROVE files'[n].by = Foreign
    BY <2>1, <2>5 DEF Take, TypeInv, FileBy
  <2>6. ASSUME NEW q \in Platforms, Rewrite(q) \/ \E parts : Replace(q, parts)
        PROVE  FALSE
    BY <2>6 DEF Rewrite, Replace, outputVars
  <2> QED
    BY <2>2, <2>3, <2>4, <2>5, <2>6, NextCases
<1> QED
  BY <1>1, AssemblyInvariant, PTL DEF Spec, OthersKeepTheirNames
=============================================================================
