----------------------------- MODULE OciArchive -----------------------------
(***************************************************************************)
(* OCI image archives and the programs that judge them: the merger of      *)
(* native builds (class Archive, scripts/merge_oci_archives.py), the       *)
(* verifier of detached provenance (scripts/release_provenance.py) and the *)
(* release verifier (class _OciMetadata, scripts/version_plan.py).  Pure   *)
(* operators.                                                              *)
(*                                                                         *)
(* An archive is [manifests, absent]: the manifests its indexes lead to,   *)
(* and the digests whose blobs it lacks.  A digest stands for the bytes.   *)
(*   image        [type, digest, config, arch, configArch, version]        *)
(*   attestation  [type, digest, style, subject, subjectArch, reference,   *)
(*                 statement, predicate]                                   *)
(* style is "artifact" (subject field) or "legacy" (annotation only);      *)
(* statement is the set of subjects of the in-toto statement.              *)
(***************************************************************************)
EXTENDS FiniteSets

CONSTANT None     \* an optional field that is not there

Platforms == {"amd64", "arm64"}

Images(archive) == {m \in archive.manifests : m.type = "image"}
Attestations(archive) == {m \in archive.manifests : m.type = "attestation"}

(* What the walk over the indexes of any archive ends with.                *)
Parsed(archive) ==
  /\ DOMAIN archive = {"manifests", "absent"} /\ IsFiniteSet(archive.manifests)
  /\ \A a \in Attestations(archive) : a.style \in {"artifact", "legacy"}

(* Every descriptor leads to a blob of the archive: manifests, configs.    *)
Complete(archive) ==
  /\ \A m \in archive.manifests : m.digest \notin archive.absent
  /\ \A i \in Images(archive) : i.config \notin archive.absent

-----------------------------------------------------------------------------
(* The merger.                                                             *)

NativeImage(image, platform, version) ==
  /\ image.arch = platform /\ image.configArch = platform
  /\ image.version = version

Subject(attestation) ==
  IF attestation.style = "artifact" THEN attestation.subject
  ELSE attestation.reference

NativeAttestation(attestation, platform) ==
  /\ CASE attestation.style = "artifact" ->
            /\ attestation.subjectArch \in {None, platform}
            /\ attestation.reference \in {None, attestation.subject}
       [] attestation.style = "legacy" -> attestation.reference # None
  /\ Subject(attestation) \in attestation.statement

(* validate_complete_graph: one image, and all attestations are about it.  *)
CompleteGraph(archive) ==
  /\ Cardinality(Images(archive)) = 1
  /\ \A a \in Attestations(archive), i \in Images(archive) : Subject(a) = i.digest

(* Bug: the graph is not looked at as a whole. *)
NativeLeaves(archive, platform, version) ==
  /\ Complete(archive)
  /\ \A i \in Images(archive) : NativeImage(i, platform, version)
  /\ \A a \in Attestations(archive) : NativeAttestation(a, platform)
NativeArchive(archive, platform, version) ==
  /\ Complete(archive)
  /\ \A i \in Images(archive) : NativeImage(i, platform, version)
  /\ \A a \in Attestations(archive) : NativeAttestation(a, platform)
  /\ CompleteGraph(archive)

(* merge_archives: one index over all manifests, and every blob.           *)
Merged(archives) ==
  [manifests |-> UNION {archives[p].manifests : p \in Platforms},
   absent |-> UNION {archives[p].absent : p \in Platforms}]

(* detach: only the images; their attestations go to the sidecar.          *)
Runtime(archives) ==
  [Merged(archives) EXCEPT !.manifests = UNION {Images(archives[p]) : p \in Platforms}]

(* What the merger reports of an image and its attestations.               *)
ConfigOf(archive) == {i.config : i \in Images(archive)}
Provenance(archive) == {a \in Attestations(archive) : a.predicate = "provenance"}

(* RuntimeArchive: the images of both platforms and nothing else.          *)
RuntimeArchive(archive, version) ==
  /\ Complete(archive) /\ Attestations(archive) = {}
  /\ Cardinality(Images(archive)) = Cardinality(Platforms)
  /\ \A p \in Platforms : \E i \in Images(archive) : NativeImage(i, p, version)

(* EvidenceArchive: the graph the platform's input had, around the image.  *)
EvidenceArchive(archive, graph, platform, version) ==
  /\ NativeArchive(graph, platform, version)
  /\ Images(graph) = {i \in Images(archive) : i.arch = platform}
  /\ Provenance(graph) # {}

VerifiedPair(archive, graphs, version) ==
  /\ RuntimeArchive(archive, version)
  /\ \A p \in Platforms : EvidenceArchive(archive, graphs[p], p, version)

-----------------------------------------------------------------------------
(* The verifier.                                                           *)

RunnableImage(image, version) ==
  image.arch \in {None, image.configArch} /\ image.version = version

(* An artifact's subject is a descriptor, a legacy reference a digest, of  *)
(* an image of the archive.                                                *)
AttachedTo(attestation, images) ==
  CASE attestation.style = "artifact" ->
         /\ attestation.reference \in {None, attestation.subject}
         /\ \E i \in images : /\ i.digest = attestation.subject
                              /\ attestation.subjectArch \in {None, i.configArch}
    [] attestation.style = "legacy" ->
         attestation.reference \in {None} \cup {i.digest : i \in images}

(* Its own walk over the descriptors, each of which it reads.              *)
Walked(archive) ==
  LET read == {m.digest : m \in archive.manifests} \cup ConfigOf(archive)
  IN read \cap archive.absent = {}

VerifiedArchive(archive, version) ==
  /\ Walked(archive) /\ Images(archive) # {}
  /\ \A i \in Images(archive) : RunnableImage(i, version)
  /\ \A a \in Attestations(archive) : AttachedTo(a, Images(archive))
=============================================================================
