-------------------------- MODULE MCNativeAssembly --------------------------
(* Builds for two assemblers: good ones of two attempts, and archives that *)
(* a check has to refuse, each with the files of the current attempt.      *)
EXTENDS NativeAssembly, TLC

Image(q, digest) ==
  [type |-> "image", digest |-> digest, config |-> digest \o "/config", arch |-> q,
   configArch |-> q, version |-> Version]
Attestation(digest, style, subject) ==
  [type |-> "attestation", digest |-> digest, style |-> style, subject |-> subject,
   subjectArch |-> None, reference |-> subject, statement |-> {subject},
   predicate |-> "provenance"]

Archived(manifests) == [manifests |-> manifests, absent |-> {}]
Good(q, digest) ==
  Archived({Image(q, digest), Attestation(digest \o "/statement", "artifact", digest)})

Package(archive, attempt, config) ==
  LET build == [config |-> config, attempt |-> attempt] IN
  [archive |-> archive, build |-> build,
   receipt |-> [archive |-> archive, build |-> build]]
Built(archive, digest) == Package(archive, Attempt, digest \o "/config")

MCPackages ==
  ("amd64" :> {Built(Good("amd64", "a"), "a"),
               Built(Good("amd64", "b"), "b"),
               Package(Good("amd64", "a"), 1, "a/config"),
               Built(Archived({Image("amd64", "a")}), "a"),
               Built(Archived({Image("amd64", "a"), Image("amd64", "b")}), "a"),
               Built(Archived({Image("amd64", "a"),
                               Attestation("x", "artifact", "a/statement")}), "a")}) @@
  ("arm64" :> {Built(Good("arm64", "c"), "c"),
               Built(Archived({Image("arm64", "c"),
                               Attestation("c/statement", "legacy", "c")}), "c"),
               Built(Good("amd64", "a"), "a"),
               Package(Good("arm64", "c"), Attempt, "d/config")})
=============================================================================
