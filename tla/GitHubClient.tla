---------------------------- MODULE GitHubClient ----------------------------
(***************************************************************************)
(* How the release tooling turns one `gh api` process into an answer       *)
(* (class GitHub in scripts/release_control.py): reads are repeated as a   *)
(* whole, writes never, and "absent" needs a complete 404.  Only constant- *)
(* level operators: the state is in the modules that use them.             *)
(***************************************************************************)
EXTENDS Naturals

(* What one GET process leaves behind: the status line it printed ("lost"  *)
(* when the framing is broken or missing), whether stderr names a dropped  *)
(* connection, whether stdout or stderr carries a denial, a zero exit, and *)
(* whether the process ran out of time.                                    *)
Attempt == [http : {"lost", "ok", "missing", "denied", "unavailable"},
            dropped : BOOLEAN, denial : BOOLEAN, zero : BOOLEAN,
            late : BOOLEAN]

(* The attempts GitHub and the transport can produce for a resource.       *)
Possible(present) ==
  {a \in Attempt : /\ a.http = "ok" => present
                   /\ a.http = "missing" => ~present
                   /\ a.zero => a.http \in {"ok", "lost"} /\ ~a.dropped
                   /\ a.http \in {"missing", "denied"} => a.denial}

Transport(a) == ~a.zero /\ ~a.denial /\ a.dropped

(* Bug: a denied read counts as a missing resource. *)
ResponseDeniedIsAbsent(a) ==
  CASE a.http = "ok" -> "found"
    [] a.http \in {"missing", "denied"} -> "absent"
    [] OTHER -> "error"

Response(a) ==
  IF a.zero # (a.http = "ok") THEN "error"
  ELSE CASE a.http = "ok" -> "found"
         [] a.http = "missing" -> "absent"
         [] OTHER -> "error"

(* A result, or "again" when another attempt is allowed.                   *)
CompletedRead(a, final) ==
  CASE a.late -> IF a.denial \/ final THEN "error" ELSE "again"
    [] ~a.late /\ a.http = "lost" ->
         IF ~Transport(a) \/ final THEN "error" ELSE "again"
    [] OTHER ->
         IF /\ ~final /\ ~a.zero
            /\ \/ a.http = "unavailable" /\ ~a.denial
               \/ a.http = "ok" /\ Transport(a)
         THEN "again" ELSE Response(a)

(* Every answer optional() can give after at most three attempts.          *)
Reads(present) ==
  {CompletedRead(a, final) : a \in Possible(present), final \in BOOLEAN}
    \ {"again"}

(* The single POST that creates a draft: what the reply looks like, and    *)
(* what create_release_once makes of it.                                   *)
Reply == [http : {"lost", "201", "2xx", "4xx", "5xx"},
          dropped : BOOLEAN, denial : BOOLEAN, late : BOOLEAN,
          body : {"whole", "cut", "wrong"}]

PossibleReply(applied) ==
  {p \in Reply : /\ p.http \in {"201", "2xx"} => applied
                 /\ p.http = "4xx" => ~applied
                 /\ p.denial => ~applied}

CreateOnce(p) ==
  LET denied == p.denial \/ p.http = "4xx" IN
  CASE p.late -> IF denied THEN "rejected" ELSE "ambiguous"
    [] ~p.late /\ denied -> "rejected"
    [] ~p.late /\ ~denied /\ p.http = "lost" ->
         IF p.dropped THEN "ambiguous" ELSE "rejected"
    [] ~p.late /\ ~denied /\ p.http # "lost" ->
         IF p.http = "5xx" \/ p.dropped THEN "ambiguous"
         ELSE IF p.http # "201" \/ p.body = "wrong" THEN "rejected"
         ELSE IF p.body = "cut" THEN "ambiguous" ELSE "created"

Creates(applied) == {CreateOnce(p) : p \in PossibleReply(applied)}

(* Any other write is sent once: it took effect and was confirmed, took    *)
(* effect and was not confirmed, or did not take effect.                   *)
WriteFates == {"confirmed", "unconfirmed", "refused"}
=============================================================================
