--------------------------- MODULE VersionChoice ----------------------------
(***************************************************************************)
(* Which base version the next release cycle gets                          *)
(* (scripts/prepare_version.py): pure operators over <<major, minor,       *)
(* patch>>.  taken is the set of bases that already have a stable tag.     *)
(***************************************************************************)
EXTENDS Integers, FiniteSets, FiniteSetsExt

Bumps == {"next-patch", "patch", "minor", "major"}

Older(a, b) ==
  \/ a[1] < b[1]
  \/ a[1] = b[1] /\ a[2] < b[2]
  \/ a[1] = b[1] /\ a[2] = b[2] /\ a[3] < b[3]

Latest(bases) == CHOOSE b \in bases : \A c \in bases : ~Older(b, c)

BumpedVersion(current, taken, bump) ==
  CASE bump = "major" -> <<current[1] + 1, 0, 0>>
    [] bump = "minor" -> <<current[1], current[2] + 1, 0>>
    [] bump = "patch" -> <<current[1], current[2], current[3] + 1>>
    [] OTHER -> IF taken = {} \/ \A b \in taken : Older(b, current)
                THEN current
                ELSE LET newest == Latest(taken)
                     IN <<newest[1], newest[2], newest[3] + 1>>

(* The first patch at or above the given one that is not taken.            *)
FreePatch(base, taken) ==
  LET patches == base[3] .. base[3] + Cardinality(taken)
      free == {p \in patches : <<base[1], base[2], p>> \notin taken}
  IN <<base[1], base[2], Min(free)>>

(* The bases choose_version accepts: one, or none when it raises.          *)
ChooseVersion(current, taken, bump) ==
  LET selected == BumpedVersion(current, taken, bump) IN
  IF Older(selected, current) THEN {}
  ELSE IF bump = "next-patch" THEN {FreePatch(selected, taken)}
  ELSE {selected} \ taken
=============================================================================
