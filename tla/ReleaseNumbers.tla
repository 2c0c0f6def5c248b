--------------------------- MODULE ReleaseNumbers ---------------------------
(***************************************************************************)
(* What the release tooling promises about native build numbers, without   *)
(* GitHub, ledgers or retries: each run gets at most one number, higher    *)
(* than all before it; a number is spent once, in increasing order; only a *)
(* spent number reaches the public.                                        *)
(***************************************************************************)
EXTENDS Naturals

CONSTANT Runs

VARIABLES
  numbers,       \* run -> its build number, 0 for none
  floor,         \* the last number spent
  public         \* numbers of packages the public can install

Start ==
  /\ numbers = [r \in Runs |-> 0] /\ floor = 0 /\ public = {}

Allocate(r) ==
  /\ numbers[r] = 0
  /\ \A q \in Runs : numbers'[r] > numbers[q]
  /\ numbers'[r] > floor
  /\ numbers' = [numbers EXCEPT ![r] = numbers'[r]]
  /\ UNCHANGED <<floor, public>>

Spend(r) ==
  /\ numbers[r] > floor /\ floor' = numbers[r]
  /\ UNCHANGED <<numbers, public>>

Announce(r) ==
  /\ numbers[r] \in 1 .. floor /\ public' = public \cup {numbers[r]}
  /\ UNCHANGED <<numbers, floor>>

Change == \E r \in Runs : Allocate(r) \/ Spend(r) \/ Announce(r)

Promise == Start /\ [][Change]_<<numbers, floor, public>>
=============================================================================
