--------------------------- MODULE ReleaseLedger ----------------------------
(***************************************************************************)
(* The version ledger of scripts/release_state.py: one JSON file on a      *)
(* branch of its own, read whole and replaced by compare-and-swap on its   *)
(* blob.  A run reserves one immutable plan, and a publication consumes    *)
(* the plan's build number by raising the floor to it.                     *)
(***************************************************************************)
EXTENDS Integers, FiniteSets, FiniteSetsExt

CONSTANTS
  Runs,          \* Actions run IDs, ordered: a set of naturals
  Commits,       \* commits of the default branch
  Bases,         \* base versions X.Y.Z
  PolicyFloor,   \* versioning.build_number_floor of the policy
  NumberLimit,   \* largest native build number (2100000000 in the code)
  NoPlan         \* no reservation

ASSUME RunsAssumption == Runs \subseteq Nat \ {0} /\ IsFiniteSet(Runs)
ASSUME FloorAssumption == PolicyFloor \in Nat /\ NumberLimit \in Nat
ASSUME SentinelAssumption ==
  NoPlan \notin [base : Bases, channel : {"nightly", "beta", "rc", "stable"},
                 seq : Nat, sha : Commits, number : Nat]

VARIABLE ledger

Channels == {"nightly", "beta", "rc", "stable"}
Tag == [base : Bases, channel : Channels, seq : Nat]
Plan == [base : Bases, channel : Channels, seq : Nat, sha : Commits,
         number : Nat]
Ledger == [counter : Nat, floor : Nat, plans : [Runs -> Plan \cup {NoPlan}]]

(* Plan names its tag: the version text is injective in these three.       *)
TagOf(plan) == [base |-> plan.base, channel |-> plan.channel, seq |-> plan.seq]
StableTag(base) == [base |-> base, channel |-> "stable", seq |-> 0]

(* What read_state insists on: an unreadable ledger stops every run.       *)
Readable(state) ==
  /\ state.floor <= state.counter
  /\ \A r \in Runs : state.plans[r] # NoPlan =>
                       state.plans[r].number <= state.counter

(* An absent file reads as the empty ledger.                               *)
EmptyLedger == [counter |-> 0, floor |-> 0, plans |-> [r \in Runs |-> NoPlan]]

Reserved(state) == {state.plans[r] : r \in Runs} \ {NoPlan}

Greater(m, n) == IF m > n THEN m ELSE n

(* reserve_plan, the two decisions: the next sequence skips every tag,     *)
(* every release and every reservation of the same base and channel; the   *)
(* build number is one above the counter and the policy's floor.           *)
NextSequence(state, base, channel, listed) ==
  LET same == {p \in Reserved(state) : p.base = base /\ p.channel = channel}
      named == {t \in listed : t.base = base /\ t.channel = channel}
  IN 1 + Max({0} \cup {t.seq : t \in named} \cup {p.seq : p \in same})

(* Bug: above the numbers that were consumed. *)
NumberAboveFloor(state) == Greater(state.floor, PolicyFloor) + 1
NextNumber(state) == Greater(state.counter, PolicyFloor) + 1

WithReservation(state, r, plan) ==
  [state EXCEPT !.counter = plan.number, !.plans[r] = plan]
WithFloor(state, number) == [state EXCEPT !.floor = number]

(* Bug: a consumed number may be published again. *)
ReservationUnspent(state, r, plan, published) ==
  /\ plan # NoPlan /\ state.plans[r] = plan
  /\ \A p \in Reserved(state) :
       TagOf(p) \in published => p.number < plan.number

(* _verify_reservation: the record is the plan, its number has not been    *)
(* consumed, and nothing with this or a newer number is public.            *)
VerifyReservation(state, r, plan, published) ==
  /\ plan # NoPlan /\ state.plans[r] = plan
  /\ plan.number > state.floor
  /\ \A p \in Reserved(state) :
       TagOf(p) \in published => p.number < plan.number

(* Bug: any public candidate may be promoted. *)
PromotionUnordered(state, plan, published) ==
  /\ plan # NoPlan /\ plan.channel = "rc"
  /\ TagOf(plan) \in published

(* _verify_promotion_order: the accepted RC is public, reserved once, not  *)
(* below the floor, and no other public package has a newer number.        *)
VerifyPromotionOrder(state, plan, published) ==
  /\ plan # NoPlan /\ plan.channel = "rc"
  /\ Cardinality({r \in Runs : state.plans[r] = plan}) = 1
  /\ plan.number >= state.floor
  /\ TagOf(plan) \in published
  /\ \A p \in Reserved(state) :
       TagOf(p) # TagOf(plan) /\ TagOf(p) \in published
         => p.number <= plan.number

(* Bug: the write does not name the blob it replaces. *)
WriteAnyway(was, state, fate) ==
  IF fate # "refused" THEN ledger' = state ELSE UNCHANGED ledger

(* write_state: GitHub replaces the file only when the blob it names is    *)
(* the current one.  fate says what became of a request that could land.   *)
WriteState(was, state, fate) ==
  IF ledger = was /\ fate # "refused" THEN ledger' = state
  ELSE UNCHANGED ledger

(* Bug: only a refusal stops the client. *)
WrittenUnlessRefused(was, fate) == fate # "refused"

(* The client knows the write landed only in one of the three fates.       *)
Written(was, fate) == ledger = was /\ fate = "confirmed"
=============================================================================
