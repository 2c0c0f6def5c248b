-------------------------- MODULE PublicationProofs --------------------------
(* Theorems about what the public gets, for every value of the constants:  *)
(* the order of publications while runs do not overlap, and the images of  *)
(* the registry.                                                           *)
EXTENDS ReleaseProofs, RegistryPublication

(* While runs do not overlap, a run that is about to publish is alone, has *)
(* the newest number, and the final version of its base is not there yet.  *)
Alone == \A q, r \in Runs : pc[q] \in Active /\ pc[r] \in Active => q = r
Newest(r) ==
  pc[r] \in {"consume"} \cup Spent =>
    \A y \in releases : ~y.draft => y.plan.number <= plan[r].number
FinalAbsent(r) ==
  /\ pc[r] \in {"staged", "begin", "consume"} \cup Spent
  /\ ~Promotion(r) /\ plan[r].channel \in {"beta", "rc"}
  => StableTag(plan[r].base) \notin Tagged

SerialInv ==
  slots = 1 => Alone /\ \A r \in Runs : Newest(r) /\ FinalAbsent(r)

\* With one slot, a run that takes a step is the only one at work.
LEMMA StepAlone ==
  ASSUME IInv, slots = 1, Alone, NEW r \in Runs, Step(r)
  PROVE  \A q \in Runs : q # r => pc[q] \notin Active /\ pc'[q] \notin Active
<1>1. RunTypes
  BY TypeParts DEF IInv
<1>2. ASSUME NEW q \in Runs, q # r PROVE pc[q] \notin Active
  <2>1. CASE Start(r)
    <3> DEFINE busy == {p \in Runs : pc[p] \in Active}
    <3>1. Cardinality(busy) < 1
      BY <2>1 DEF Start
    <3>2. IsFiniteSet(busy)
      BY RunsAssumption, FS_Subset
    <3>3. Cardinality(busy) = 0
      BY <3>1, <3>2, FS_CardinalityType
    <3>4. busy = {}
      BY <3>2, <3>3, FS_EmptySet
    <3> QED
      BY <3>4
  <2>2. CASE pc[r] \in Active
    BY <1>2, <2>2 DEF Alone
  <2>3. Start(r) \/ pc[r] \in Active
    BY DEF Step, Fail, PrepareFinal, CloseCycle, ReadLedger, CreatePlan,
       CreateBranch, Reserve, Supersede, Check, Reuse, Recheck, ReadCandidate,
       CopyCandidate, BeginPublication, Consume, PushTag, CreateDraft, Reconcile,
       Reread, Upload, Confirm, Publish, KeepEvidence, Active
  <2> QED
    BY <2>1, <2>2, <2>3
<1>3. \A q \in Runs : q # r => pc'[q] = pc[q]
  BY <1>1, StepElsewhere DEF Elsewhere
<1> QED
  BY <1>2, <1>3

\* The checks at the start of a publication see every public package: its
\* plan is reserved, and the tag of that plan is public.
LEMMA BegunIsNewest ==
  ASSUME IInv, NEW r \in Runs, BeginPublication(r), pc'[r] = "consume",
         NEW y \in releases, ~y.draft
  PROVE  y.plan.number <= plan[r].number
<1>1. /\ plan[r] \in Reserved(ledger)
      /\ IF Promotion(r) THEN VerifyPromotionOrder(ledger, plan[r], Published)
         ELSE VerifyReservation(ledger, r, plan[r], Published)
  BY BegunKnows DEF IInv
<1>2. y.plan \in Reserved(ledger) /\ TagOf(y.plan) \in Published
  <2>1. ReleaseOK(y) /\ y.tag \in Published
    BY DEF IInv, PublicationInv, Published
  <2> QED
    BY <2>1 DEF ReleaseOK
<1>3. y.plan.number \in Nat /\ plan[r].number \in Nat
  BY <1>1, <1>2, ReservedMember, TypeParts DEF IInv, LedgerTypes, Ledger, Plan
<1>4. CASE TagOf(y.plan) = TagOf(plan[r])
  <2>1. PICK p \in Runs : y.plan = ledger.plans[p] /\ y.plan # NoPlan
    BY <1>2, ReservedMember
  <2>2. PICK q \in Runs : plan[r] = ledger.plans[q] /\ plan[r] # NoPlan
    BY <1>1, ReservedMember
  <2>3. p = q
    BY <1>4, <2>1, <2>2 DEF IInv, LedgerInv, Distinct
  <2> QED
    BY <1>3, <2>1, <2>2, <2>3
<1>5. CASE TagOf(y.plan) # TagOf(plan[r])
  BY <1>1, <1>2, <1>3, <1>5 DEF VerifyPromotionOrder, VerifyReservation
<1> QED
  BY <1>4, <1>5

LEMMA NewestStep ==
  ASSUME IInv, SerialInv, slots = 1, NEW r \in Runs, Step(r)
  PROVE  Newest(r)'
<1>1. RunTypes /\ LedgerTypes
  BY TypeParts DEF IInv
<1> SUFFICES ASSUME pc'[r] \in {"consume"} \cup Spent, NEW y \in releases', ~y.draft
             PROVE  y.plan.number <= plan'[r].number
  BY DEF Newest
<1>2. plan' = plan
  BY <1>1, SpentStep
<1>3. CASE BeginPublication(r) /\ pc'[r] = "consume"
  <2>1. releases' = releases
    BY <1>3 DEF BeginPublication, hub
  <2> QED
    BY <1>2, <1>3, <2>1, BegunIsNewest
<1>4. CASE pc[r] \in {"consume"} \cup Spent
  <2>1. CASE y \in releases
    BY <1>2, <1>4, <2>1 DEF SerialInv, Newest
  <2>2. CASE y \notin releases
    <3>1. y.plan = plan[r] /\ pc[r] \in Spent
      BY <2>2, ReleaseStep DEF Named
    <3>2. plan[r].number \in Nat
      BY <1>1, <3>1, ReservedMember DEF IInv, LedgerInv, Knows, LedgerTypes,
                                        Ledger, Plan
    <3> QED
      BY <1>2, <3>1, <3>2
  <2> QED
    BY <2>1, <2>2
<1> QED
  BY <1>1, <1>3, <1>4, SpentStep DEF Spent

LEMMA FinalAbsentStep ==
  ASSUME IInv, SerialInv, slots = 1, NEW r \in Runs, Step(r)
  PROVE  FinalAbsent(r)'
<1>1. RunTypes /\ JobsOK /\ FinalAbsent(r)
  BY TypeParts DEF IInv, SerialInv
<1> SUFFICES ASSUME pc'[r] \in {"staged", "begin", "consume"} \cup Spent,
                    ~Promotion(r)', plan'[r].channel \in {"beta", "rc"}
             PROVE  StableTag(plan'[r].base) \notin Tagged'
  BY DEF FinalAbsent
<1>2. CASE pc'[r] = "staged"
  <2>1. Check(r)
    BY <1>1, <1>2, StepStage DEF Ended
  <2>2. plan' = plan /\ tags' = tags
    BY <2>1 DEF Check, hub
  <2>3. EnsureAbsent(StableTag(plan[r].base))
    BY <2>1, <2>2 DEF Check
  <2>4. StableTag(plan[r].base) \notin Tagged
    BY <2>3, AbsentIsAbsent DEF EnsureAbsent
  <2> QED
    BY <2>2, <2>4 DEF Tagged
<1>3. CASE pc'[r] = "begin"
  <2>1. Recheck(r) \/ CopyCandidate(r)
    BY <1>1, <1>3, StepStage DEF Ended
  <2>2. plan' = plan /\ tags' = tags /\ job' = job
    BY <2>1 DEF Recheck, CopyCandidate, hub
  <2>3. ~Promotion(r)
    BY <2>2 DEF Promotion
  <2>4. pc[r] = "staged"
    BY <1>1, <2>1, <2>3 DEF Recheck, CopyCandidate, JobsOK
  <2> QED
    BY <1>1, <2>2, <2>3, <2>4 DEF FinalAbsent, Tagged
<1>4. CASE pc'[r] \in {"consume"} \cup Spent
  <2>1. UNCHANGED <<job, plan>>
        /\ pc[r] \in {"staged", "begin", "consume"} \cup Spent
    BY <1>1, <1>4, SpentStep DEF Spent
  <2>2. ~Promotion(r) /\ plan[r].channel \in {"beta", "rc"}
    BY <2>1 DEF Promotion
  <2>3. StableTag(plan[r].base) \notin Tagged
    BY <1>1, <2>1, <2>2 DEF FinalAbsent
  <2>4. \A t \in tags' : t \in tags \/ t.tag = TagOf(plan[r])
    BY <2>2, TagStep DEF WorkTag
  <2>5. TagOf(plan[r]) # StableTag(plan[r].base)
    BY <2>2 DEF TagOf, StableTag
  <2> QED
    BY <2>1, <2>3, <2>4, <2>5 DEF Tagged
<1> QED
  BY <1>2, <1>3, <1>4

LEMMA SerialStep ==
  ASSUME IInv, SerialInv, [Next]_vars
  PROVE  SerialInv'
<1>1. CASE Arrives
  <2>1. /\ UNCHANGED <<slots, tags, releases, plan>>
        /\ \A q \in Runs : \/ pc'[q] = pc[q] /\ job'[q] = job[q]
                           \/ pc'[q] \in {"queued", "cancelled"}
    BY <1>1, ArrivalEffect DEF IInv
  <2> SUFFICES ASSUME slots = 1
               PROVE  Alone' /\ \A q \in Runs : Newest(q)' /\ FinalAbsent(q)'
    BY <2>1 DEF SerialInv
  <2>2. Alone'
    BY <2>1 DEF SerialInv, Alone, Active
  <2>3. ASSUME NEW q \in Runs PROVE Newest(q)' /\ FinalAbsent(q)'
    <3>1. Newest(q) /\ FinalAbsent(q)
      BY DEF SerialInv
    <3>2. CASE pc'[q] = pc[q] /\ job'[q] = job[q]
      BY <2>1, <3>1, <3>2 DEF Newest, FinalAbsent, Promotion, Tagged
    <3>3. CASE pc'[q] \in {"queued", "cancelled"}
      BY <3>3 DEF Newest, FinalAbsent, Spent
    <3> QED
      BY <2>1, <3>2, <3>3
  <2> QED
    BY <2>2, <2>3
<1>2. ASSUME NEW r \in Runs, Step(r) PROVE SerialInv'
  <2>1. slots' = slots
    BY <1>2, StepEffect
  <2> SUFFICES ASSUME slots = 1
               PROVE  Alone' /\ \A q \in Runs : Newest(q)' /\ FinalAbsent(q)'
    BY <2>1 DEF SerialInv
  <2>2. \A q \in Runs : q # r => pc'[q] \notin Active
    BY <1>2, StepAlone DEF SerialInv
  <2>3. Alone'
    BY <2>2 DEF Alone
  <2>4. \A q \in Runs : q # r => Newest(q)' /\ FinalAbsent(q)'
    BY <2>2 DEF Newest, FinalAbsent, Spent, Active
  <2> QED
    BY <1>2, <2>3, <2>4, NewestStep, FinalAbsentStep
<1>3. CASE UNCHANGED vars
  BY <1>3 DEF vars, hub, SerialInv, Alone, Newest, FinalAbsent, Promotion, Tagged
<1> QED
  BY <1>1, <1>2, <1>3, NextParts

LEMMA Serial == Spec => []SerialInv
<1>1. Init => SerialInv
  BY DEF Init, SerialInv, Alone, Newest, FinalAbsent, Active, Spent
<1> QED
  BY <1>1, SerialStep, Inductive, PTL DEF Spec

\* While runs do not overlap, no package becomes public when a newer one is:
\* not by a delay, a rerun or a promotion.
THEOREM NeverDowngrades == Spec => NoDowngrade
<1>1. IInv /\ SerialInv /\ [Next]_vars =>
        [slots = 1 =>
           \A x \in releases' : Appears(x) =>
             \A y \in releases : ~y.draft => y.plan.number <= x.plan.number]_vars
  <2> SUFFICES ASSUME IInv, SerialInv, Next, slots = 1, NEW x \in releases',
                      Appears(x), NEW y \in releases, ~y.draft
               PROVE  y.plan.number <= x.plan.number
    BY DEF vars
  <2>1. ~Arrives
    BY ArrivalEffect DEF IInv, Appears
  <2>2. PICK r \in Runs : Step(r)
    BY <2>1, NextParts
  <2>3. x.plan = plan[r] /\ pc[r] = "publish"
    BY <2>2, ReleaseStep DEF Appears
  <2> QED
    BY <2>3 DEF SerialInv, Newest, Spent
<1> QED
  BY <1>1, Inductive, Serial, PTL DEF Spec, NoDowngrade

\* While runs do not overlap, no beta or candidate of a base becomes public
\* once the final version of the base has its tag.
THEOREM FinalCloses == Spec => FinalIsClosed
<1>1. IInv /\ SerialInv /\ [Next]_vars =>
        [slots = 1 =>
           \A x \in releases' :
             Appears(x) /\ x.tag.channel \in {"beta", "rc"}
               => StableTag(x.tag.base) \notin Tagged]_vars
  <2> SUFFICES ASSUME IInv, SerialInv, Next, slots = 1, NEW x \in releases',
                      Appears(x), x.tag.channel \in {"beta", "rc"}
               PROVE  StableTag(x.tag.base) \notin Tagged
    BY DEF vars
  <2>1. ~Arrives
    BY ArrivalEffect DEF IInv, Appears
  <2>2. PICK r \in Runs : Step(r)
    BY <2>1, NextParts
  <2>3. x.tag = WorkTag(r) /\ pc[r] = "publish"
    BY <2>2, ReleaseStep DEF Appears
  <2>4. /\ ~Promotion(r) /\ x.tag.base = plan[r].base
        /\ plan[r].channel \in {"beta", "rc"}
    BY <2>3 DEF WorkTag, StableTag, TagOf
  <2> QED
    BY <2>3, <2>4 DEF SerialInv, FinalAbsent, Spent
<1> QED
  BY <1>1, Inductive, Serial, PTL DEF Spec, FinalIsClosed

-----------------------------------------------------------------------------
(* The registry.  It reads the repository and changes nothing there, so    *)
(* what holds of the pipeline holds of the two together.                   *)

THEOREM SystemIsPipeline == SystemSpec => Spec
<1>1. SystemInit => Init
  BY DEF SystemInit
<1>2. [SystemNext]_<<vars, registryVars>> => [Next]_vars
  BY DEF SystemNext
<1> QED
  BY <1>1, <1>2, PTL DEF SystemSpec, Spec

(* A copy to a version tag that is no longer to be run has succeeded, as   *)
(* long as the command goes on: the first copy to latest finds them all.   *)
RegistryTypes ==
  /\ registry \in [Images -> [versions : SUBSET Bases,
                              latest : Bases \cup {NoBase}]]
  /\ commands \subseteq {1, 2} \X Images
  /\ commands # {} => copying \in Bases
Copied ==
  commands # {} =>
    \A i \in Images : <<1, i>> \notin commands => copying \in registry[i].versions
RegistryInv == RegistryTypes /\ Copied /\ LatestIsComplete

\* "No base" is not a base: a version has three numbers.
LEMMA NoBaseIsNone == NoBase \notin Bases
  BY BasesAssumption DEF NoBase

\* What one copy does to the registry.
LEMMA CopyEffect ==
  ASSUME RegistryInv, NEW command \in commands, CopyImage(command)
  PROVE  /\ RegistryTypes'
         /\ \A i \in Images : registry[i].versions \subseteq registry'[i].versions
         /\ \A i \in Images : registry'[i].latest # registry[i].latest =>
              /\ registry'[i].latest = copying
              /\ \A j \in Images : copying \in registry[j].versions
         /\ commands' # {} =>
              /\ copying' = copying /\ commands' = commands \ {command}
              /\ command[1] = 1 => copying \in registry'[command[2]].versions
<1>1. PICK fate \in WriteFates :
        /\ registry' =
             IF fate = "refused" THEN registry
             ELSE IF command[1] = 1
             THEN [registry EXCEPT ![command[2]].versions = @ \cup {copying}]
             ELSE [registry EXCEPT ![command[2]].latest = copying]
        /\ commands' = IF fate = "confirmed" THEN commands \ {command} ELSE {}
  BY DEF CopyImage
<1>2. /\ command[1] \in {1, 2} /\ command[2] \in Images
      /\ copying \in Bases /\ RegistryTypes
      /\ commands \subseteq {1, 2} \X Images
  BY DEF RegistryInv, RegistryTypes
<1>3. commands' \subseteq commands
  BY <1>1
<1>4. commands' # {} => copying' = copying /\ fate = "confirmed"
  BY <1>1 DEF CopyImage
<1>5. CASE fate = "refused"
  <2>1. registry' = registry /\ commands' = {}
    BY <1>1, <1>5
  <2> QED
    BY <1>2, <1>3, <2>1 DEF RegistryTypes
<1>6. CASE fate # "refused" /\ command[1] = 1
  <2>1. registry' = [registry EXCEPT ![command[2]].versions = @ \cup {copying}]
    BY <1>1, <1>6
  <2>2. /\ registry' \in [Images -> [versions : SUBSET Bases,
                                    latest : Bases \cup {NoBase}]]
        /\ \A i \in Images : /\ registry[i].versions \subseteq registry'[i].versions
                             /\ registry'[i].latest = registry[i].latest
        /\ copying \in registry'[command[2]].versions
    BY <1>2, <2>1 DEF RegistryTypes
  <2> QED
    BY <1>1, <1>2, <1>3, <1>4, <2>2 DEF RegistryTypes
<1>7. CASE fate # "refused" /\ command[1] = 2
  <2>1. registry' = [registry EXCEPT ![command[2]].latest = copying]
    BY <1>1, <1>7
  <2>2. /\ registry' \in [Images -> [versions : SUBSET Bases,
                                    latest : Bases \cup {NoBase}]]
        /\ \A i \in Images :
             /\ registry[i].versions = registry'[i].versions
             /\ registry'[i].latest # registry[i].latest =>
                  registry'[i].latest = copying
    BY <1>2, <2>1 DEF RegistryTypes
  <2>3. ASSUME NEW j \in Images PROVE copying \in registry[j].versions
    <3>1. <<1, j>> \notin commands
      <4> SUFFICES ASSUME <<1, j>> \in commands PROVE FALSE
        OBVIOUS
      <4>1. \/ <<1, j>>[1] > command[1]
            \/ <<1, j>>[1] = command[1] /\ <<1, j>>[2] >= command[2]
        BY DEF CopyImage, CopyNext
      <4> QED
        BY <1>7, <4>1
    <3> QED
      BY <3>1 DEF RegistryInv, Copied
  <2> QED
    BY <1>1, <1>2, <1>3, <1>4, <1>7, <2>2, <2>3 DEF RegistryTypes
<1> QED
  BY <1>2, <1>5, <1>6, <1>7

LEMMA CopyKeeps ==
  ASSUME RegistryInv, NEW command \in commands, CopyImage(command)
  PROVE  RegistryInv'
<1>1. Copied'
  <2> SUFFICES ASSUME commands' # {}, NEW i \in Images, <<1, i>> \notin commands'
               PROVE  copying' \in registry'[i].versions
    BY DEF Copied
  <2>1. commands' = commands \ {command} /\ copying' = copying
    BY CopyEffect
  <2>2. CASE <<1, i>> \in commands
    <3>1. command = <<1, i>>
      BY <2>1, <2>2
    <3> QED
      BY <2>1, <3>1, CopyEffect
  <2>3. CASE <<1, i>> \notin commands
    <3>1. copying \in registry[i].versions
      BY <2>3 DEF RegistryInv, Copied
    <3> QED
      BY <2>1, <3>1, CopyEffect
  <2> QED
    BY <2>2, <2>3
<1>2. LatestIsComplete'
  <2> SUFFICES ASSUME NEW base \in Bases,
                      deployed' = base \/ \E i \in Images : registry'[i].latest = base,
                      NEW j \in Images
               PROVE  base \in registry'[j].versions
    BY DEF LatestIsComplete
  <2>1. deployed' = deployed
    BY DEF CopyImage
  <2>2. base \in registry[j].versions
    <3>1. CASE deployed = base \/ \E i \in Images : registry[i].latest = base
      BY <3>1 DEF RegistryInv, LatestIsComplete
    <3>2. CASE \E i \in Images : /\ registry'[i].latest = base
                                 /\ registry'[i].latest # registry[i].latest
      BY <3>2, CopyEffect
    <3> QED
      BY <2>1, <3>1, <3>2
  <2> QED
    BY <2>2, CopyEffect
<1> QED
  BY <1>1, <1>2, CopyEffect DEF RegistryInv

LEMMA RegistryKeeps ==
  ASSUME RegistryInv, [SystemNext]_<<vars, registryVars>>
  PROVE  RegistryInv'
<1>1. ASSUME NEW base \in Bases, NEW latest \in BOOLEAN, PublishImages(base, latest)
      PROVE  RegistryInv'
  <2>1. RegistryTypes'
    <3>1. commands' \subseteq {1, 2} \X Images
      BY <1>1 DEF PublishImages
    <3> QED
      BY <1>1, <3>1 DEF PublishImages, RegistryInv, RegistryTypes
  <2>2. \A i \in Images : <<1, i>> \in commands'
    <3>1. commands' = {<<phase, i>> : phase \in IF latest THEN {1, 2} ELSE {1},
                                      i \in Images}
      BY <1>1 DEF PublishImages
    <3> QED
      BY <3>1
  <2>3. Copied'
    BY <2>2 DEF Copied
  <2> QED
    BY <1>1, <2>1, <2>3 DEF PublishImages, RegistryInv, LatestIsComplete
<1>2. ASSUME NEW base \in Bases, ResolveImages(base) PROVE RegistryInv'
  BY <1>2 DEF ResolveImages, RegistryInv, RegistryTypes, Copied, LatestIsComplete
<1>3. CASE UNCHANGED registryVars
  BY <1>3 DEF registryVars, RegistryInv, RegistryTypes, Copied, LatestIsComplete
<1> QED
  BY <1>1, <1>2, <1>3, CopyKeeps DEF SystemNext, RegistryStep

\* Whatever copy failed, and whatever the pipeline did meanwhile: what
\* "latest" shows, and what was resolved for a deployment, is in the registry
\* under its version for every image.
THEOREM LatestAreComplete == SystemSpec => []LatestIsComplete
<1>1. SystemInit => RegistryInv
  <2> SUFFICES ASSUME SystemInit PROVE RegistryInv
    OBVIOUS
  <2>1. /\ registry = [i \in Images |-> [versions |-> {}, latest |-> NoBase]]
        /\ commands = {} /\ copying = NoBase /\ deployed = NoBase
    BY DEF SystemInit
  <2>2. LatestIsComplete
    BY <2>1, NoBaseIsNone DEF LatestIsComplete
  <2> QED
    BY <2>1, <2>2 DEF RegistryInv, RegistryTypes, Copied
<1>2. RegistryInv /\ [SystemNext]_<<vars, registryVars>> => RegistryInv'
  BY RegistryKeeps
<1>3. RegistryInv => LatestIsComplete
  BY DEF RegistryInv
<1> QED
  BY <1>1, <1>2, <1>3, PTL DEF SystemSpec
=============================================================================
