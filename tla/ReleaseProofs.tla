---------------------------- MODULE ReleaseProofs ----------------------------
(* Theorems about ReleasePipeline for every value of its constants: the    *)
(* version ledger, and the build numbers it hands out.                     *)
EXTENDS ReleasePipeline, TLAPS, FiniteSetTheorems, WellFoundedInduction

(* Stages of a publication that has consumed its number, that has pushed   *)
(* its tag, and that has its draft.                                        *)
Spent == {"tag", "create", "reconcile", "reread", "upload", "confirm", "publish"}
Named == Spent \ {"tag"}
Drafted == {"upload", "confirm", "publish"}

(* What a run is about, stage by stage.                                    *)
JobsOK ==
  \A r \in Runs :
    /\ pc[r] # "none" => job[r].sha \in Commits /\ job[r].channel \in Channels
    /\ job[r].built # 0 => ~Promotion(r) /\ ledger.plans[r] # NoPlan
    /\ pc[r] \in {"reserve", "allot", "gate", "staged"} => ~Promotion(r)
    /\ pc[r] \in {"candidate", "copy"} => Promotion(r)

FinitelyMany == IsFiniteSet(tags) /\ IsFiniteSet(releases)

TypeInv ==
  /\ PipelineTypeOK /\ JobsOK /\ FinitelyMany
  /\ proposal # NoProposal => proposal.base \in Bases

(* The same, by what the variables belong to: the repository or a run.     *)
Stage == Active \cup Ended \cup {"none", "queued"}
HubTypes ==
  /\ slots \in {1, 2} /\ head \in Commits
  /\ commit \in [Commits -> [base : Bases, flow : Flows]]
  /\ proposal \in [base : Bases \cup {NoBase}, open : BOOLEAN]
  /\ proposal # NoProposal => proposal.base \in Bases
LedgerTypes ==
  /\ ledger \in Ledger /\ Readable(ledger)
  /\ branch \in BOOLEAN /\ (ledger # EmptyLedger => branch)
TagTypes == tags \subseteq [tag : Tag, sha : Commits] /\ IsFiniteSet(tags)
ReleaseTypes == releases \subseteq Release /\ IsFiniteSet(releases)
RunTypes ==
  /\ pc \in [Runs -> Stage] /\ job \in [Runs -> Job]
  /\ plan \in [Runs -> Plan \cup {NoPlan}]
  /\ seen \in [Runs -> Ledger] /\ source \in [Runs -> Commits \cup {0}]
  /\ \A r \in Runs : pc[r] \in Active \ {"prepare", "reserve", "candidate"}
                       => plan[r] # NoPlan

(* The reservations of one ledger: numbers above zero, one number each,    *)
(* one tag each, and the two rules that keep the tags apart.               *)
Distinct(state) ==
  \A q, r \in Runs :
    q # r /\ state.plans[q] # NoPlan /\ state.plans[r] # NoPlan
      => /\ state.plans[q].number # state.plans[r].number
         /\ TagOf(state.plans[q]) # TagOf(state.plans[r])
InOrder(plan_, r) ==
  /\ plan_.number >= 1 /\ plan_.channel # "stable"
  /\ plan_.channel = "nightly" => plan_.seq = r

(* What a run has read it may act on only if it is still so; what it knows *)
(* then is what makes its write safe.                                      *)
Knows(r) ==
  /\ Readable(seen[r])
  /\ pc[r] \in {"reserve", "allot"} => seen[r].plans[r] = NoPlan
  /\ pc[r] = "allot" =>
       /\ plan[r].number = NextNumber(seen[r]) /\ InOrder(plan[r], r)
       /\ plan[r].channel # "nightly" =>
            \A p \in Reserved(seen[r]) : TagOf(p) # TagOf(plan[r])
  /\ pc[r] = "consume" =>
       plan[r] \in Reserved(seen[r]) /\ plan[r].number >= seen[r].floor
  /\ pc[r] \in Spent =>
       plan[r] \in Reserved(ledger) /\ plan[r].number <= ledger.floor

LedgerInv ==
  /\ Distinct(ledger)
  /\ \A r \in Runs : ledger.plans[r] # NoPlan => InOrder(ledger.plans[r], r)
  /\ \A r \in Runs : Knows(r)

(* One tag reference per tag, one release per tag, and every release is    *)
(* of a plan whose number was consumed and whose tag is where it should be.*)
HasTag(tag, sha) == [tag |-> tag, sha |-> sha] \in tags
ReleaseOK(x) ==
  /\ x.plan \in Reserved(ledger) /\ x.plan.number <= ledger.floor
  /\ x.fresh /\ HasTag(x.tag, x.plan.sha)
  /\ ~x.draft => x.files = Files
  /\ \/ x.tag = TagOf(x.plan)
     \/ /\ x.tag = StableTag(x.plan.base)
        /\ TagOf(x.plan) \in Published
OwnDraft(r, x) ==
  x.by = r /\ x.tag = WorkTag(r) /\ x.plan = plan[r] /\ x.draft

Publishing(r) ==
  /\ pc[r] \in {"staged", "begin", "consume"} \cup Spent
       => Promotion(r) \/ GateReady(r)
  /\ pc[r] \in {"consume"} \cup Spent /\ Promotion(r)
       => plan[r].channel = "rc" /\ TagOf(plan[r]) \in Published
  /\ pc[r] \in Named => HasTag(WorkTag(r), plan[r].sha)
  /\ pc[r] = "create" => \A x \in releases : x.tag # WorkTag(r)
  /\ pc[r] \in Drafted => \E x \in releases :
       /\ OwnDraft(r, x)
       /\ pc[r] = "upload" => x.files # Files
       /\ pc[r] = "publish" => x.files = Files

OneEach ==
  /\ \A t, u \in tags : t.tag = u.tag => t = u
  /\ \A x, y \in releases : x.tag = y.tag => x = y
  /\ \A q, r \in Runs : q # r /\ pc[q] \in Named /\ pc[r] \in Named
                          => WorkTag(q) # WorkTag(r)
PublicationInv ==
  /\ OneEach
  /\ \A x \in releases : ReleaseOK(x)
  /\ \A r \in Runs : Publishing(r)

IInv == TypeInv /\ LedgerInv /\ PublicationInv

-----------------------------------------------------------------------------
(* Facts about numbers and finite sets.                                    *)

\* A non-empty set of naturals has a smallest element.
LEMMA LeastNumber ==
  ASSUME NEW S \in SUBSET Nat, S # {}
  PROVE  \E x \in S : \A y \in S : x <= y
<1> DEFINE below == {ss \in Nat \X Nat : ss[1] < ss[2]}
<1>1. IsWellFoundedOn(below, Nat)
  BY NatLessThanWellFounded DEF OpToRel
<1>2. PICK x \in S : \A y \in S : ~(<<y, x>> \in below)
  BY <1>1, WFMin, Zenon
<1>3. \A y \in S : y \in Nat /\ x \in Nat /\ ~(y < x)
  BY <1>2
<1> QED
  BY <1>3

\* Min of such a set is that element.
LEMMA MinProperties ==
  ASSUME NEW S \in SUBSET Nat, S # {}
  PROVE  Min(S) \in S /\ \A y \in S : Min(S) <= y
BY LeastNumber DEF Min

\* A finite set of naturals has an upper bound: count its elements and take
\* the first of them at which the ones before would have none.
LEMMA FiniteIsBounded ==
  ASSUME NEW S \in SUBSET Nat, IsFiniteSet(S)
  PROVE  \E n \in Nat : \A x \in S : x <= n
<1> DEFINE size == Cardinality(S)
<1>1. size \in Nat /\ ExistsBijection(1 .. size, S)
  BY FS_CardinalityType
<1>2. PICK f \in [1 .. size -> S] : \A x \in S : \E i \in 1 .. size : f[i] = x
  BY <1>1 DEF ExistsBijection, Bijection, Surjection
<1> HIDE DEF size
<1> DEFINE unbounded ==
      {k \in 0 .. size : ~ \E n \in Nat : \A i \in 1 .. k : f[i] <= n}
<1>3. unbounded = {}
  <2> SUFFICES ASSUME unbounded # {} PROVE FALSE
    OBVIOUS
  <2>1. unbounded \in SUBSET Nat
    BY <1>1
  <2>2. PICK k \in unbounded : \A j \in unbounded : k <= j
    BY <2>1, LeastNumber
  <2>3. k # 0
    <3>1. \A i \in 1 .. 0 : f[i] <= 0
      OBVIOUS
    <3> QED
      BY <3>1
  <2>4. k \in 1 .. size /\ k - 1 \in 0 .. size /\ ~(k <= k - 1)
    BY <2>3, <1>1
  <2>5. k - 1 \notin unbounded
    <3> HIDE DEF unbounded
    <3> QED
      BY <2>2, <2>4
  <2>6. PICK n \in Nat : \A i \in 1 .. k - 1 : f[i] <= n
    BY <2>4, <2>5
  <2> HIDE DEF unbounded
  <2>7. f[k] \in Nat /\ k \in Nat
    <3>1. k \in 1 .. size
      BY <2>4
    <3>2. f[k] \in S
      BY <3>1
    <3>3. k \in Nat
      BY <3>1, <1>1
    <3> QED
      BY <3>2, <3>3
  <2>8. PICK m \in Nat : n <= m /\ f[k] <= m
    BY <2>7
  <2>9. \A i \in 1 .. k : f[i] <= m
    <3> TAKE i \in 1 .. k
    <3>1. i \in 1 .. size
      BY <2>4, <1>1
    <3>2. f[i] \in Nat
      BY <3>1
    <3>3. i = k \/ i \in 1 .. k - 1
      BY <2>7
    <3> QED
      BY <2>6, <2>8, <3>2, <3>3
  <2> QED
    BY <2>9 DEF unbounded
<1>4. size \in 0 .. size
  BY <1>1
<1>5. PICK n \in Nat : \A i \in 1 .. size : f[i] <= n
  BY <1>3, <1>4
<1>6. \A x \in S : x <= n
  BY <1>2, <1>5
<1> QED
  BY <1>6

\* Max of a finite non-empty set of naturals is its largest element.
LEMMA MaxProperties ==
  ASSUME NEW S \in SUBSET Nat, IsFiniteSet(S), S # {}
  PROVE  Max(S) \in S /\ \A y \in S : y <= Max(S)
<1> DEFINE bounds == {n \in Nat : \A x \in S : x <= n}
<1>1. bounds # {}
  BY FiniteIsBounded
<1>2. PICK m \in bounds : \A n \in bounds : m <= n
  BY <1>1, LeastNumber
<1>3. m \in S
  <2> SUFFICES ASSUME m \notin S PROVE FALSE
    OBVIOUS
  <2>1. \A x \in S : x \in Nat /\ x < m
    BY <1>2
  <2>2. m # 0
    <3>1. PICK x \in S : x \in Nat /\ x < m
      BY <2>1
    <3> QED
      BY <3>1
  <2>3. m - 1 \in Nat /\ \A x \in S : x <= m - 1
    BY <2>1, <2>2
  <2> QED
    BY <2>3, <1>2
<1>4. \E x \in S : \A y \in S : x >= y
  BY <1>2, <1>3
<1>5. Max(S) \in S /\ \A y \in S : Max(S) >= y
  BY <1>4 DEF Max
<1> QED
  BY <1>5

\* What a function on a finite set takes as values is finite.
LEMMA FiniteImage ==
  ASSUME NEW S, IsFiniteSet(S), NEW T, NEW f \in [S -> T],
         \A y \in T : \E x \in S : f[x] = y
  PROVE  IsFiniteSet(T)
<1>1. f \in Surjection(S, T)
  BY DEF Surjection
<1> QED
  BY <1>1, FS_Surjection

\* The next sequence is above every reserved one of its base and channel.
LEMMA NextSequenceProperties ==
  ASSUME NEW state \in Ledger, NEW base, NEW channel,
         NEW listed \in SUBSET Tag, IsFiniteSet(listed)
  PROVE  /\ NextSequence(state, base, channel, listed) \in Nat
         /\ \A p \in Reserved(state) : p.base = base /\ p.channel = channel
              => p.seq < NextSequence(state, base, channel, listed)
<1> DEFINE same == {p \in Reserved(state) : p.base = base /\ p.channel = channel}
           named == {t \in listed : t.base = base /\ t.channel = channel}
           all == {0} \cup {t.seq : t \in named} \cup {p.seq : p \in same}
<1>1. Reserved(state) \subseteq Plan /\ IsFiniteSet(Reserved(state))
  <2>1. state.plans \in [Runs -> Plan \cup {NoPlan}]
    BY DEF Ledger
  <2>2. IsFiniteSet({state.plans[r] : r \in Runs})
    <3> DEFINE T == {state.plans[r] : r \in Runs}
    <3>1. state.plans \in [Runs -> T] /\ \A y \in T : \E r \in Runs : state.plans[r] = y
      BY <2>1
    <3> QED
      BY <3>1, RunsAssumption, FiniteImage, Zenon
  <2>3. Reserved(state) \in SUBSET {state.plans[r] : r \in Runs}
    BY DEF Reserved
  <2> QED
    BY <2>1, <2>2, <2>3, FS_Subset DEF Reserved
<1>2. IsFiniteSet(same) /\ same \subseteq Plan
  BY <1>1, FS_Subset
<1>3. IsFiniteSet(named) /\ named \subseteq Tag
  BY FS_Subset
<1>4. IsFiniteSet({t.seq : t \in named})
  <2> DEFINE T == {t.seq : t \in named}
         f == [t \in named |-> t.seq]
  <2>1. f \in [named -> T] /\ \A y \in T : \E x \in named : f[x] = y
    OBVIOUS
  <2> HIDE DEF named, T, f
  <2>2. IsFiniteSet(T)
    BY <2>1, <1>3, FiniteImage
  <2> QED
    BY <2>2 DEF T
<1>5. IsFiniteSet({p.seq : p \in same})
  <2> DEFINE T == {p.seq : p \in same}
         f == [p \in same |-> p.seq]
  <2>1. f \in [same -> T] /\ \A y \in T : \E x \in same : f[x] = y
    OBVIOUS
  <2> HIDE DEF same, T, f
  <2>2. IsFiniteSet(T)
    BY <2>1, <1>2, FiniteImage
  <2> QED
    BY <2>2 DEF T
<1>6. IsFiniteSet(all) /\ all \in SUBSET Nat /\ 0 \in all
  <2>1. all \in SUBSET Nat /\ 0 \in all
    BY <1>2, <1>3 DEF Tag, Plan
  <2> DEFINE S == {t.seq : t \in named}
             U == {p.seq : p \in same}
  <2> HIDE DEF S, U
  <2>2. IsFiniteSet(S) /\ IsFiniteSet(U)
    BY <1>4, <1>5 DEF S, U
  <2>3. IsFiniteSet({0} \cup S)
    BY <2>2, FS_Singleton, FS_Union
  <2>4. IsFiniteSet(({0} \cup S) \cup U)
    BY <2>2, <2>3, FS_Union
  <2> QED
    BY <2>1, <2>4 DEF S, U
<1>7. \A p \in same : p.seq \in all
  OBVIOUS
<1> HIDE DEF all, same
<1>8. Max(all) \in Nat /\ \A n \in all : n <= Max(all) /\ n \in Nat
  BY <1>6, MaxProperties
<1>9. NextSequence(state, base, channel, listed) = 1 + Max(all)
  BY DEF NextSequence, all, same
<1>10. \A p \in same : p.seq < 1 + Max(all)
  BY <1>7, <1>8
<1> QED
  BY <1>8, <1>9, <1>10 DEF same
-----------------------------------------------------------------------------
(* What an answer of GitHub tells.                                         *)

\* "absent" is only read of what is not there: it takes a complete 404.
LEMMA AbsentIsAbsent ==
  ASSUME NEW present \in BOOLEAN, "absent" \in Reads(present)
  PROVE  ~present
BY DEF Reads, CompletedRead, Possible, Response, Attempt

\* A request reported as created did take effect.
LEMMA CreatedIsApplied ==
  ASSUME NEW applied \in BOOLEAN, "created" \in Creates(applied)
  PROVE  applied
BY DEF Creates, CreateOnce, PossibleReply, Reply
-----------------------------------------------------------------------------
(* Types.                                                                  *)

LEMMA TypeParts ==
  TypeInv <=> HubTypes /\ LedgerTypes /\ TagTypes /\ ReleaseTypes /\ RunTypes
              /\ JobsOK
BY DEF TypeInv, PipelineTypeOK, HubTypes, LedgerTypes, TagTypes, ReleaseTypes,
       RunTypes, FinitelyMany, Stage

\* Ending a run leaves the state of the runs well typed.
LEMMA LeaveTyped ==
  ASSUME RunTypes, NEW r \in Runs, NEW how \in Ended, Leave(r, how),
         UNCHANGED job
  PROVE  RunTypes'
<1>1. EmptyLedger \in Ledger
  BY DEF EmptyLedger, Ledger
<1>2. how \in Stage /\ how \notin Active
  BY DEF Stage, Active, Ended
<1> QED
  BY <1>1, <1>2 DEF RunTypes, Leave, Goto

\* So does going on to a stage that may be reached with the plan held.
LEMMA GotoTyped ==
  ASSUME RunTypes, NEW r \in Runs, NEW stage \in Active, Goto(r, stage),
         UNCHANGED job, plan' \in [Runs -> Plan \cup {NoPlan}],
         seen' \in [Runs -> Ledger], source' \in [Runs -> Commits \cup {0}],
         \A q \in Runs : plan[q] # NoPlan => plan'[q] # NoPlan,
         stage \in {"prepare", "reserve", "candidate"} \/ plan'[r] # NoPlan
  PROVE  RunTypes'
BY DEF RunTypes, Goto, Stage

\* The tags and releases that are listed have tags, finitely many.
LEMMA ListedFinite ==
  ASSUME TypeInv
  PROVE  Listed \in SUBSET Tag /\ IsFiniteSet(Listed)
<1>1. tags \subseteq [tag : Tag, sha : Commits] /\ IsFiniteSet(tags)
      /\ releases \subseteq Release /\ IsFiniteSet(releases)
  BY DEF TypeInv, PipelineTypeOK, FinitelyMany
<1>2. IsFiniteSet(Tagged) /\ Tagged \subseteq Tag
  <2> DEFINE f == [t \in tags |-> t.tag]
  <2>1. f \in [tags -> Tagged] /\ \A y \in Tagged : \E t \in tags : f[t] = y
    BY DEF Tagged
  <2>2. IsFiniteSet(Tagged)
    BY <1>1, <2>1, FiniteImage, Zenon
  <2> QED
    BY <1>1, <2>2 DEF Tagged
<1>3. IsFiniteSet({x.tag : x \in releases}) /\ {x.tag : x \in releases} \subseteq Tag
  <2> DEFINE T == {x.tag : x \in releases}
             f == [x \in releases |-> x.tag]
  <2>1. f \in [releases -> T] /\ \A y \in T : \E x \in releases : f[x] = y
    OBVIOUS
  <2>2. IsFiniteSet(T)
    <3> HIDE DEF T, f
    <3> QED
      BY <1>1, <2>1, FiniteImage, Zenon
  <2> QED
    BY <1>1, <2>2 DEF Release
<1> QED
  BY <1>2, <1>3, FS_Union DEF Listed

\* CreatePlan makes a plan of the ledger's plans.
LEMMA CreatedPlanTyped ==
  ASSUME TypeInv, NEW r \in Runs, CreatePlan(r)
  PROVE  plan' \in [Runs -> Plan \cup {NoPlan}] /\ plan'[r] \in Plan
<1> DEFINE base == BaseOf(job[r].sha)
<1>1. job[r].sha \in Commits /\ job[r].channel \in Channels /\ base \in Bases
  <2>1. pc[r] = "reserve"
    BY DEF CreatePlan
  <2> QED
    BY <2>1 DEF TypeInv, JobsOK, PipelineTypeOK, BaseOf
<1>2. Listed \in SUBSET Tag /\ IsFiniteSet(Listed)
  BY ListedFinite
<1>3. seen[r] \in Ledger
  BY DEF TypeInv, PipelineTypeOK
<1>4. SequenceFor(r, base) \in Nat
  BY <1>2, <1>3, NextSequenceProperties, RunsAssumption DEF SequenceFor
<1>5. NextNumber(seen[r]) \in Nat
  BY <1>3, FloorAssumption DEF NextNumber, Greater, Ledger
<1>6. [base |-> base, channel |-> job[r].channel, seq |-> SequenceFor(r, base),
       sha |-> job[r].sha, number |-> NextNumber(seen[r])] \in Plan
  BY <1>1, <1>4, <1>5 DEF Plan
<1> QED
  BY <1>6 DEF CreatePlan, TypeInv, PipelineTypeOK

\* A write leaves the runs well typed whatever became of it.
LEMMA SentTyped ==
  ASSUME RunTypes, NEW r \in Runs, NEW fate, NEW stage \in Active,
         Sent(r, fate, stage), UNCHANGED job,
         plan[r] # NoPlan
  PROVE  RunTypes'
<1>1. CASE Goto(r, stage) /\ UNCHANGED <<plan, seen, source>>
  <2>1. plan' \in [Runs -> Plan \cup {NoPlan}] /\ seen' \in [Runs -> Ledger]
        /\ source' \in [Runs -> Commits \cup {0}]
    BY <1>1 DEF RunTypes
  <2> QED
    BY <1>1, <2>1, GotoTyped
<1>2. CASE Leave(r, "failed")
  BY <1>2, LeaveTyped DEF Ended
<1> QED
  BY <1>1, <1>2 DEF Sent

\* What a run reads as the ledger is a readable ledger: the current one, or
\* the empty one.
LEMMA ReadStateProperties ==
  ASSUME LedgerTypes, NEW state \in ReadState
  PROVE  state \in Ledger /\ Readable(state) /\ state \in {ledger, EmptyLedger}
<1>1. EmptyLedger \in Ledger /\ Readable(EmptyLedger)
  BY DEF EmptyLedger, Ledger, Readable
<1>2. state \in {ledger, EmptyLedger}
  BY DEF ReadState
<1> QED
  BY <1>1, <1>2 DEF LedgerTypes

\* Every step of a run keeps the runs well typed.
LEMMA StepRunTyped ==
  ASSUME TypeInv, NEW r \in Runs, Step(r)
  PROVE  RunTypes'
<1> USE TypeParts
<1>1. CASE Start(r)
  <2>1. CASE job[r].built # 0 /\ Goto(r, "gate") /\ plan' = [plan EXCEPT ![r] = ledger.plans[r]]
    <3>1. ledger.plans[r] \in Plan /\ ledger.plans[r] # NoPlan
      BY <2>1 DEF JobsOK, LedgerTypes, Ledger
    <3>2. UNCHANGED <<job, seen, source>>
      BY <1>1 DEF Start
    <3> QED
      BY <2>1, <3>1, <3>2 DEF RunTypes, Goto, Stage, Active
  <2>2. CASE Goto(r, "prepare") /\ UNCHANGED plan
    BY <1>1, <2>2 DEF Start, RunTypes, Goto, Stage, Active
  <2> QED
    BY <1>1, <2>1, <2>2 DEF Start
<1>2. CASE Fail(r)
  BY <1>2, LeaveTyped DEF Fail, Ended
<1>3. CASE PrepareFinal(r)
  BY <1>3 DEF PrepareFinal, RunTypes, Goto, Stage, Active
<1>4. CASE CloseCycle(r)
  BY <1>4, LeaveTyped DEF CloseCycle, Ended
<1>5. CASE ReadLedger(r)
  <2>1. PICK state \in ReadState :
          IF state.plans[r] = NoPlan
          THEN /\ Goto(r, "reserve")
               /\ seen' = [seen EXCEPT ![r] = state]
               /\ UNCHANGED <<job, plan>>
          ELSE /\ Goto(r, "gate") /\ Built(r)
               /\ plan' = [plan EXCEPT ![r] = state.plans[r]]
               /\ UNCHANGED seen
    BY <1>5 DEF ReadLedger
  <2>2. state \in Ledger /\ UNCHANGED source
    BY <1>5, ReadStateProperties DEF ReadLedger
  <2>3. CASE state.plans[r] = NoPlan
    BY <2>1, <2>2, <2>3 DEF RunTypes, Goto, Stage, Active
  <2>4. CASE state.plans[r] # NoPlan
    <3>1. state.plans[r] \in Plan
      BY <2>2, <2>4 DEF Ledger
    <3>2. job' \in [Runs -> Job]
      BY <2>1, <2>4 DEF RunTypes, Built, Job
    <3>3. /\ pc' = [pc EXCEPT ![r] = "gate"]
          /\ plan' = [plan EXCEPT ![r] = state.plans[r]]
          /\ UNCHANGED <<seen, source>>
      BY <2>1, <2>2, <2>4 DEF Goto
    <3>4. pc' \in [Runs -> Stage] /\ plan' \in [Runs -> Plan \cup {NoPlan}]
      BY <3>1, <3>3 DEF RunTypes, Stage, Active
    <3>5. \A q \in Runs : pc'[q] \in Active \ {"prepare", "reserve", "candidate"}
                            => plan'[q] # NoPlan
      BY <2>4, <3>3 DEF RunTypes
    <3> QED
      BY <3>2, <3>3, <3>4, <3>5 DEF RunTypes
  <2> QED
    BY <2>3, <2>4
<1>6. CASE CreatePlan(r)
  <2>1. plan' \in [Runs -> Plan \cup {NoPlan}] /\ plan'[r] # NoPlan
    BY <1>6, CreatedPlanTyped, SentinelAssumption DEF Plan, Channels
  <2>2. \A q \in Runs \ {r} : plan'[q] = plan[q]
    BY <1>6 DEF CreatePlan, RunTypes
  <2>3. Goto(r, "allot") /\ UNCHANGED <<job, seen, source>>
    BY <1>6 DEF CreatePlan
  <2> QED
    BY <2>1, <2>2, <2>3 DEF RunTypes, Goto, Stage, Active
<1>7. CASE CreateBranch(r)
  <2>1. plan[r] # NoPlan /\ "allot" \in Active /\ UNCHANGED job
    BY <1>7 DEF CreateBranch, RunTypes, Active
  <2>2. PICK fate \in WriteFates : Sent(r, fate, "allot")
    BY <1>7 DEF CreateBranch
  <2> QED
    BY <2>1, <2>2, SentTyped
<1>8. CASE Reserve(r)
  <2>1. CASE /\ Goto(r, "gate") /\ Built(r)
             /\ seen' = [seen EXCEPT ![r] = EmptyLedger]
             /\ UNCHANGED <<plan, source>>
    <3>1. EmptyLedger \in Ledger
      BY DEF EmptyLedger, Ledger
    <3>2. job' \in [Runs -> Job]
      BY <2>1 DEF RunTypes, Built, Job
    <3>3. plan[r] # NoPlan
      BY <1>8 DEF Reserve, RunTypes, Active
    <3> QED
      BY <2>1, <3>1, <3>2, <3>3 DEF RunTypes, Goto, Stage, Active
  <2>2. CASE Leave(r, "failed") /\ UNCHANGED job
    BY <2>2, LeaveTyped DEF Ended
  <2> QED
    BY <1>8, <2>1, <2>2 DEF Reserve
<1>9. CASE Supersede(r)
  BY <1>9, LeaveTyped DEF Supersede, Ended
<1>10. CASE Check(r)
  BY <1>10 DEF Check, RunTypes, Goto, Stage, Active
<1>11. CASE Reuse(r)
  BY <1>11, LeaveTyped DEF Reuse, Ended
<1>12. CASE Recheck(r)
  <2>1. source' \in [Runs -> Commits \cup {0}]
    BY <1>12 DEF Recheck, RunTypes, HubTypes
  <2> QED
    BY <1>12, <2>1 DEF Recheck, RunTypes, Goto, Stage, Active
<1>13. CASE ReadCandidate(r)
  <2>1. job[r].rc \in Runs /\ ledger.plans[job[r].rc] # NoPlan
    BY <1>13 DEF ReadCandidate, Accepted, VerifyPromotionOrder
  <2>2. ledger.plans[job[r].rc] \in Plan
    BY <2>1 DEF LedgerTypes, Ledger
  <2> QED
    BY <1>13, <2>1, <2>2 DEF ReadCandidate, RunTypes, Goto, Stage, Active
<1>14. CASE CopyCandidate(r)
  BY <1>14 DEF CopyCandidate, RunTypes, Goto, Stage, Active
<1>15. CASE BeginPublication(r)
  <2>1. PICK state \in ReadState : seen' = [seen EXCEPT ![r] = state]
    BY <1>15 DEF BeginPublication
  <2>2. state \in Ledger
    BY ReadStateProperties
  <2>3. seen' \in [Runs -> Ledger]
    BY <2>1, <2>2 DEF RunTypes
  <2> QED
    BY <1>15, <2>3 DEF BeginPublication, RunTypes, Goto, Stage, Active
<1>16. CASE Consume(r)
  <2>1. plan[r] \in Plan
    BY <1>16 DEF Consume, RunTypes, Active
  <2>2. WithFloor(seen[r], plan[r].number) \in Ledger
    <3>1. plan[r].number \in Nat
      BY <2>1 DEF Plan
    <3>2. PICK state \in Ledger : state = seen[r]
      BY DEF RunTypes
    <3>3. [state EXCEPT !.floor = plan[r].number] \in Ledger
      BY <3>1 DEF Ledger
    <3> QED
      BY <3>2, <3>3 DEF WithFloor
  <2>3. CASE /\ Goto(r, "tag")
             /\ seen' = [seen EXCEPT ![r] = WithFloor(seen[r], plan[r].number)]
             /\ UNCHANGED <<plan, source>>
    BY <1>16, <2>2, <2>3 DEF Consume, RunTypes, Goto, Stage, Active
  <2>4. CASE Leave(r, "failed")
    BY <1>16, <2>4, LeaveTyped DEF Consume, Ended
  <2> QED
    BY <1>16, <2>3, <2>4 DEF Consume
<1>17. CASE PushTag(r)
  <2>1. plan[r] # NoPlan /\ "create" \in Active /\ UNCHANGED job
    BY <1>17 DEF PushTag, RunTypes, Active
  <2>2. PICK fate \in WriteFates : Sent(r, fate, "create")
    BY <1>17 DEF PushTag
  <2> QED
    BY <2>1, <2>2, SentTyped
<1>18. CASE CreateDraft(r)
  <2>1. plan[r] # NoPlan /\ {"upload", "reconcile"} \subseteq Active /\ UNCHANGED job
    BY <1>18 DEF CreateDraft, RunTypes, Active
  <2>2. \/ Sent(r, "confirmed", "upload") \/ Sent(r, "confirmed", "reconcile")
        \/ Leave(r, "failed")
    BY <1>18 DEF CreateDraft
  <2> QED
    BY <2>1, <2>2, SentTyped, LeaveTyped DEF Ended
<1>19. CASE Reconcile(r)
  BY <1>19 DEF Reconcile, RunTypes, Goto, Stage, Active
<1>20. CASE Reread(r)
  BY <1>20 DEF Reread, RunTypes, Goto, Stage, Active
<1>21. CASE Upload(r)
  <2>1. plan[r] # NoPlan /\ {"upload", "confirm"} \subseteq Active /\ UNCHANGED job
    BY <1>21 DEF Upload, RunTypes, Active
  <2>2. \E fate \in WriteFates : Sent(r, fate, "upload") \/ Sent(r, fate, "confirm")
    BY <1>21 DEF Upload
  <2> QED
    BY <2>1, <2>2, SentTyped
<1>22. CASE Confirm(r)
  BY <1>22 DEF Confirm, RunTypes, Goto, Stage, Active
<1>23. CASE Publish(r)
  <2>1. plan[r] # NoPlan /\ "evidence" \in Active /\ UNCHANGED job
    BY <1>23 DEF Publish, RunTypes, Active
  <2>2. \E fate \in WriteFates : Sent(r, fate, "evidence") \/ Leave(r, "done")
    BY <1>23 DEF Publish
  <2> QED
    BY <2>1, <2>2, SentTyped, LeaveTyped DEF Ended
<1>24. CASE KeepEvidence(r)
  BY <1>24, LeaveTyped DEF KeepEvidence, Ended
<1> QED
  BY <1>1, <1>2, <1>3, <1>4, <1>5, <1>6, <1>7, <1>8, <1>9, <1>10, <1>11, <1>12,
     <1>13, <1>14, <1>15, <1>16, <1>17, <1>18, <1>19, <1>20, <1>21, <1>22, <1>23,
     <1>24 DEF Step
-----------------------------------------------------------------------------
(* What a step of a run can do to the repository, and to other runs.       *)

Reserves(r) ==
  /\ pc[r] = "allot" /\ branch /\ ledger = seen[r]
  /\ ledger' = WithReservation(ledger, r, plan[r])
Consumes(r) ==
  /\ pc[r] = "consume" /\ ledger = seen[r]
  /\ ledger' = WithFloor(ledger, plan[r].number)
Tags(r) ==
  /\ pc[r] = "tag" /\ EnsureAbsent(WorkTag(r))
  /\ tags' = tags \cup {[tag |-> WorkTag(r), sha |-> plan[r].sha]}
Drafts(r) == pc[r] = "create" /\ releases' = releases \cup {Draft(r)}
Uploads(r) ==
  /\ pc[r] = "upload"
  /\ Replace(Own(r), [Own(r) EXCEPT !.files = @ \cup {Min(Files \ Own(r).files)}])
Publishes(r) ==
  pc[r] = "publish" /\ Replace(Own(r), [Own(r) EXCEPT !.draft = FALSE])

\* Seventeen of the steps leave the repository alone.
LEMMA QuietSteps ==
  ASSUME NEW r,
         \/ Start(r) \/ Fail(r) \/ PrepareFinal(r) \/ CloseCycle(r)
         \/ ReadLedger(r) \/ CreatePlan(r) \/ Supersede(r) \/ Check(r)
         \/ Reuse(r) \/ Recheck(r) \/ ReadCandidate(r) \/ CopyCandidate(r)
         \/ BeginPublication(r) \/ Reconcile(r) \/ Reread(r) \/ Confirm(r)
         \/ KeepEvidence(r)
  PROVE  UNCHANGED <<ledger, slots, hub>>
BY DEF Start, Fail, PrepareFinal, CloseCycle, ReadLedger, CreatePlan, Supersede,
       Check, Reuse, Recheck, ReadCandidate, CopyCandidate, BeginPublication,
       Reconcile, Reread, Confirm, KeepEvidence

\* The others change one thing in it.
LEMMA StepEffect ==
  ASSUME NEW r, Step(r)
  PROVE  /\ UNCHANGED <<slots, head, commit, proposal>>
         /\ \/ UNCHANGED <<ledger, branch, tags, releases>>
            \/ CreateBranch(r) /\ UNCHANGED <<ledger, tags, releases>>
            \/ Reserves(r) /\ UNCHANGED <<branch, tags, releases>>
            \/ Consumes(r) /\ UNCHANGED <<branch, tags, releases>>
            \/ Tags(r) /\ UNCHANGED <<ledger, branch, releases>>
            \/ Drafts(r) /\ UNCHANGED <<ledger, branch, tags>>
            \/ Uploads(r) /\ UNCHANGED <<ledger, branch, tags>>
            \/ Publishes(r) /\ UNCHANGED <<ledger, branch, tags>>
<1>1. CASE CreateBranch(r)
  BY <1>1 DEF CreateBranch
<1>2. CASE Reserve(r)
  BY <1>2 DEF Reserve, WriteState, Reserves, hub
<1>3. CASE Consume(r)
  BY <1>3 DEF Consume, WriteState, Consumes, hub
<1>4. CASE PushTag(r)
  BY <1>4 DEF PushTag, Tags
<1>5. CASE CreateDraft(r)
  <2>1. releases' = releases \cup {Draft(r)} \/ UNCHANGED releases
    BY <1>5 DEF CreateDraft
  <2> QED
    BY <1>5, <2>1 DEF CreateDraft, Drafts
<1>6. CASE Upload(r)
  BY <1>6 DEF Upload, Uploads
<1>7. CASE Publish(r)
  BY <1>7 DEF Publish, Publishes
<1>8. CASE UNCHANGED <<ledger, slots, hub>>
  BY <1>8 DEF hub
<1> QED
  BY <1>1, <1>2, <1>3, <1>4, <1>5, <1>6, <1>7, <1>8, QuietSteps, Zenon DEF Step

Elsewhere(r) ==
  \A q \in Runs : q # r =>
    /\ pc'[q] = pc[q] /\ job'[q] = job[q] /\ plan'[q] = plan[q]
    /\ seen'[q] = seen[q] /\ source'[q] = source[q]

LEMMA LeaveElsewhere ==
  ASSUME RunTypes, NEW r \in Runs, NEW how, Leave(r, how), UNCHANGED job
  PROVE  Elsewhere(r)
BY DEF RunTypes, Leave, Goto, Elsewhere

LEMMA SentElsewhere ==
  ASSUME RunTypes, NEW r \in Runs, NEW fate, NEW stage, Sent(r, fate, stage),
         UNCHANGED job
  PROVE  Elsewhere(r)
BY DEF RunTypes, Sent, Leave, Goto, Elsewhere

\* A step of a run leaves every other run where it is, and the run's event,
\* channel, commit, candidate and attempt as they are.
LEMMA StepElsewhere ==
  ASSUME RunTypes, NEW r \in Runs, Step(r)
  PROVE  /\ Elsewhere(r)
         /\ job' = job \/ Built(r)
<1>1. CASE Fail(r) \/ CloseCycle(r) \/ Supersede(r) \/ Reuse(r) \/ KeepEvidence(r)
  <2>1. UNCHANGED job /\ \E how \in Ended : Leave(r, how)
    BY <1>1 DEF Fail, CloseCycle, Supersede, Reuse, KeepEvidence, Ended
  <2> QED
    BY <2>1, LeaveElsewhere
<1>2. CASE CreateBranch(r) \/ PushTag(r) \/ CreateDraft(r) \/ Upload(r) \/ Publish(r)
  <2>1. UNCHANGED job
    BY <1>2 DEF CreateBranch, PushTag, CreateDraft, Upload, Publish
  <2>2. CASE CreateBranch(r) \/ PushTag(r)
    BY <2>1, <2>2, SentElsewhere DEF CreateBranch, PushTag
  <2>3. CASE CreateDraft(r)
    <3>1. \/ Sent(r, "confirmed", "upload") \/ Sent(r, "confirmed", "reconcile")
          \/ Leave(r, "failed")
      BY <2>3 DEF CreateDraft
    <3> QED
      BY <2>1, <3>1, SentElsewhere, LeaveElsewhere
  <2>4. CASE Upload(r)
    BY <2>1, <2>4, SentElsewhere DEF Upload
  <2>5. CASE Publish(r)
    <3>1. \E fate \in WriteFates : Sent(r, fate, "evidence") \/ Leave(r, "done")
      BY <2>5 DEF Publish
    <3> QED
      BY <2>1, <3>1, SentElsewhere, LeaveElsewhere
  <2> QED
    BY <1>2, <2>2, <2>3, <2>4, <2>5
<1>3. CASE Start(r) \/ PrepareFinal(r) \/ CreatePlan(r) \/ Check(r) \/ Recheck(r)
  BY <1>3 DEF Start, PrepareFinal, CreatePlan, Check, Recheck, RunTypes, Goto,
              Elsewhere
<1>4. CASE ReadCandidate(r) \/ CopyCandidate(r) \/ BeginPublication(r)
           \/ Reconcile(r) \/ Reread(r) \/ Confirm(r)
  BY <1>4 DEF ReadCandidate, CopyCandidate, BeginPublication, Reconcile, Reread,
              Confirm, RunTypes, Goto, Elsewhere
<1>5. CASE ReadLedger(r)
  <2>1. \E state \in ReadState :
          \/ /\ Goto(r, "reserve") /\ seen' = [seen EXCEPT ![r] = state]
             /\ UNCHANGED <<job, plan, source>>
          \/ /\ Goto(r, "gate") /\ Built(r)
             /\ plan' = [plan EXCEPT ![r] = state.plans[r]]
             /\ UNCHANGED <<seen, source>>
    BY <1>5 DEF ReadLedger
  <2> QED
    BY <2>1 DEF RunTypes, Goto, Built, Elsewhere
<1>6. CASE Reserve(r)
  <2>1. CASE /\ Goto(r, "gate") /\ Built(r)
             /\ seen' = [seen EXCEPT ![r] = EmptyLedger]
             /\ UNCHANGED <<plan, source>>
    BY <2>1 DEF RunTypes, Goto, Built, Elsewhere
  <2>2. CASE Leave(r, "failed") /\ UNCHANGED job
    BY <2>2, LeaveElsewhere
  <2> QED
    BY <1>6, <2>1, <2>2 DEF Reserve
<1>7. CASE Consume(r)
  <2>1. CASE /\ Goto(r, "tag")
             /\ seen' = [seen EXCEPT ![r] = WithFloor(seen[r], plan[r].number)]
             /\ UNCHANGED <<plan, source>>
    BY <1>7, <2>1 DEF Consume, RunTypes, Goto, Elsewhere
  <2>2. CASE Leave(r, "failed")
    BY <1>7, <2>2, LeaveElsewhere DEF Consume
  <2> QED
    BY <1>7, <2>1, <2>2 DEF Consume
<1> QED
  BY <1>1, <1>2, <1>3, <1>4, <1>5, <1>6, <1>7 DEF Step

\* Where a step takes its run.
LEMMA StepStage ==
  ASSUME RunTypes, NEW r \in Runs, Step(r)
  PROVE  \/ pc'[r] \in Ended /\ UNCHANGED job
         \/ Start(r) /\ pc'[r] \in {"gate", "prepare"}
         \/ PrepareFinal(r) /\ pc'[r] = "candidate"
         \/ ReadLedger(r) /\ pc'[r] \in {"reserve", "gate"}
         \/ CreatePlan(r) /\ pc'[r] = "allot"
         \/ CreateBranch(r) /\ pc'[r] = "allot" /\ UNCHANGED <<plan, seen>>
         \/ Reserve(r) /\ Reserves(r) /\ pc'[r] = "gate"
         \/ Check(r) /\ pc'[r] = "staged"
         \/ Recheck(r) /\ pc'[r] = "begin"
         \/ ReadCandidate(r) /\ pc'[r] = "copy"
         \/ CopyCandidate(r) /\ pc'[r] = "begin"
         \/ BeginPublication(r) /\ pc'[r] = "consume"
         \/ Consume(r) /\ Consumes(r) /\ pc'[r] = "tag" /\ UNCHANGED plan
         \/ PushTag(r) /\ Tags(r) /\ pc'[r] = "create" /\ UNCHANGED <<plan, source>>
         \/ CreateDraft(r) /\ pc'[r] = "reconcile" /\ UNCHANGED <<plan, source>>
         \/ CreateDraft(r) /\ Drafts(r) /\ pc'[r] = "upload" /\ UNCHANGED <<plan, source>>
         \/ Reconcile(r) /\ pc'[r] = "reread"
         \/ Reread(r) /\ pc'[r] = "upload"
         \/ Upload(r) /\ Uploads(r) /\ UNCHANGED <<plan, source>>
              /\ pc'[r] = IF Own(r).files \cup {Min(Files \ Own(r).files)} = Files
                          THEN "confirm" ELSE "upload"
         \/ Confirm(r) /\ pc'[r] = "publish"
         \/ Publish(r) /\ pc'[r] = "evidence"
<1>0. ASSUME NEW stage, Goto(r, stage) PROVE pc'[r] = stage
  BY <1>0 DEF RunTypes, Goto
<1>1. CASE Start(r)
  BY <1>0, <1>1 DEF Start
<1>2. CASE \E how \in Ended : Leave(r, how) /\ UNCHANGED job
  BY <1>0, <1>2 DEF Leave
<1>3. CASE PrepareFinal(r) \/ CreatePlan(r) \/ Check(r) \/ Recheck(r)
           \/ ReadCandidate(r) \/ CopyCandidate(r) \/ BeginPublication(r)
           \/ Reconcile(r) \/ Reread(r) \/ Confirm(r)
  BY <1>0, <1>3 DEF PrepareFinal, CreatePlan, Check, Recheck, ReadCandidate,
      CopyCandidate, BeginPublication, Reconcile, Reread, Confirm
<1>4. CASE ReadLedger(r)
  BY <1>0, <1>4 DEF ReadLedger
<1>5. CASE CreateBranch(r)
  <2>1. CASE Goto(r, "allot") /\ UNCHANGED <<plan, seen, source>>
    BY <1>0, <1>5, <2>1
  <2>2. CASE Leave(r, "failed")
    BY <1>0, <1>5, <2>2 DEF CreateBranch, Leave, Ended
  <2> QED
    BY <1>5, <2>1, <2>2 DEF CreateBranch, Sent
<1>6. CASE Reserve(r)
  <2>1. CASE Leave(r, "failed") /\ UNCHANGED job
    BY <1>0, <2>1 DEF Leave, Ended
  <2>2. CASE ~(Leave(r, "failed") /\ UNCHANGED job)
    <3>1. PICK fate \in WriteFates :
            /\ WriteState(seen[r], WithReservation(seen[r], r, plan[r]), fate)
            /\ Written(seen[r], fate) /\ Goto(r, "gate")
      BY <1>6, <2>2 DEF Reserve
    <3>2. Reserves(r)
      BY <1>6, <3>1 DEF Reserve, Reserves, WriteState, Written
    <3> QED
      BY <1>0, <1>6, <3>1, <3>2
  <2> QED
    BY <2>1, <2>2
<1>7. CASE Consume(r)
  <2>1. CASE Leave(r, "failed")
    BY <1>0, <1>7, <2>1 DEF Leave, Ended, Consume
  <2>2. CASE ~Leave(r, "failed")
    <3>1. PICK fate \in WriteFates :
            /\ WriteState(seen[r], WithFloor(seen[r], plan[r].number), fate)
            /\ Written(seen[r], fate) /\ Goto(r, "tag") /\ UNCHANGED plan
      BY <1>7, <2>2 DEF Consume
    <3>2. Consumes(r)
      BY <1>7, <3>1 DEF Consume, Consumes, WriteState, Written
    <3> QED
      BY <1>0, <1>7, <3>1, <3>2
  <2> QED
    BY <2>1, <2>2
<1>8. CASE PushTag(r)
  <2>1. CASE Leave(r, "failed")
    BY <1>0, <1>8, <2>1 DEF Leave, Ended, PushTag
  <2>2. CASE ~Leave(r, "failed")
    <3>1. /\ Goto(r, "create") /\ UNCHANGED <<plan, source>>
          /\ tags' = tags \cup {[tag |-> WorkTag(r), sha |-> plan[r].sha]}
      BY <1>8, <2>2 DEF PushTag, Sent
    <3> QED
      BY <1>0, <1>8, <3>1 DEF PushTag, Tags
  <2> QED
    BY <2>1, <2>2
<1>9. CASE CreateDraft(r)
  <2>1. CASE Leave(r, "failed")
    BY <1>0, <1>9, <2>1 DEF Leave, Ended, CreateDraft
  <2>2. CASE ~Leave(r, "failed")
    <3>1. PICK applied \in BOOLEAN, outcome \in {"created", "rejected", "ambiguous"} :
            /\ outcome \in Creates(applied)
            /\ releases' = IF applied THEN releases \cup {Draft(r)} ELSE releases
            /\ \/ outcome = "created" /\ Goto(r, "upload")
               \/ Goto(r, "reconcile")
            /\ UNCHANGED <<plan, source>>
      BY <1>9, <2>2 DEF CreateDraft, Sent
    <3>2. CASE outcome = "created" /\ Goto(r, "upload")
      <4>1. applied
        BY <3>1, <3>2, CreatedIsApplied
      <4> QED
        BY <1>0, <1>9, <3>1, <3>2, <4>1 DEF CreateDraft, Drafts
    <3>3. CASE Goto(r, "reconcile")
      BY <1>0, <1>9, <3>1, <3>3
    <3> QED
      BY <3>1, <3>2, <3>3
  <2> QED
    BY <2>1, <2>2
<1>10. CASE Upload(r)
  <2>1. CASE Leave(r, "failed")
    BY <1>0, <1>10, <2>1 DEF Leave, Ended, Upload
  <2>2. CASE ~Leave(r, "failed")
    <3> DEFINE stage == IF Own(r).files \cup {Min(Files \ Own(r).files)} = Files
                        THEN "confirm" ELSE "upload"
    <3>1. Goto(r, stage) /\ Uploads(r) /\ UNCHANGED <<plan, source>>
      <4> DEFINE own == Own(r)
                 more == [own EXCEPT !.files = @ \cup {Min(Files \ own.files)}]
      <4>1. PICK fate \in WriteFates :
              /\ IF fate = "refused" THEN UNCHANGED releases ELSE Replace(own, more)
              /\ Sent(r, fate, IF more.files = Files THEN "confirm" ELSE "upload")
        BY <1>10 DEF Upload
      <4>2. fate = "confirmed" /\ pc[r] = "upload" /\ UNCHANGED <<plan, source>>
        BY <1>10, <2>2, <4>1 DEF Sent, Upload
      <4>3. Goto(r, IF more.files = Files THEN "confirm" ELSE "upload")
        BY <4>1, <4>2, <2>2 DEF Sent
      <4>4. Replace(own, more)
        BY <4>1, <4>2
      <4> QED
        BY <4>2, <4>3, <4>4 DEF Uploads
    <3> HIDE DEF stage
    <3>2. pc'[r] = stage
      BY <1>0, <3>1
    <3> QED
      BY <1>10, <3>1, <3>2 DEF stage
  <2> QED
    BY <2>1, <2>2
<1>11. CASE Publish(r)
  <2>1. CASE \E how \in Ended : Leave(r, how)
    BY <1>0, <1>11, <2>1 DEF Leave, Publish
  <2>2. CASE ~ \E how \in Ended : Leave(r, how)
    BY <1>0, <1>11, <2>2 DEF Publish, Sent, Ended
  <2> QED
    BY <2>1, <2>2
<1>12. CASE Fail(r) \/ CloseCycle(r) \/ Supersede(r) \/ Reuse(r) \/ KeepEvidence(r)
  BY <1>2, <1>12 DEF Fail, CloseCycle, Supersede, Reuse, KeepEvidence, Ended
<1> QED
  BY <1>1, <1>3, <1>4, <1>5, <1>6, <1>7, <1>8, <1>9, <1>10, <1>11, <1>12 DEF Step

\* Only the end of the preparation changes what a run is about.
LEMMA JobChanges ==
  ASSUME NEW r, Step(r), job' # job
  PROVE  ReadLedger(r) \/ Reserve(r)
<1>1. Start(r) \/ Fail(r) \/ PrepareFinal(r) \/ CloseCycle(r) \/ CreatePlan(r)
      \/ CreateBranch(r) \/ Supersede(r) \/ Check(r) \/ Reuse(r) \/ Recheck(r)
        => UNCHANGED job
  BY DEF Start, Fail, PrepareFinal, CloseCycle, CreatePlan, CreateBranch,
         Supersede, Check, Reuse, Recheck
<1>2. ReadCandidate(r) \/ CopyCandidate(r) \/ BeginPublication(r) \/ Consume(r)
      \/ PushTag(r) \/ CreateDraft(r) \/ Reconcile(r) \/ Reread(r) \/ Upload(r)
      \/ Confirm(r) \/ Publish(r) \/ KeepEvidence(r) => UNCHANGED job
  BY DEF ReadCandidate, CopyCandidate, BeginPublication, Consume, PushTag,
         CreateDraft, Reconcile, Reread, Upload, Confirm, Publish, KeepEvidence
<1> QED
  BY <1>1, <1>2 DEF Step

\* What a step makes of the ledger its run has read.
LEMMA SeenStep ==
  ASSUME RunTypes, NEW r \in Runs, Step(r)
  PROVE  \/ seen'[r] = seen[r] \/ seen'[r] \in ReadState \/ seen'[r] = EmptyLedger
         \/ seen'[r] = WithFloor(seen[r], plan[r].number) /\ Consumes(r)
<1>1. CASE \/ UNCHANGED seen
           \/ \E state \in ReadState \cup {EmptyLedger} :
                seen' = [seen EXCEPT ![r] = state]
  BY <1>1 DEF RunTypes
<1>2. ASSUME NEW how, Leave(r, how) PROVE seen' = [seen EXCEPT ![r] = EmptyLedger]
  BY <1>2 DEF Leave
<1>3. ASSUME NEW fate, NEW stage, Sent(r, fate, stage)
      PROVE  UNCHANGED seen \/ seen' = [seen EXCEPT ![r] = EmptyLedger]
  BY <1>3 DEF Sent, Leave
<1>4. CASE Fail(r) \/ CloseCycle(r) \/ Supersede(r) \/ Reuse(r) \/ KeepEvidence(r)
  BY <1>1, <1>2, <1>4 DEF Fail, CloseCycle, Supersede, Reuse, KeepEvidence
<1>5. CASE Start(r) \/ PrepareFinal(r) \/ CreatePlan(r) \/ Check(r) \/ Recheck(r)
           \/ ReadCandidate(r) \/ CopyCandidate(r) \/ Reconcile(r) \/ Reread(r)
           \/ Confirm(r)
  BY <1>1, <1>5 DEF Start, PrepareFinal, CreatePlan, Check, Recheck, ReadCandidate,
      CopyCandidate, Reconcile, Reread, Confirm
<1>6. CASE ReadLedger(r) \/ BeginPublication(r)
  BY <1>1, <1>6 DEF ReadLedger, BeginPublication
<1>7. CASE Reserve(r)
  BY <1>1, <1>2, <1>7 DEF Reserve
<1>8. CASE CreateBranch(r) \/ PushTag(r) \/ Upload(r)
  BY <1>1, <1>3, <1>8 DEF CreateBranch, PushTag, Upload
<1>9. CASE CreateDraft(r)
  BY <1>1, <1>2, <1>3, <1>9 DEF CreateDraft
<1>10. CASE Publish(r)
  BY <1>1, <1>2, <1>3, <1>10 DEF Publish
<1>11. CASE Consume(r)
  <2>1. PICK fate \in WriteFates :
          /\ WriteState(seen[r], WithFloor(seen[r], plan[r].number), fate)
          /\ \/ /\ Written(seen[r], fate)
                /\ seen' = [seen EXCEPT ![r] = WithFloor(seen[r], plan[r].number)]
             \/ Leave(r, "failed")
    BY <1>11 DEF Consume
  <2>2. CASE Leave(r, "failed")
    BY <1>1, <1>2, <2>2
  <2>3. CASE /\ Written(seen[r], fate)
             /\ seen' = [seen EXCEPT ![r] = WithFloor(seen[r], plan[r].number)]
    BY <1>11, <2>1, <2>3 DEF Consume, Consumes, WriteState, Written, RunTypes
  <2> QED
    BY <2>1, <2>2, <2>3
<1> QED
  BY <1>4, <1>5, <1>6, <1>7, <1>8, <1>9, <1>10, <1>11 DEF Step
-----------------------------------------------------------------------------
(* The ledger.                                                             *)

LEMMA ReservedMember ==
  \A state : \A p : p \in Reserved(state) <=>
    \E r \in Runs : p = state.plans[r] /\ p # NoPlan
BY DEF Reserved

\* A write that reserves keeps every reservation, raises the counter and
\* gives the run a number and a tag no other run has.
LEMMA ReservationKeeps ==
  ASSUME TypeInv, LedgerInv, NEW r \in Runs, Reserves(r)
  PROVE  /\ ledger' \in Ledger /\ Readable(ledger') /\ branch
         /\ Durable /\ Distinct(ledger')
         /\ \A q \in Runs : ledger'.plans[q] # NoPlan => InOrder(ledger'.plans[q], q)
         /\ ledger'.floor = ledger.floor
         /\ ledger'.plans = [ledger.plans EXCEPT ![r] = plan[r]]
         /\ ledger.plans[r] = NoPlan /\ plan[r] \in Plan
         /\ plan[r].number > ledger.counter /\ plan[r].number > ledger.floor
<1>1. /\ ledger \in Ledger /\ Readable(ledger) /\ branch /\ pc[r] = "allot"
      /\ plan[r] \in Plan /\ plan[r] # NoPlan
  BY TypeParts DEF LedgerTypes, RunTypes, Active, Reserves
<1>2. /\ plan[r].number = NextNumber(ledger) /\ InOrder(plan[r], r)
      /\ ledger.plans[r] = NoPlan
      /\ plan[r].channel # "nightly" =>
           \A p \in Reserved(ledger) : TagOf(p) # TagOf(plan[r])
  BY <1>1 DEF LedgerInv, Knows, Reserves
<1>3. plan[r].number \in Nat /\ ledger.counter \in Nat /\ ledger.floor \in Nat
      /\ ledger.floor <= ledger.counter
  BY <1>1 DEF Plan, Ledger, Readable
<1>4. plan[r].number > ledger.counter
  BY <1>2, <1>3, FloorAssumption DEF NextNumber, Greater
<1>5. /\ ledger'.counter = plan[r].number /\ ledger'.floor = ledger.floor
      /\ ledger'.plans = [ledger.plans EXCEPT ![r] = plan[r]]
      /\ ledger' \in Ledger
  BY <1>1, <1>3 DEF Reserves, WithReservation, Ledger
<1>6. ledger.plans \in [Runs -> Plan \cup {NoPlan}]
  BY <1>1 DEF Ledger
<1>7. \A q \in Runs : /\ q # r => ledger'.plans[q] = ledger.plans[q]
                      /\ ledger.plans[q] # NoPlan =>
                           /\ ledger.plans[q].number \in Nat
                           /\ ledger.plans[q].number <= ledger.counter
      /\ ledger'.plans[r] = plan[r]
  BY <1>1, <1>5, <1>6 DEF Readable, Plan
<1>8. Readable(ledger')
  BY <1>3, <1>4, <1>5, <1>7 DEF Readable
<1>9. Durable
  BY <1>2, <1>3, <1>4, <1>5, <1>7 DEF Durable
<1>10. \A q \in Runs : q # r /\ ledger.plans[q] # NoPlan =>
         TagOf(ledger.plans[q]) # TagOf(plan[r])
  <2> SUFFICES ASSUME NEW q \in Runs, q # r, ledger.plans[q] # NoPlan
               PROVE  TagOf(ledger.plans[q]) # TagOf(plan[r])
    OBVIOUS
  <2>1. CASE plan[r].channel # "nightly"
    BY <1>2, <2>1, ReservedMember
  <2>2. CASE plan[r].channel = "nightly"
    <3>1. InOrder(ledger.plans[q], q)
      BY DEF LedgerInv
    <3> QED
      BY <1>2, <2>2, <3>1 DEF InOrder, TagOf
  <2> QED
    BY <2>1, <2>2
<1>11. Distinct(ledger')
  <2> SUFFICES ASSUME NEW p \in Runs, NEW q \in Runs, p # q,
                      ledger'.plans[p] # NoPlan, ledger'.plans[q] # NoPlan
               PROVE  /\ ledger'.plans[p].number # ledger'.plans[q].number
                      /\ TagOf(ledger'.plans[p]) # TagOf(ledger'.plans[q])
    BY DEF Distinct
  <2>1. CASE p # r /\ q # r
    BY <1>7, <2>1 DEF LedgerInv, Distinct
  <2>2. CASE p = r
    BY <1>3, <1>4, <1>7, <1>10, <2>2
  <2>3. CASE q = r
    BY <1>3, <1>4, <1>7, <1>10, <2>3
  <2> QED
    BY <2>1, <2>2, <2>3
<1>12. \A q \in Runs : ledger'.plans[q] # NoPlan => InOrder(ledger'.plans[q], q)
  BY <1>2, <1>7 DEF LedgerInv
<1> QED
  BY <1>1, <1>2, <1>3, <1>4, <1>5, <1>8, <1>9, <1>11, <1>12

\* A write that consumes raises the floor to the number of a reservation.
LEMMA ConsumptionKeeps ==
  ASSUME TypeInv, LedgerInv, NEW r \in Runs, Consumes(r)
  PROVE  /\ ledger' \in Ledger /\ Readable(ledger')
         /\ ledger # EmptyLedger
         /\ ledger'.plans = ledger.plans /\ ledger'.counter = ledger.counter
         /\ ledger'.floor = plan[r].number /\ ledger'.floor >= ledger.floor
         /\ plan[r] \in Reserved(ledger)
<1>1. /\ ledger \in Ledger /\ Readable(ledger) /\ pc[r] = "consume"
      /\ plan[r] \in Reserved(ledger) /\ plan[r].number >= ledger.floor
  BY TypeParts DEF LedgerTypes, LedgerInv, Knows, Consumes
<1>2. PICK q \in Runs : plan[r] = ledger.plans[q] /\ ledger.plans[q] # NoPlan
  BY <1>1, ReservedMember
<1>3. plan[r] \in Plan /\ plan[r].number <= ledger.counter
  BY <1>1, <1>2 DEF Ledger, Readable
<1>4. ledger # EmptyLedger
  BY <1>2 DEF EmptyLedger
<1>5. /\ ledger'.plans = ledger.plans /\ ledger'.counter = ledger.counter
      /\ ledger'.floor = plan[r].number /\ ledger' \in Ledger
  BY <1>1, <1>3 DEF Consumes, WithFloor, Ledger, Plan
<1> QED
  BY <1>1, <1>3, <1>4, <1>5 DEF Readable

\* Whatever a run does, the ledger stays typed and readable, loses nothing,
\* and keeps numbers and tags apart.
LEMMA LedgerStep ==
  ASSUME TypeInv, LedgerInv, NEW r \in Runs, Step(r)
  PROVE  /\ LedgerTypes' /\ Durable /\ Distinct(ledger')
         /\ \A q \in Runs : ledger'.plans[q] # NoPlan => InOrder(ledger'.plans[q], q)
<1>1. LedgerTypes /\ ledger.counter \in Nat /\ ledger.floor \in Nat
  BY TypeParts DEF LedgerTypes, Ledger
<1>2. CASE UNCHANGED ledger /\ branch' \in BOOLEAN /\ (branch => branch')
  BY <1>1, <1>2 DEF LedgerTypes, Durable, LedgerInv
<1>3. CASE Reserves(r) /\ UNCHANGED branch
  BY <1>1, <1>3, ReservationKeeps DEF LedgerTypes
<1>4. CASE Consumes(r) /\ UNCHANGED branch
  BY <1>1, <1>4, ConsumptionKeeps DEF LedgerTypes, Durable, LedgerInv, Distinct
<1>5. CASE CreateBranch(r) /\ UNCHANGED ledger
  BY <1>1, <1>2, <1>5 DEF CreateBranch
<1>6. CASE UNCHANGED <<ledger, branch>>
  BY <1>1, <1>2, <1>6 DEF LedgerTypes
<1> QED
  BY <1>3, <1>4, <1>5, <1>6, StepEffect

\* What is reserved stays reserved, below a floor that only rises.
LEMMA DurableReserved ==
  ASSUME LedgerTypes, LedgerTypes', Durable, NEW p \in Reserved(ledger)
  PROVE  /\ p \in Reserved(ledger') /\ p \in Plan
         /\ p.number <= ledger.floor => p.number <= ledger'.floor
<1>1. PICK r \in Runs : p = ledger.plans[r] /\ p # NoPlan
  BY ReservedMember
<1>2. p \in Plan /\ p = ledger'.plans[r]
  BY <1>1 DEF LedgerTypes, Ledger, Durable
<1>3. ledger.floor \in Nat /\ ledger'.floor \in Nat /\ p.number \in Nat
      /\ ledger.floor <= ledger'.floor
  BY <1>2 DEF LedgerTypes, Ledger, Plan, Durable
<1> QED
  BY <1>1, <1>2, <1>3, ReservedMember

\* CreatePlan takes a number above every one it has read, and a tag that no
\* reservation it has read has.
LEMMA CreatedPlanKnows ==
  ASSUME TypeInv, LedgerInv, NEW r \in Runs, CreatePlan(r), pc'[r] = "allot"
  PROVE  Knows(r)'
<1> DEFINE base == BaseOf(job[r].sha)
           new == [base |-> base, channel |-> job[r].channel,
                   seq |-> SequenceFor(r, base), sha |-> job[r].sha,
                   number |-> NextNumber(seen[r])]
<1>1. /\ pc[r] = "reserve" /\ UNCHANGED seen /\ plan'[r] = new
      /\ seen[r] \in Ledger
  BY TypeParts DEF CreatePlan, RunTypes
<1>2. Readable(seen[r]) /\ seen[r].plans[r] = NoPlan
  BY <1>1 DEF LedgerInv, Knows
<1>3. new.number >= 1
  BY <1>1, FloorAssumption DEF NextNumber, Greater, Ledger
<1>4. job[r].channel # "stable" /\ (job[r].channel = "nightly" => new.seq = r)
  BY <1>1, TypeParts DEF JobsOK, Promotion, SequenceFor
<1>5. ASSUME new.channel # "nightly", NEW p \in Reserved(seen[r])
      PROVE  TagOf(p) # TagOf(new)
  <2>1. Listed \in SUBSET Tag /\ IsFiniteSet(Listed)
    BY ListedFinite
  <2>2. p.base = base /\ p.channel = job[r].channel => p.seq < new.seq
    BY <1>1, <1>5, <2>1, NextSequenceProperties DEF SequenceFor
  <2>3. p \in Plan
    BY <1>1, ReservedMember DEF Ledger
  <2> QED
    BY <2>2, <2>3 DEF TagOf, Plan
<1> HIDE DEF new
<1>6. plan'[r].number = NextNumber(seen[r]) /\ InOrder(plan'[r], r)
  BY <1>1, <1>3, <1>4 DEF InOrder, new
<1>7. plan'[r].channel # "nightly" =>
        \A p \in Reserved(seen'[r]) : TagOf(p) # TagOf(plan'[r])
  BY <1>1, <1>5
<1> QED
  BY <1>1, <1>2, <1>6, <1>7 DEF Knows, Spent

\* Between what a run checks at the start of a publication and the write that
\* consumes its number there is only the ledger it checked.
LEMMA BegunKnows ==
  ASSUME TypeInv, LedgerInv, NEW r \in Runs, BeginPublication(r),
         pc'[r] = "consume"
  PROVE  /\ Knows(r)' /\ seen'[r] = ledger
         /\ plan'[r] = plan[r] /\ plan[r] \in Reserved(ledger)
         /\ IF Promotion(r) THEN VerifyPromotionOrder(ledger, plan[r], Published)
            ELSE VerifyReservation(ledger, r, plan[r], Published)
<1>1. PICK state \in ReadState :
        /\ IF Promotion(r)
           THEN VerifyPromotionOrder(state, plan[r], Published)
           ELSE VerifyReservation(state, r, plan[r], Published)
        /\ seen' = [seen EXCEPT ![r] = state]
  BY DEF BeginPublication
<1>2. /\ state \in Ledger /\ Readable(state) /\ state \in {ledger, EmptyLedger}
      /\ seen'[r] = state /\ plan' = plan
  BY <1>1, TypeParts, ReadStateProperties DEF RunTypes, BeginPublication
<1>3. plan[r] # NoPlan /\ plan[r] \in Plan
  BY <1>1, TypeParts DEF VerifyPromotionOrder, VerifyReservation, RunTypes
<1>4. plan[r] \in Reserved(state)
  <2>1. CASE Promotion(r)
    <3>1. Cardinality({q \in Runs : state.plans[q] = plan[r]}) = 1
      BY <1>1, <2>1 DEF VerifyPromotionOrder
    <3>2. {q \in Runs : state.plans[q] = plan[r]} # {}
      BY <3>1, FS_EmptySet
    <3> QED
      BY <1>3, <3>2, ReservedMember
  <2>2. CASE ~Promotion(r)
    BY <1>1, <1>3, <2>2, ReservedMember DEF VerifyReservation
  <2> QED
    BY <2>1, <2>2
<1>5. plan[r].number >= state.floor
  BY <1>1, <1>2, <1>3 DEF VerifyPromotionOrder, VerifyReservation, Ledger, Plan
<1>6. Knows(r)'
  BY <1>2, <1>4, <1>5 DEF Knows, Spent
<1>7. Reserved(EmptyLedger) = {}
  BY DEF Reserved, EmptyLedger
<1> QED
  BY <1>1, <1>2, <1>4, <1>6, <1>7

\* Every run still knows what it may act on after a step of any run.
LEMMA KnowsStep ==
  ASSUME TypeInv, LedgerInv, NEW r \in Runs, Step(r)
  PROVE  \A q \in Runs : Knows(q)'
<1>1. LedgerTypes' /\ LedgerTypes /\ Durable /\ RunTypes /\ RunTypes'
  BY LedgerStep, StepRunTyped, TypeParts
<1>2. ASSUME NEW q \in Runs, q # r PROVE Knows(q)'
  <2>1. pc'[q] = pc[q] /\ plan'[q] = plan[q] /\ seen'[q] = seen[q]
    BY <1>1, <1>2, StepElsewhere DEF Elsewhere
  <2>2. Knows(q)
    BY DEF LedgerInv
  <2>3. pc[q] \in Spent =>
          plan[q] \in Reserved(ledger') /\ plan[q].number <= ledger'.floor
    BY <1>1, <2>2, DurableReserved DEF Knows
  <2> QED
    BY <2>1, <2>2, <2>3 DEF Knows
<1> SUFFICES Knows(r)'
  BY <1>2
<1>3. Knows(r)
  BY DEF LedgerInv
<1>4. Readable(seen'[r])
  <2>1. Readable(EmptyLedger)
    BY DEF Readable, EmptyLedger
  <2>2. \/ seen'[r] = seen[r] \/ seen'[r] \in ReadState \/ seen'[r] = EmptyLedger
        \/ seen'[r] = WithFloor(seen[r], plan[r].number) /\ Consumes(r)
    BY <1>1, SeenStep
  <2>3. CASE seen'[r] = WithFloor(seen[r], plan[r].number) /\ Consumes(r)
    BY <2>3, ConsumptionKeeps DEF Consumes
  <2> QED
    BY <1>1, <1>3, <2>1, <2>2, <2>3, ReadStateProperties DEF Knows
<1>5. CASE pc'[r] \notin {"reserve", "allot", "consume"} \cup Spent
  BY <1>4, <1>5 DEF Knows
<1>6. CASE ReadLedger(r) /\ pc'[r] = "reserve"
  <2>1. PICK state \in ReadState : \/ /\ state.plans[r] = NoPlan
                                      /\ seen' = [seen EXCEPT ![r] = state]
                                   \/ Goto(r, "gate")
    BY <1>6 DEF ReadLedger
  <2>2. ~Goto(r, "gate")
    BY <1>1, <1>6 DEF Goto, RunTypes
  <2> QED
    BY <1>1, <1>4, <1>6, <2>1, <2>2 DEF Knows, RunTypes, Spent
<1>7. CASE CreatePlan(r) /\ pc'[r] = "allot"
  BY <1>7, CreatedPlanKnows
<1>8. CASE CreateBranch(r) /\ pc'[r] = "allot" /\ UNCHANGED <<plan, seen>>
  <2>1. pc[r] = "allot"
    BY <1>8 DEF CreateBranch
  <2> QED
    BY <1>3, <1>8, <2>1 DEF Knows, Spent
<1>9. CASE BeginPublication(r) /\ pc'[r] = "consume"
  BY <1>9, BegunKnows
<1>10. CASE Consumes(r) /\ pc'[r] = "tag" /\ UNCHANGED plan
  <2>1. plan[r] \in Reserved(ledger') /\ plan[r].number <= ledger'.floor
    BY <1>1, <1>10, ConsumptionKeeps, DurableReserved DEF LedgerTypes, Ledger, Plan
  <2> QED
    BY <1>4, <1>10, <2>1 DEF Knows, Spent
<1>11. CASE pc[r] \in Spent /\ pc'[r] \in Spent /\ plan'[r] = plan[r]
  <2>1. plan[r] \in Reserved(ledger') /\ plan[r].number <= ledger'.floor
    BY <1>1, <1>3, <1>11, DurableReserved DEF Knows
  <2> QED
    BY <1>4, <1>11, <2>1 DEF Knows, Spent
<1>12. \/ pc'[r] \notin {"reserve", "allot", "consume"} \cup Spent
       \/ ReadLedger(r) /\ pc'[r] = "reserve"
       \/ CreatePlan(r) /\ pc'[r] = "allot"
       \/ CreateBranch(r) /\ pc'[r] = "allot" /\ UNCHANGED <<plan, seen>>
       \/ BeginPublication(r) /\ pc'[r] = "consume"
       \/ Consumes(r) /\ pc'[r] = "tag" /\ UNCHANGED plan
       \/ pc[r] \in Spent /\ pc'[r] \in Spent /\ plan'[r] = plan[r]
  <2>1. ASSUME PushTag(r) \/ CreateDraft(r) \/ Reconcile(r) \/ Reread(r)
               \/ Upload(r) \/ Confirm(r)
        PROVE pc[r] \in Spent
    BY <2>1 DEF PushTag, CreateDraft, Reconcile, Reread, Upload, Confirm, Spent
  <2>2. ASSUME Reconcile(r) \/ Reread(r) \/ Confirm(r) PROVE UNCHANGED plan
    BY <2>2 DEF Reconcile, Reread, Confirm
  <2> QED
    BY <1>1, <2>1, <2>2, StepStage DEF Spent, Ended
<1> QED
  BY <1>5, <1>6, <1>7, <1>8, <1>9, <1>10, <1>11, <1>12
-----------------------------------------------------------------------------
(* Tags and releases.                                                      *)

\* The draft a run uploads to and publishes is the one it created.
LEMMA OwnIsDraft ==
  ASSUME IInv, NEW r \in Runs, pc[r] \in Drafted
  PROVE  /\ Own(r) \in releases /\ OwnDraft(r, Own(r))
         /\ pc[r] = "upload" => Own(r).files # Files
         /\ pc[r] = "publish" => Own(r).files = Files
         /\ Own(r).fresh /\ Own(r) \in Release
<1>1. PICK x \in releases :
        /\ OwnDraft(r, x)
        /\ pc[r] = "upload" => x.files # Files
        /\ pc[r] = "publish" => x.files = Files
  BY DEF IInv, PublicationInv, Publishing
<1>2. Own(r) \in releases /\ Own(r).by = r /\ Own(r).tag = WorkTag(r)
  BY <1>1 DEF Own, OwnDraft
<1>3. Own(r) = x
  BY <1>1, <1>2 DEF IInv, PublicationInv, OneEach, OwnDraft
<1> QED
  BY <1>1, <1>3, TypeParts DEF IInv, PublicationInv, ReleaseOK, ReleaseTypes

\* The tag a run works on is a tag.
LEMMA WorkTagTyped ==
  ASSUME RunTypes, NEW r \in Runs, plan[r] # NoPlan
  PROVE  WorkTag(r) \in Tag /\ plan[r] \in Plan
BY DEF RunTypes, WorkTag, StableTag, TagOf, Tag, Plan, Channels

\* A pushed tag is a new one.
LEMMA TagStep ==
  ASSUME IInv, NEW r \in Runs, Step(r)
  PROVE  /\ TagTypes' /\ tags \subseteq tags'
         /\ \A t \in tags' \ tags :
              /\ Tags(r) /\ t = [tag |-> WorkTag(r), sha |-> plan[r].sha]
              /\ WorkTag(r) \notin Tagged
              /\ \A x \in releases : x.tag # WorkTag(r)
<1>1. TagTypes /\ RunTypes
  BY TypeParts DEF IInv
<1>2. CASE UNCHANGED tags
  BY <1>1, <1>2 DEF TagTypes
<1>3. CASE Tags(r)
  <2>1. plan[r] # NoPlan
    BY <1>1, <1>3 DEF Tags, RunTypes, Active
  <2>2. [tag |-> WorkTag(r), sha |-> plan[r].sha] \in [tag : Tag, sha : Commits]
    BY <1>1, <2>1, WorkTagTyped DEF Plan
  <2>3. WorkTag(r) \notin Tagged
    BY <1>3, AbsentIsAbsent DEF Tags, EnsureAbsent
  <2>4. \A x \in releases : x.tag # WorkTag(r)
    BY <1>3 DEF Tags, EnsureAbsent
  <2>5. IsFiniteSet(tags')
    BY <1>1, <1>3, FS_AddElement DEF TagTypes, Tags
  <2> QED
    BY <1>1, <1>3, <2>2, <2>3, <2>4, <2>5 DEF TagTypes, Tags
<1> QED
  BY <1>2, <1>3, StepEffect

\* A step can add or replace the one release of the tag its run holds; what
\* is published stays, and no tag gets a second release.
LEMMA ReleaseStep ==
  ASSUME IInv, NEW r \in Runs, Step(r)
  PROVE  /\ ReleaseTypes'
         /\ \A x \in releases \ releases' : x.draft /\ x = Own(r) /\ pc[r] \in Drafted
         /\ \A x \in releases' \ releases :
              /\ pc[r] \in Named /\ x.by = r /\ x.tag = WorkTag(r)
              /\ x.plan = plan[r] /\ x.fresh
              /\ ~x.draft => pc[r] = "publish" /\ x.files = Files
         /\ \A x, y \in releases' : x.tag = y.tag => x = y
<1>1. ReleaseTypes /\ RunTypes /\ PublicationInv
  BY TypeParts DEF IInv
<1>2. CASE UNCHANGED releases
  BY <1>1, <1>2 DEF ReleaseTypes, PublicationInv, OneEach
<1>3. CASE Drafts(r)
  <2>1. plan[r] # NoPlan /\ pc[r] = "create"
    BY <1>1, <1>3 DEF Drafts, RunTypes, Active
  <2>2. Draft(r) \in Release
    BY <1>1, <2>1, WorkTagTyped DEF Draft, Release, Promotion, GateReady
  <2>3. Draft(r).fresh
    BY <1>1, <2>1 DEF Draft, PublicationInv, Publishing, Spent
  <2>4. \A x \in releases : x.tag # WorkTag(r)
    BY <1>1, <2>1 DEF PublicationInv, Publishing
  <2>5. IsFiniteSet(releases')
    BY <1>1, <1>3, FS_AddElement DEF ReleaseTypes, Drafts
  <2>6. /\ Draft(r).tag = WorkTag(r) /\ Draft(r).by = r /\ Draft(r).plan = plan[r]
        /\ Draft(r).draft
    BY DEF Draft
  <2>7. releases' = releases \cup {Draft(r)}
    BY <1>3 DEF Drafts
  <2>8. \A x, y \in releases' : x.tag = y.tag => x = y
    BY <1>1, <2>4, <2>6, <2>7 DEF PublicationInv, OneEach
  <2> QED
    BY <1>1, <2>1, <2>2, <2>3, <2>5, <2>6, <2>7, <2>8 DEF ReleaseTypes, Named, Spent
<1>4. ASSUME NEW new \in Release, Replace(Own(r), new), pc[r] \in Drafted,
             new.by = r, new.tag = WorkTag(r), new.plan = plan[r], new.fresh,
             ~new.draft => pc[r] = "publish" /\ new.files = Files
      PROVE  /\ ReleaseTypes'
             /\ \A x \in releases \ releases' : x.draft /\ x = Own(r) /\ pc[r] \in Drafted
             /\ \A x \in releases' \ releases :
                  /\ pc[r] \in Named /\ x.by = r /\ x.tag = WorkTag(r)
                  /\ x.plan = plan[r] /\ x.fresh
                  /\ ~x.draft => pc[r] = "publish" /\ x.files = Files
             /\ \A x, y \in releases' : x.tag = y.tag => x = y
  <2>1. Own(r) \in releases /\ OwnDraft(r, Own(r))
    BY <1>4, OwnIsDraft
  <2>2. releases' = (releases \ {Own(r)}) \cup {new}
    BY <1>4 DEF Replace
  <2>3. \A x \in releases \ {Own(r)} : x.tag # WorkTag(r)
    BY <1>1, <2>1 DEF OwnDraft, PublicationInv, OneEach
  <2>4. IsFiniteSet(releases')
    BY <1>1, <2>2, FS_RemoveElement, FS_AddElement DEF ReleaseTypes
  <2>5. pc[r] \in Named
    BY <1>4 DEF Drafted, Named, Spent
  <2>6. \A x, y \in releases' : x.tag = y.tag => x = y
    BY <1>1, <1>4, <2>2, <2>3 DEF PublicationInv, OneEach
  <2> QED
    BY <1>1, <1>4, <2>1, <2>2, <2>4, <2>5, <2>6 DEF ReleaseTypes, OwnDraft
<1>5. CASE Uploads(r)
  <2> DEFINE file == Min(Files \ Own(r).files)
             new == [Own(r) EXCEPT !.files = @ \cup {file}]
  <2>1. pc[r] = "upload" /\ pc[r] \in Drafted /\ Replace(Own(r), new)
    BY <1>5 DEF Uploads, Drafted
  <2>2. /\ Own(r) \in Release /\ OwnDraft(r, Own(r)) /\ Own(r).fresh
        /\ Own(r).files # Files
    BY <2>1, OwnIsDraft
  <2>3. Files \ Own(r).files \in SUBSET Nat /\ Files \ Own(r).files # {}
    BY <2>2, FilesAssumption DEF Release
  <2>4. file \in Files
    BY <2>3, MinProperties
  <2> HIDE DEF file
  <2>5. /\ new \in Release /\ new.by = Own(r).by /\ new.tag = Own(r).tag
        /\ new.plan = Own(r).plan /\ new.fresh = Own(r).fresh
        /\ new.draft = Own(r).draft
    BY <2>2, <2>4 DEF Release
  <2> QED
    BY <1>4, <2>1, <2>2, <2>5 DEF OwnDraft
<1>6. CASE Publishes(r)
  <2> DEFINE new == [Own(r) EXCEPT !.draft = FALSE]
  <2>1. pc[r] = "publish" /\ pc[r] \in Drafted /\ Replace(Own(r), new)
    BY <1>6 DEF Publishes, Drafted
  <2>2. /\ Own(r) \in Release /\ OwnDraft(r, Own(r)) /\ Own(r).fresh
        /\ Own(r).files = Files
    BY <2>1, OwnIsDraft
  <2>3. /\ new \in Release /\ new.by = Own(r).by /\ new.tag = Own(r).tag
        /\ new.plan = Own(r).plan /\ new.fresh = Own(r).fresh
        /\ new.files = Own(r).files
    BY <2>2 DEF Release
  <2> QED
    BY <1>4, <2>1, <2>2, <2>3 DEF OwnDraft
<1> QED
  BY <1>2, <1>3, <1>5, <1>6, StepEffect

\* A publication that goes on does so with its plan and in order.
LEMMA SpentStep ==
  ASSUME RunTypes, NEW r \in Runs, Step(r), pc'[r] \in {"consume"} \cup Spent
  PROVE  /\ UNCHANGED <<job, plan>>
         /\ \/ BeginPublication(r) /\ pc[r] = "begin" /\ pc'[r] = "consume"
            \/ pc[r] = "consume" /\ Consumes(r) /\ pc'[r] = "tag"
            \/ pc[r] = "tag" /\ Tags(r) /\ pc'[r] = "create"
            \/ pc[r] = "create" /\ pc'[r] = "reconcile"
            \/ pc[r] = "create" /\ Drafts(r) /\ pc'[r] = "upload"
            \/ pc[r] = "reconcile" /\ pc'[r] = "reread"
            \/ /\ pc[r] = "reread" /\ pc'[r] = "upload"
               /\ Draft(r) \in releases /\ UNCHANGED releases
            \/ /\ pc[r] = "upload" /\ Uploads(r)
               /\ pc'[r] = IF Own(r).files \cup {Min(Files \ Own(r).files)} = Files
                           THEN "confirm" ELSE "upload"
            \/ /\ pc[r] = "confirm" /\ pc'[r] = "publish"
               /\ Own(r).files = Files /\ UNCHANGED releases
<1>1. CASE BeginPublication(r) \/ Reconcile(r) \/ Reread(r) \/ Confirm(r)
  <2>1. UNCHANGED <<job, plan, releases>>
    BY <1>1 DEF BeginPublication, Reconcile, Reread, Confirm, hub
  <2>2. CASE BeginPublication(r)
    BY <2>1, <2>2 DEF BeginPublication, RunTypes, Goto
  <2>3. CASE Reconcile(r)
    BY <2>1, <2>3 DEF Reconcile, RunTypes, Goto
  <2>4. CASE Reread(r)
    BY <2>1, <2>4 DEF Reread, RunTypes, Goto
  <2>5. CASE Confirm(r)
    BY <2>1, <2>5 DEF Confirm, RunTypes, Goto
  <2> QED
    BY <1>1, <2>2, <2>3, <2>4, <2>5
<1>2. CASE Consumes(r) /\ Consume(r) /\ pc'[r] = "tag" /\ UNCHANGED plan
  BY <1>2 DEF Consumes, Consume
<1>3. CASE PushTag(r) /\ Tags(r) /\ pc'[r] = "create" /\ UNCHANGED plan
  BY <1>3 DEF Tags, PushTag
<1>4. CASE CreateDraft(r) /\ UNCHANGED plan
           /\ (pc'[r] = "reconcile" \/ (Drafts(r) /\ pc'[r] = "upload"))
  BY <1>4 DEF CreateDraft
<1>5. CASE /\ Upload(r) /\ Uploads(r) /\ UNCHANGED plan
           /\ pc'[r] = IF Own(r).files \cup {Min(Files \ Own(r).files)} = Files
                       THEN "confirm" ELSE "upload"
  BY <1>5 DEF Upload
<1>6. pc'[r] \notin Ended /\ pc'[r] \notin {"gate", "prepare", "candidate", "reserve",
        "allot", "staged", "begin", "copy", "evidence"}
  BY DEF Spent, Ended
<1>7. \/ BeginPublication(r) \/ Reconcile(r) \/ Reread(r) \/ Confirm(r)
      \/ Consumes(r) /\ Consume(r) /\ pc'[r] = "tag" /\ UNCHANGED plan
      \/ PushTag(r) /\ Tags(r) /\ pc'[r] = "create" /\ UNCHANGED plan
      \/ CreateDraft(r) /\ UNCHANGED plan
           /\ (pc'[r] = "reconcile" \/ (Drafts(r) /\ pc'[r] = "upload"))
      \/ /\ Upload(r) /\ Uploads(r) /\ UNCHANGED plan
         /\ pc'[r] = IF Own(r).files \cup {Min(Files \ Own(r).files)} = Files
                     THEN "confirm" ELSE "upload"
  BY <1>6, StepStage
<1> QED
  BY <1>1, <1>2, <1>3, <1>4, <1>5, <1>7

\* Nothing that is published disappears.
LEMMA PublishedStays ==
  ASSUME IInv, NEW r \in Runs, Step(r)
  PROVE  Published \subseteq Published'
BY ReleaseStep DEF Published

\* A run that holds a tag still holds it, and no two runs the same.
LEMMA NamedStep ==
  ASSUME IInv, NEW r \in Runs, Step(r)
  PROVE  /\ OneEach'
         /\ \A q \in Runs : pc'[q] \in Named => HasTag(WorkTag(q), plan[q].sha)'
<1>1. RunTypes /\ RunTypes' /\ PublicationInv /\ tags \subseteq tags'
  BY TypeParts, StepRunTyped, TagStep DEF IInv
<1>2. ASSUME NEW q \in Runs, pc'[q] \in Named
      PROVE  /\ WorkTag(q)' = WorkTag(q) /\ plan'[q] = plan[q]
             /\ \/ pc[q] \in Named
                \/ q = r /\ Tags(r)
  <2>1. CASE q # r
    <3>1. job'[q] = job[q] /\ plan'[q] = plan[q] /\ pc'[q] = pc[q]
      BY <1>1, <2>1, StepElsewhere DEF Elsewhere
    <3> QED
      BY <1>2, <3>1 DEF WorkTag, Promotion
  <2>2. CASE q = r
    <3>1. UNCHANGED <<job, plan>> /\ (pc[r] \in Named \/ Tags(r))
      BY <1>1, <1>2, <2>2, SpentStep DEF Named, Spent
    <3> QED
      BY <2>2, <3>1 DEF WorkTag, Promotion
  <2> QED
    BY <2>1, <2>2
<1>3. \A q \in Runs : pc[q] \in Named => WorkTag(q) \in Tagged
  <2>1. \A q \in Runs : pc[q] \in Named => HasTag(WorkTag(q), plan[q].sha)
    BY <1>1 DEF PublicationInv, Publishing
  <2>2. ASSUME NEW tag, NEW sha, HasTag(tag, sha) PROVE tag \in Tagged
    BY <2>2 DEF HasTag, Tagged
  <2> QED
    BY <2>1, <2>2
<1>4. Tags(r) => WorkTag(r) \notin Tagged
  BY AbsentIsAbsent DEF Tags, EnsureAbsent
<1>5. \A p, q \in Runs : p # q /\ pc'[p] \in Named /\ pc'[q] \in Named
                          => WorkTag(p)' # WorkTag(q)'
  <2> SUFFICES ASSUME NEW p \in Runs, NEW q \in Runs, p # q, pc'[p] \in Named,
                      pc'[q] \in Named
               PROVE  WorkTag(p) # WorkTag(q)
    BY <1>2
  <2>1. CASE pc[p] \in Named /\ pc[q] \in Named
    BY <1>1, <2>1 DEF PublicationInv, OneEach
  <2>2. CASE p = r /\ Tags(r)
    <3>1. pc[q] \in Named
      BY <1>2, <2>2
    <3> QED
      BY <1>3, <1>4, <2>2, <3>1
  <2>3. CASE q = r /\ Tags(r)
    <3>1. pc[p] \in Named
      BY <1>2, <2>3
    <3> QED
      BY <1>3, <1>4, <2>3, <3>1
  <2> QED
    BY <1>2, <2>1, <2>2, <2>3
<1>6. \A t, u \in tags' : t.tag = u.tag => t = u
  BY <1>1, TagStep DEF PublicationInv, OneEach, Tagged
<1>7. OneEach'
  BY <1>5, <1>6, ReleaseStep DEF OneEach
<1>8. ASSUME NEW q \in Runs, pc'[q] \in Named
      PROVE  HasTag(WorkTag(q), plan[q].sha)'
  <2>1. CASE pc[q] \in Named
    <3>1. HasTag(WorkTag(q), plan[q].sha)
      BY <1>1, <2>1 DEF PublicationInv, Publishing
    <3> QED
      BY <1>1, <1>2, <1>8, <3>1 DEF HasTag
  <2>2. CASE q = r /\ Tags(r)
    BY <1>2, <1>8, <2>2 DEF HasTag, Tags
  <2> QED
    BY <1>2, <1>8, <2>1, <2>2
<1> QED
  BY <1>7, <1>8

\* Every release is still of a consumed number, complete when it is public,
\* and under the tag of its plan or of the version it was promoted to.
LEMMA ReleaseOKStep ==
  ASSUME IInv, NEW r \in Runs, Step(r)
  PROVE  \A x \in releases' : ReleaseOK(x)'
<1>1. LedgerTypes /\ LedgerTypes' /\ Durable /\ tags \subseteq tags'
      /\ Published \subseteq Published'
  BY TypeParts, LedgerStep, TagStep, PublishedStays DEF IInv
<1> SUFFICES ASSUME NEW x \in releases' PROVE ReleaseOK(x)'
  OBVIOUS
<1>2. CASE x \in releases
  <2>1. ReleaseOK(x)
    BY <1>2 DEF IInv, PublicationInv
  <2> HIDE <1>2
  <2>2. x.plan \in Reserved(ledger') /\ x.plan.number <= ledger'.floor
    BY <1>1, <2>1, DurableReserved DEF ReleaseOK
  <2> QED
    BY <1>1, <2>1, <2>2 DEF ReleaseOK, HasTag
<1>3. CASE x \notin releases
  <2>1. /\ pc[r] \in Named /\ x.tag = WorkTag(r) /\ x.plan = plan[r] /\ x.fresh
        /\ ~x.draft => x.files = Files
    BY <1>3, ReleaseStep
  <2>2. pc[r] \in Spent /\ Knows(r) /\ Publishing(r)
    BY <2>1 DEF Named, IInv, LedgerInv, PublicationInv
  <2>3. plan[r] \in Reserved(ledger') /\ plan[r].number <= ledger'.floor
    BY <1>1, <2>2, DurableReserved DEF Knows
  <2>4. HasTag(x.tag, x.plan.sha)'
    BY <1>1, <2>1, <2>2 DEF Publishing, HasTag
  <2>5. \/ x.tag = TagOf(plan[r])
        \/ x.tag = StableTag(plan[r].base) /\ TagOf(plan[r]) \in Published'
    BY <1>1, <2>1, <2>2 DEF Publishing, WorkTag
  <2> QED
    BY <2>1, <2>3, <2>4, <2>5 DEF ReleaseOK
<1> QED
  BY <1>2, <1>3

\* A run that publishes: what it checked, the tag it holds and the draft it
\* works on stay as they are, whoever takes the step.
LEMMA PublishingStep ==
  ASSUME IInv, NEW r \in Runs, Step(r)
  PROVE  \A q \in Runs : Publishing(q)'
<1>1. /\ RunTypes /\ RunTypes' /\ PublicationInv /\ TypeInv /\ LedgerInv
      /\ Published \subseteq Published'
  BY TypeParts, StepRunTyped, PublishedStays DEF IInv
<1>2. ASSUME NEW q \in Runs, q # r PROVE Publishing(q)'
  <2>1. /\ pc'[q] = pc[q] /\ job'[q] = job[q] /\ plan'[q] = plan[q]
        /\ WorkTag(q)' = WorkTag(q) /\ (Promotion(q)' <=> Promotion(q))
        /\ (GateReady(q)' <=> GateReady(q))
    BY <1>1, <1>2, StepElsewhere DEF Elsewhere, WorkTag, Promotion, GateReady
  <2>2. Publishing(q)
    BY <1>1 DEF PublicationInv
  <2>3. pc[q] \in Named /\ pc[r] \in Named => WorkTag(q) # WorkTag(r)
    BY <1>1, <1>2 DEF PublicationInv, OneEach
  <2>4. pc[q] = "create" => \A x \in releases' : x.tag # WorkTag(q)
    <3> SUFFICES ASSUME pc[q] = "create", NEW x \in releases'
                 PROVE  x.tag # WorkTag(q)
      OBVIOUS
    <3>1. CASE x \in releases
      BY <2>2, <3>1 DEF Publishing
    <3>2. CASE x \notin releases
      BY <2>3, <3>2, ReleaseStep DEF Named, Spent
    <3> QED
      BY <3>1, <3>2
  <2>5. pc[q] \in Drafted => \E x \in releases' :
          /\ x.by = q /\ x.tag = WorkTag(q) /\ x.plan = plan[q] /\ x.draft
          /\ pc[q] = "upload" => x.files # Files
          /\ pc[q] = "publish" => x.files = Files
    <3> SUFFICES ASSUME pc[q] \in Drafted
                 PROVE  \E x \in releases' :
                          /\ x.by = q /\ x.tag = WorkTag(q) /\ x.plan = plan[q]
                          /\ x.draft
                          /\ pc[q] = "upload" => x.files # Files
                          /\ pc[q] = "publish" => x.files = Files
      OBVIOUS
    <3>1. PICK x \in releases :
            /\ x.by = q /\ x.tag = WorkTag(q) /\ x.plan = plan[q] /\ x.draft
            /\ pc[q] = "upload" => x.files # Files
            /\ pc[q] = "publish" => x.files = Files
      BY <2>2 DEF Publishing, OwnDraft
    <3>2. x \in releases'
      <4> SUFFICES ASSUME x \notin releases' PROVE FALSE
        OBVIOUS
      <4>1. x = Own(r) /\ pc[r] \in Drafted
        BY ReleaseStep
      <4>2. x.by = r
        BY <4>1, OwnIsDraft DEF OwnDraft
      <4> QED
        BY <1>2, <3>1, <4>2
    <3> QED
      BY <3>1, <3>2
  <2>6. pc[q] \in Named => HasTag(WorkTag(q), plan[q].sha)'
    BY <2>1, NamedStep
  <2> QED
    BY <1>1, <2>1, <2>2, <2>4, <2>5, <2>6 DEF Publishing, OwnDraft
<1> SUFFICES Publishing(r)'
  BY <1>2
<1>3. Publishing(r)
  BY <1>1 DEF PublicationInv
<1>4. pc'[r] \in Named => HasTag(WorkTag(r), plan[r].sha)'
  BY NamedStep
<1>5. ASSUME pc'[r] \in {"staged", "begin", "consume"} \cup Spent
      PROVE  UNCHANGED job /\ (Promotion(r) \/ GateReady(r))
  <2>1. CASE pc'[r] \in {"consume"} \cup Spent
    <3>1. UNCHANGED job /\ pc[r] \in {"begin", "consume"} \cup Spent
      BY <1>1, <2>1, SpentStep DEF Spent
    <3> QED
      BY <1>3, <3>1 DEF Publishing
  <2>2. CASE pc'[r] = "staged"
    <3>1. Check(r)
      BY <1>1, <2>2, StepStage DEF Ended
    <3> QED
      BY <3>1 DEF Check
  <2>3. CASE pc'[r] = "begin"
    <3>1. Recheck(r) \/ CopyCandidate(r)
      BY <1>1, <2>3, StepStage DEF Ended
    <3>2. CASE Recheck(r)
      BY <1>3, <3>2 DEF Recheck, Publishing
    <3>3. CASE CopyCandidate(r)
      BY <1>1, <3>3, TypeParts DEF CopyCandidate, JobsOK
    <3> QED
      BY <3>1, <3>2, <3>3
  <2> QED
    BY <1>5, <2>1, <2>2, <2>3
<1>6. pc'[r] \in {"staged", "begin", "consume"} \cup Spent
        => (Promotion(r) \/ GateReady(r))'
  BY <1>5 DEF Promotion, GateReady
<1>7. ASSUME pc'[r] \in {"consume"} \cup Spent, Promotion(r)'
      PROVE  plan'[r].channel = "rc" /\ TagOf(plan'[r]) \in Published'
  <2>1. UNCHANGED <<job, plan>> /\ Promotion(r)
    BY <1>1, <1>7, SpentStep DEF Promotion
  <2>2. CASE BeginPublication(r) /\ pc'[r] = "consume"
    BY <1>1, <2>1, <2>2, BegunKnows DEF VerifyPromotionOrder
  <2>3. CASE pc[r] \in {"consume"} \cup Spent
    BY <1>1, <1>3, <2>1, <2>3 DEF Publishing
  <2> QED
    BY <1>1, <1>7, <2>2, <2>3, SpentStep DEF Spent
<1>8. pc'[r] = "create" => \A x \in releases' : x.tag # WorkTag(r)'
  <2> SUFFICES ASSUME pc'[r] = "create" PROVE \A x \in releases' : x.tag # WorkTag(r)'
    OBVIOUS
  <2>1. UNCHANGED <<job, plan>> /\ Tags(r) /\ pc[r] = "tag"
    BY <1>1, SpentStep DEF Spent
  <2>2. \A x \in releases : x.tag # WorkTag(r)
    BY <2>1 DEF Tags, EnsureAbsent
  <2>3. releases' = releases
    BY <2>1, StepEffect DEF Drafts, Uploads, Publishes
  <2> QED
    BY <2>1, <2>2, <2>3 DEF WorkTag, Promotion
<1>9. ASSUME pc'[r] \in Drafted
      PROVE  \E x \in releases' : /\ OwnDraft(r, x)'
                                  /\ pc'[r] = "upload" => x.files # Files
                                  /\ pc'[r] = "publish" => x.files = Files
  <2>1. UNCHANGED <<job, plan>> /\ WorkTag(r)' = WorkTag(r)
    BY <1>1, <1>9, SpentStep DEF Drafted, Spent, WorkTag, Promotion
  <2>2. /\ Draft(r).by = r /\ Draft(r).tag = WorkTag(r) /\ Draft(r).plan = plan[r]
        /\ Draft(r).draft /\ Draft(r).files # Files
    BY FilesAssumption DEF Draft
  <2>3. CASE pc[r] = "create" /\ Drafts(r) /\ pc'[r] = "upload"
    BY <2>1, <2>2, <2>3 DEF Drafts, OwnDraft
  <2>4. CASE /\ pc[r] = "reread" /\ pc'[r] = "upload"
             /\ Draft(r) \in releases /\ UNCHANGED releases
    BY <2>1, <2>2, <2>4 DEF OwnDraft
  <2>5. CASE /\ pc[r] = "upload" /\ Uploads(r)
             /\ pc'[r] = IF Own(r).files \cup {Min(Files \ Own(r).files)} = Files
                         THEN "confirm" ELSE "upload"
    <3> DEFINE files == Own(r).files \cup {Min(Files \ Own(r).files)}
               new == [Own(r) EXCEPT !.files = files]
    <3>1. Own(r) \in Release /\ OwnDraft(r, Own(r))
      BY <2>5, OwnIsDraft DEF Drafted
    <3>2. new \in releases'
      BY <2>5 DEF Uploads, Replace
    <3> HIDE DEF files
    <3>3. /\ new.by = Own(r).by /\ new.tag = Own(r).tag /\ new.plan = Own(r).plan
          /\ new.draft = Own(r).draft /\ new.files = files
      BY <3>1 DEF Release
    <3>4. pc'[r] = IF files = Files THEN "confirm" ELSE "upload"
      BY <2>5 DEF files
    <3> HIDE DEF new
    <3> QED
      BY <2>1, <3>1, <3>2, <3>3, <3>4 DEF OwnDraft
  <2>6. CASE /\ pc[r] = "confirm" /\ pc'[r] = "publish"
             /\ Own(r).files = Files /\ UNCHANGED releases
    <3>1. Own(r) \in releases /\ OwnDraft(r, Own(r))
      BY <2>6, OwnIsDraft DEF Drafted
    <3> QED
      BY <2>1, <2>6, <3>1 DEF OwnDraft
  <2> QED
    BY <1>1, <1>9, <2>3, <2>4, <2>5, <2>6, SpentStep DEF Drafted, Spent
<1> QED
  BY <1>4, <1>6, <1>7, <1>8, <1>9 DEF Publishing

\* Built jobs have their reservation, and promotions are never built.
LEMMA JobsStep ==
  ASSUME TypeInv, LedgerInv, NEW r \in Runs, Step(r)
  PROVE  JobsOK'
<1>1. /\ RunTypes /\ RunTypes' /\ JobsOK /\ Durable /\ LedgerTypes
  BY TypeParts, StepRunTyped, LedgerStep
<1>2. ASSUME NEW q \in Runs, q # r
      PROVE  /\ pc'[q] # "none" => job'[q].sha \in Commits /\ job'[q].channel \in Channels
             /\ job'[q].built # 0 => ~Promotion(q)' /\ ledger'.plans[q] # NoPlan
             /\ pc'[q] \in {"reserve", "allot", "gate", "staged"} => ~Promotion(q)'
             /\ pc'[q] \in {"candidate", "copy"} => Promotion(q)'
  <2>1. pc'[q] = pc[q] /\ job'[q] = job[q]
    BY <1>1, <1>2, StepElsewhere DEF Elsewhere
  <2> QED
    BY <1>1, <2>1 DEF JobsOK, Promotion, Durable
<1>3. job' = job \/ Built(r)
  BY <1>1, StepElsewhere
<1>4. pc[r] # "none"
  BY DEF Step, Start, Fail, PrepareFinal, CloseCycle, ReadLedger, CreatePlan,
     CreateBranch, Reserve, Supersede, Check, Reuse, Recheck, ReadCandidate,
     CopyCandidate, BeginPublication, Consume, PushTag, CreateDraft, Reconcile,
     Reread, Upload, Confirm, Publish, KeepEvidence, Active
<1>5. job'[r].sha = job[r].sha /\ job'[r].channel = job[r].channel
  BY <1>1, <1>3 DEF Built, RunTypes, Job
<1>6. job'[r].built # 0 => ~Promotion(r)' /\ ledger'.plans[r] # NoPlan
  <2>1. CASE job' = job
    BY <1>1, <2>1 DEF JobsOK, Durable, Promotion
  <2>2. CASE job' # job
    <3>1. CASE ReadLedger(r)
      <4>1. PICK state \in ReadState : state.plans[r] # NoPlan
        BY <2>2, <3>1 DEF ReadLedger
      <4>2. state = ledger
        BY <1>1, <4>1, ReadStateProperties DEF EmptyLedger
      <4> QED
        BY <1>1, <1>5, <3>1, <4>1, <4>2 DEF ReadLedger, Promotion, Durable
    <3>2. CASE Reserve(r)
      <4>1. PICK fate \in WriteFates :
              /\ WriteState(seen[r], WithReservation(seen[r], r, plan[r]), fate)
              /\ Written(seen[r], fate)
        BY <2>2, <3>2 DEF Reserve
      <4>2. Reserves(r) /\ pc[r] = "allot"
        BY <3>2, <4>1 DEF Reserve, Reserves, WriteState, Written
      <4>3. ledger'.plans[r] # NoPlan
        BY <4>2, ReservationKeeps, SentinelAssumption, <1>1
           DEF LedgerTypes, Ledger, Plan, Channels
      <4> QED
        BY <1>1, <1>5, <4>2, <4>3 DEF JobsOK, Promotion
    <3> QED
      BY <2>2, <3>1, <3>2, JobChanges
  <2> QED
    BY <2>1, <2>2
<1>7. pc'[r] \in {"reserve", "allot", "gate", "staged"} => ~Promotion(r)
  <2>1. CASE Start(r)
    BY <1>1, <2>1 DEF Start, JobsOK, Goto, RunTypes
  <2>2. CASE ReadLedger(r)
    BY <2>2 DEF ReadLedger
  <2>3. CASE CreatePlan(r) \/ CreateBranch(r) \/ Reserve(r) \/ Check(r)
    <3>1. pc[r] \in {"reserve", "allot", "gate"}
      BY <2>3 DEF CreatePlan, CreateBranch, Reserve, Check
    <3> QED
      BY <1>1, <3>1 DEF JobsOK
  <2> QED
    BY <1>1, <2>1, <2>2, <2>3, StepStage DEF Ended
<1>8. pc'[r] \in {"candidate", "copy"} => Promotion(r)
  <2>1. CASE PrepareFinal(r)
    BY <2>1 DEF PrepareFinal
  <2>2. CASE ReadCandidate(r)
    BY <1>1, <2>2 DEF ReadCandidate, JobsOK
  <2> QED
    BY <1>1, <2>1, <2>2, StepStage DEF Ended
<1>9. Promotion(r)' <=> Promotion(r)
  BY <1>5 DEF Promotion
<1> QED
  BY <1>1, <1>2, <1>4, <1>5, <1>6, <1>7, <1>8, <1>9 DEF JobsOK
-----------------------------------------------------------------------------
(* What people and GitHub do: pushes, version PRs, triggers and reruns.    *)

Arrives ==
  \/ \E r \in Runs : Schedule(r) \/ Dispatch(r) \/ Rerun(r) \/ RerunFailed(r)
  \/ \E r \in Runs, flow \in Flows : Merge(r, flow)
  \/ \E bump \in Bumps : PushTopic(bump) \/ OpenPullRequest(bump)

\* A new or rerun run waits in the queue; of the others only a pending one
\* is touched, and only to be cancelled.
LEMMA QueueEffect ==
  ASSUME RunTypes, NEW r \in Runs, Queue(r)
  PROVE  /\ pc' \in [Runs -> Stage] /\ pc'[r] = "queued"
         /\ \A q \in Runs : pc'[q] = pc[q] \/ pc'[q] \in {"queued", "cancelled"}
         /\ \A q \in Runs : q # r /\ pc'[q] # "none" => pc[q] # "none"
BY DEF RunTypes, Queue, Stage, Ended

LEMMA TriggerEffect ==
  ASSUME RunTypes, NEW r \in Runs, NEW event \in {"push", "schedule", "dispatch"},
         NEW channel \in Channels, NEW sha \in Commits, NEW rc \in Runs \cup {0},
         Trigger(r, event, channel, sha, rc)
  PROVE  /\ Queue(r) /\ job' \in [Runs -> Job]
         /\ \A q \in Runs : q # r => job'[q] = job[q]
         /\ job'[r].built = 0 /\ job'[r].sha \in Commits
         /\ job'[r].channel \in Channels
BY DEF RunTypes, Trigger, Job

\* None of this touches the ledger, tags, releases, or a run that works.
LEMMA ArrivalEffect ==
  ASSUME TypeInv, Arrives
  PROVE  /\ UNCHANGED <<ledger, slots, branch, tags, releases, plan, seen, source>>
         /\ HubTypes' /\ RunTypes' /\ JobsOK'
         /\ \A q \in Runs : \/ pc'[q] = pc[q] /\ job'[q] = job[q]
                            \/ pc'[q] \in {"queued", "cancelled"}
<1>1. HubTypes /\ RunTypes /\ JobsOK
  BY TypeParts
<1>2. ASSUME UNCHANGED <<ledger, slots, branch, tags, releases, plan, seen, source>>,
             HubTypes', NEW r \in Runs, Queue(r), job' \in [Runs -> Job],
             \A q \in Runs : q # r => job'[q] = job[q],
             job'[r].sha \in Commits, job'[r].channel \in Channels,
             \/ job'[r].built = 0
             \/ job'[r].built = job[r].built /\ job'[r].channel = job[r].channel
      PROVE  /\ RunTypes' /\ JobsOK'
             /\ \A q \in Runs : \/ pc'[q] = pc[q] /\ job'[q] = job[q]
                                \/ pc'[q] \in {"queued", "cancelled"}
  <2>1. /\ pc' \in [Runs -> Stage] /\ pc'[r] = "queued"
        /\ \A q \in Runs : pc'[q] = pc[q] \/ pc'[q] \in {"queued", "cancelled"}
        /\ \A q \in Runs : q # r /\ pc'[q] # "none" => pc[q] # "none"
    BY <1>1, <1>2, QueueEffect
  <2>2. RunTypes'
    BY <1>1, <1>2, <2>1 DEF RunTypes, Active
  <2>3. JobsOK'
    BY <1>1, <1>2, <2>1 DEF JobsOK, Promotion
  <2> QED
    BY <1>2, <2>1, <2>2, <2>3
<1>3. ASSUME NEW r \in Runs, Schedule(r) \/ Dispatch(r)
      PROVE  /\ Queue(r) /\ job' \in [Runs -> Job]
             /\ \A q \in Runs : q # r => job'[q] = job[q]
             /\ job'[r].sha \in Commits /\ job'[r].channel \in Channels
             /\ job'[r].built = 0 /\ UNCHANGED <<ledger, slots, hub, plan, seen, source>>
  <2>1. PICK event \in {"push", "schedule", "dispatch"}, channel \in Channels,
             rc \in Runs \cup {0} : Trigger(r, event, channel, head, rc)
    BY <1>3, RequestsAssumption DEF Schedule, Dispatch, Channels
  <2>2. head \in Commits
    BY <1>1 DEF HubTypes
  <2>3. UNCHANGED <<ledger, slots, hub, plan, seen, source>>
    BY <1>3 DEF Schedule, Dispatch
  <2> QED
    BY <1>1, <2>1, <2>2, <2>3, TriggerEffect
<1>4. CASE \E r \in Runs : Schedule(r) \/ Dispatch(r)
  <2>1. PICK r \in Runs : Schedule(r) \/ Dispatch(r)
    BY <1>4
  <2>2. UNCHANGED <<ledger, slots, branch, tags, releases, plan, seen, source>>
        /\ HubTypes'
    BY <1>1, <1>3, <2>1 DEF hub, HubTypes
  <2> QED
    BY <1>2, <1>3, <2>1, <2>2
<1>5. CASE \E r \in Runs : Rerun(r) \/ RerunFailed(r)
  <2>1. PICK r \in Runs : Rerun(r) \/ RerunFailed(r)
    BY <1>5
  <2>2. UNCHANGED <<ledger, slots, branch, tags, releases, plan, seen, source>>
        /\ HubTypes' /\ Queue(r)
    BY <1>1, <2>1 DEF Rerun, RerunFailed, hub, HubTypes
  <2>3. /\ job' \in [Runs -> Job] /\ \A q \in Runs : q # r => job'[q] = job[q]
        /\ job'[r].sha = job[r].sha /\ job'[r].channel = job[r].channel
        /\ job'[r].built = 0 \/ job'[r].built = job[r].built
    BY <1>1, <2>1 DEF Rerun, RerunFailed, RunTypes, Job
  <2>4. job[r].sha \in Commits /\ job[r].channel \in Channels
    BY <1>1, <2>1 DEF Rerun, RerunFailed, JobsOK, Ended
  <2> QED
    BY <1>2, <2>2, <2>3, <2>4
<1>6. CASE \E r \in Runs, flow \in Flows : Merge(r, flow)
  <2>1. PICK r \in Runs, flow \in Flows : Merge(r, flow)
    BY <1>6
  <2>2. /\ head + 1 \in Commits /\ head' = head + 1
        /\ Trigger(r, "push", "beta", head + 1, 0)
        /\ UNCHANGED <<ledger, slots, branch, tags, releases, plan, seen, source>>
    BY <2>1 DEF Merge
  <2>3. (IF proposal.open THEN proposal.base ELSE BaseOf(head)) \in Bases
    <3>1. NoProposal.open = FALSE
      BY DEF NoProposal
    <3> QED
      BY <1>1, <3>1 DEF HubTypes, BaseOf
  <2>4. commit' \in [Commits -> [base : Bases, flow : Flows]]
    BY <1>1, <2>1, <2>2, <2>3 DEF Merge, HubTypes
  <2>5. proposal' \in {proposal, NoProposal}
    BY <2>1 DEF Merge
  <2>6. NoProposal \in [base : Bases \cup {NoBase}, open : BOOLEAN]
    BY DEF NoProposal
  <2>7. HubTypes'
    BY <1>1, <2>2, <2>4, <2>5, <2>6 DEF HubTypes
  <2> QED
    BY <1>1, <1>2, <2>2, <2>7, TriggerEffect DEF Channels
<1>7. CASE \E bump \in Bumps : PushTopic(bump) \/ OpenPullRequest(bump)
  <2>1. PICK bump \in Bumps : PushTopic(bump) \/ OpenPullRequest(bump)
    BY <1>7
  <2>2. /\ UNCHANGED <<ledger, slots, head, commit, branch, tags, releases, pc, job,
                       plan, seen, source>>
        /\ proposal' \in [base : Bases \cup {NoBase}, open : BOOLEAN]
        /\ proposal'.base \in Bases
    <3>1. CASE PushTopic(bump)
      BY <3>1 DEF PushTopic
    <3>2. CASE OpenPullRequest(bump)
      <4>1. /\ proposal \in [base : Bases \cup {NoBase}, open : BOOLEAN]
            /\ proposal.base \in Bases
            /\ proposal' = [proposal EXCEPT !.open = TRUE]
        BY <1>1, <3>2 DEF OpenPullRequest, HubTypes
      <4>2. /\ proposal' \in [base : Bases \cup {NoBase}, open : BOOLEAN]
            /\ proposal'.base = proposal.base
        BY <4>1
      <4> QED
        BY <3>2, <4>1, <4>2 DEF OpenPullRequest
    <3> QED
      BY <2>1, <3>1, <3>2
  <2>3. HubTypes' /\ RunTypes' /\ JobsOK'
    BY <1>1, <2>2 DEF HubTypes, RunTypes, JobsOK, Promotion
  <2> QED
    BY <2>2, <2>3
<1> QED
  BY <1>4, <1>5, <1>6, <1>7 DEF Arrives
-----------------------------------------------------------------------------
(* The inductive invariant.                                                *)

LEMMA NextParts ==
  Next => Arrives \/ \E r \in Runs : Step(r)
BY DEF Next, Arrives

LEMMA ArrivalKeeps ==
  ASSUME IInv, Arrives
  PROVE  IInv'
<1>1. /\ UNCHANGED <<ledger, slots, branch, tags, releases, plan, seen, source>>
      /\ HubTypes' /\ RunTypes' /\ JobsOK'
      /\ \A q \in Runs : \/ pc'[q] = pc[q] /\ job'[q] = job[q]
                         \/ pc'[q] \in {"queued", "cancelled"}
  BY ArrivalEffect DEF IInv
<1>2. LedgerTypes' /\ TagTypes' /\ ReleaseTypes'
  BY <1>1, TypeParts DEF IInv, LedgerTypes, TagTypes, ReleaseTypes
<1>3. TypeInv'
  <2>1. HubTypes' /\ LedgerTypes' /\ TagTypes' /\ ReleaseTypes' /\ RunTypes' /\ JobsOK'
    BY <1>1, <1>2
  <2> QED
    BY <2>1, TypeParts, PTL
<1>4. LedgerInv'
  <2>1. ASSUME NEW q \in Runs PROVE Knows(q)'
    <3>1. Knows(q)
      BY DEF IInv, LedgerInv
    <3> QED
      BY <1>1, <3>1 DEF Knows, Spent
  <2> QED
    BY <1>1, <2>1 DEF IInv, LedgerInv
<1>5. PublicationInv'
  <2>1. ASSUME NEW q \in Runs
        PROVE  /\ Publishing(q)'
               /\ pc'[q] \in Named => pc[q] \in Named /\ WorkTag(q)' = WorkTag(q)
    <3>1. Publishing(q)
      BY DEF IInv, PublicationInv
    <3>2. CASE pc'[q] = pc[q] /\ job'[q] = job[q]
      BY <1>1, <3>1, <3>2 DEF Publishing, Promotion, GateReady, HasTag, WorkTag,
                              OwnDraft, Published
    <3>3. CASE pc'[q] \in {"queued", "cancelled"}
      BY <3>3 DEF Publishing, Spent, Named, Drafted
    <3> QED
      BY <1>1, <3>2, <3>3
  <2>2. OneEach'
    BY <1>1, <2>1 DEF IInv, PublicationInv, OneEach
  <2>3. \A x \in releases' : ReleaseOK(x)'
    BY <1>1 DEF IInv, PublicationInv, ReleaseOK, HasTag, Published
  <2> QED
    BY <2>1, <2>2, <2>3 DEF PublicationInv
<1> QED
  BY <1>3, <1>4, <1>5 DEF IInv

LEMMA StepKeeps ==
  ASSUME IInv, NEW r \in Runs, Step(r)
  PROVE  IInv'
<1>1. TypeInv /\ LedgerInv
  BY DEF IInv
<1>2. TypeInv'
  <2>1. HubTypes'
    BY <1>1, TypeParts, StepEffect DEF HubTypes
  <2>2. LedgerTypes' /\ TagTypes' /\ ReleaseTypes' /\ RunTypes' /\ JobsOK'
    BY <1>1, LedgerStep, TagStep, ReleaseStep, StepRunTyped, JobsStep
  <2> QED
    BY <2>1, <2>2, TypeParts, PTL
<1>3. LedgerInv'
  BY <1>1, LedgerStep, KnowsStep DEF LedgerInv
<1>4. PublicationInv'
  BY NamedStep, ReleaseOKStep, PublishingStep DEF PublicationInv
<1> QED
  BY <1>2, <1>3, <1>4 DEF IInv

LEMMA StutterKeeps ==
  ASSUME IInv, UNCHANGED vars
  PROVE  IInv'
<1> USE DEF vars, hub
<1>1. HubTypes' /\ LedgerTypes' /\ TagTypes' /\ ReleaseTypes' /\ RunTypes' /\ JobsOK'
  BY TypeParts DEF IInv, HubTypes, LedgerTypes, TagTypes, ReleaseTypes, RunTypes,
     JobsOK, Promotion
<1>2. TypeInv'
  BY <1>1, TypeParts, PTL
<1>3. LedgerInv'
  BY DEF IInv, LedgerInv, Knows
<1>4. PublicationInv'
  BY DEF IInv, PublicationInv, OneEach, ReleaseOK, Publishing, OwnDraft, HasTag,
     Promotion, GateReady, WorkTag, Published
<1> QED
  BY <1>2, <1>3, <1>4 DEF IInv

LEMMA InitIInv == Init => IInv
<1> SUFFICES ASSUME Init PROVE IInv
  OBVIOUS
<1>1. EmptyLedger \in Ledger /\ Readable(EmptyLedger) /\ Reserved(EmptyLedger) = {}
  BY DEF EmptyLedger, Ledger, Readable, Reserved
<1>2. (CHOOSE f \in Flows : TRUE) \in Flows
  BY FilesAssumption
<1>3. HubTypes
  BY <1>2, CommitsAssumption, BasesAssumption DEF Init, HubTypes, NoProposal
<1>4. LedgerTypes /\ TagTypes /\ ReleaseTypes
  BY <1>1, FS_EmptySet DEF Init, LedgerTypes, TagTypes, ReleaseTypes
<1>5. NoJob \in Job
  BY DEF NoJob, Job
<1>6. RunTypes
  BY <1>1, <1>5 DEF Init, RunTypes, Stage, Active
<1>7. JobsOK
  BY DEF Init, JobsOK, NoJob
<1>8. LedgerInv
  BY <1>1 DEF Init, LedgerInv, Distinct, EmptyLedger, Knows, Spent
<1>9. PublicationInv
  BY DEF Init, PublicationInv, OneEach, Publishing, Spent, Named, Drafted
<1> QED
  BY <1>3, <1>4, <1>6, <1>7, <1>8, <1>9, TypeParts DEF IInv

\* The invariant the theorems below rest on.
THEOREM Inductive == Spec => []IInv
<1>1. IInv /\ [Next]_vars => IInv'
  BY NextParts, ArrivalKeeps, StepKeeps, StutterKeeps
<1> QED
  BY <1>1, InitIInv, PTL DEF Spec
-----------------------------------------------------------------------------
(* The properties of the pipeline.                                         *)

\* Every variable keeps its type, and the ledger stays readable, in every
\* reachable state.
THEOREM PipelineTyped == Spec => []PipelineTypeOK
<1>1. IInv => PipelineTypeOK
  BY DEF IInv, TypeInv
<1> QED
  BY <1>1, Inductive, PTL

\* No two runs ever hold the same build number, for any number of runs and
\* whatever they read before they wrote (reserve_plan, write_state).
THEOREM NumbersAreUnique == Spec => []NumbersUnique
<1>1. IInv => NumbersUnique
  BY DEF IInv, LedgerInv, Distinct, NumbersUnique
<1> QED
  BY <1>1, Inductive, PTL

\* No step takes a reservation back, changes one, or lowers the counter or
\* the floor of the ledger (begin_publication).
THEOREM LedgerIsDurable == Spec => LedgerDurable
<1>1. IInv /\ [Next]_vars => [Durable]_vars
  <2> SUFFICES ASSUME IInv, Next PROVE Durable
    BY DEF vars
  <2>1. CASE Arrives
    <3>1. UNCHANGED ledger /\ ledger \in Ledger
      BY <2>1, ArrivalEffect, TypeParts DEF IInv, LedgerTypes
    <3> QED
      BY <3>1 DEF Durable, Ledger
  <2>2. CASE \E r \in Runs : Step(r)
    BY <2>2, LedgerStep DEF IInv
  <2> QED
    BY <2>1, <2>2, NextParts
<1> QED
  BY <1>1, Inductive, PTL DEF Spec, LedgerDurable

\* The releases people can see: each is of a reserved and consumed number,
\* complete, with its tag at the source of its plan, and built by the attempt
\* that published it; and reservations, tags and releases are one to one.
THEOREM PublishedAreBacked == Spec => []PublishedIsBacked
<1>1. IInv => PublishedIsBacked
  <2> SUFFICES ASSUME IInv PROVE PublishedIsBacked
    OBVIOUS
  <2>1. \A q, r \in Runs : q # r /\ NoPlan \notin {ledger.plans[q], ledger.plans[r]}
                       => TagOf(ledger.plans[q]) # TagOf(ledger.plans[r])
    BY DEF IInv, LedgerInv, Distinct
  <2>2. \A x, y \in releases : x.tag = y.tag => x = y
    BY DEF IInv, PublicationInv, OneEach
  <2>3. ASSUME NEW x \in releases PROVE TagSha(x.tag) = {x.plan.sha}
    <3>1. [tag |-> x.tag, sha |-> x.plan.sha] \in tags
      BY DEF IInv, PublicationInv, ReleaseOK, HasTag
    <3>2. \A t \in tags : t.tag = x.tag => t = [tag |-> x.tag, sha |-> x.plan.sha]
      BY <3>1 DEF IInv, PublicationInv, OneEach
    <3> QED
      BY <3>1, <3>2 DEF TagSha
  <2> QED
    BY <2>1, <2>2, <2>3 DEF IInv, PublicationInv, ReleaseOK, PublishedIsBacked
<1> QED
  BY <1>1, Inductive, PTL
-----------------------------------------------------------------------------
(* The pipeline implements the promise of ReleaseNumbers: a reservation is *)
(* an Allocate, the write of the floor a Spend, a publication an Announce. *)

Visible == {y \in releases : ~y.draft}
numbersBar == [r \in Runs |-> NumberOf(r)]
publicBar == {x.plan.number : x \in Visible}

\* What a step does to the published numbers.
LEMMA PublicStep ==
  ASSUME IInv, NEW r \in Runs, Step(r)
  PROVE  \/ publicBar' = publicBar
         \/ /\ publicBar' = publicBar \cup {plan[r].number}
            /\ pc[r] = "publish" /\ UNCHANGED ledger
<1>1. Visible \subseteq Visible'
  BY ReleaseStep DEF Visible
<1>2. \A x \in Visible' \ Visible : x.plan = plan[r] /\ pc[r] = "publish"
  BY ReleaseStep DEF Visible
<1>3. CASE Visible' = Visible
  BY <1>3 DEF publicBar
<1>4. CASE Visible' # Visible
  <2>1. PICK x \in Visible' : x \notin Visible
    BY <1>1, <1>4
  <2>2. pc[r] = "publish" /\ x.plan = plan[r]
    BY <1>2, <2>1
  <2>3. UNCHANGED ledger
    BY <2>2, StepEffect DEF Reserves, Consumes
  <2>4. publicBar' = publicBar \cup {plan[r].number}
    BY <1>1, <1>2, <2>1, <2>2 DEF publicBar
  <2> QED
    BY <2>2, <2>3, <2>4
<1> QED
  BY <1>3, <1>4

\* A reserved plan is the plan of a run, and its number that run's.
LEMMA ReservedNumber ==
  ASSUME IInv, NEW p \in Reserved(ledger)
  PROVE  \E c \in Runs : /\ numbersBar[c] = p.number /\ p.number >= 1
                         /\ p.number \in Nat
<1>1. PICK c \in Runs : p = ledger.plans[c] /\ p # NoPlan
  BY ReservedMember
<1>2. p.number \in Nat /\ p.number >= 1
  BY <1>1, TypeParts DEF IInv, LedgerTypes, Ledger, Plan, LedgerInv, InOrder
<1> QED
  BY <1>1, <1>2 DEF numbersBar, NumberOf

\* Every step maps to a step of ReleaseNumbers, or to none.
LEMMA NumbersStep ==
  ASSUME IInv, NEW r \in Runs, Step(r)
  PROVE  \/ Numbers!Change
         \/ UNCHANGED <<numbersBar, ledger.floor, publicBar>>
<1>1. /\ LedgerTypes /\ TypeInv /\ LedgerInv
      /\ ledger.floor \in Nat /\ ledger.counter \in Nat
      /\ ledger.floor <= ledger.counter
  BY TypeParts DEF IInv, LedgerTypes, Ledger, Readable
<1>2. CASE UNCHANGED ledger
  <2>1. UNCHANGED <<numbersBar, ledger.floor>>
    BY <1>2 DEF numbersBar, NumberOf
  <2>2. CASE publicBar' = publicBar
    BY <2>1, <2>2
  <2>3. CASE publicBar' = publicBar \cup {plan[r].number} /\ pc[r] = "publish"
    <3>1. plan[r] \in Reserved(ledger) /\ plan[r].number <= ledger.floor
      BY <1>1, <2>3 DEF LedgerInv, Knows, Spent
    <3>2. PICK c \in Runs : /\ numbersBar[c] = plan[r].number
                            /\ plan[r].number >= 1 /\ plan[r].number \in Nat
      BY <3>1, ReservedNumber
    <3>3. numbersBar[c] \in 1 .. ledger.floor
      BY <1>1, <3>1, <3>2
    <3>4. Numbers!Announce(c)
      BY <2>1, <2>3, <3>2, <3>3 DEF Numbers!Announce, numbersBar, publicBar, Visible
    <3> QED
      BY <3>4 DEF Numbers!Change
  <2> QED
    BY <2>2, <2>3, PublicStep
<1>3. CASE Reserves(r)
  <2>1. publicBar' = publicBar
    BY <1>3, PublicStep DEF Reserves
  <2>2. /\ ledger'.floor = ledger.floor
        /\ ledger'.plans = [ledger.plans EXCEPT ![r] = plan[r]]
        /\ ledger.plans[r] = NoPlan /\ plan[r] \in Plan
        /\ plan[r].number > ledger.counter /\ plan[r].number > ledger.floor
    BY <1>1, <1>3, ReservationKeeps
  <2>3. plan[r] # NoPlan /\ plan[r].number \in Nat
    BY <2>2, SentinelAssumption DEF Plan, Channels
  <2>4. ledger.plans \in [Runs -> Plan \cup {NoPlan}]
    BY <1>1 DEF LedgerTypes, Ledger
  <2>5. numbersBar' = [numbersBar EXCEPT ![r] = plan[r].number]
        /\ numbersBar'[r] = plan[r].number
    BY <2>2, <2>3, <2>4 DEF numbersBar, NumberOf
  <2>6. numbersBar[r] = 0
    BY <2>2 DEF numbersBar, NumberOf
  <2>7. \A q \in Runs : numbersBar'[r] > numbersBar[q]
    <3> TAKE q \in Runs
    <3>1. CASE ledger.plans[q] = NoPlan
      BY <1>1, <2>2, <2>3, <2>5, <3>1 DEF numbersBar, NumberOf
    <3>2. CASE ledger.plans[q] # NoPlan
      <4>1. ledger.plans[q].number \in Nat /\ ledger.plans[q].number <= ledger.counter
        BY <1>1, <2>4, <3>2 DEF LedgerTypes, Readable, Plan
      <4> QED
        BY <1>1, <2>2, <2>3, <2>5, <3>2, <4>1 DEF numbersBar, NumberOf
    <3> QED
      BY <3>1, <3>2
  <2>8. numbersBar'[r] > ledger.floor
    BY <2>2, <2>5
  <2>9. Numbers!Allocate(r)
    BY <2>1, <2>2, <2>5, <2>6, <2>7, <2>8
       DEF Numbers!Allocate, numbersBar, publicBar, Visible
  <2> QED
    BY <2>9 DEF Numbers!Change
<1>4. CASE Consumes(r)
  <2>1. publicBar' = publicBar
    BY <1>4, PublicStep DEF Consumes
  <2>2. /\ ledger'.plans = ledger.plans /\ ledger'.floor = plan[r].number
        /\ ledger'.floor >= ledger.floor /\ plan[r] \in Reserved(ledger)
    BY <1>1, <1>4, ConsumptionKeeps
  <2>3. numbersBar' = numbersBar
    BY <2>2 DEF numbersBar, NumberOf
  <2>4. PICK c \in Runs : numbersBar[c] = plan[r].number /\ plan[r].number \in Nat
    BY <2>2, ReservedNumber
  <2>5. CASE ledger'.floor = ledger.floor
    BY <2>1, <2>3, <2>5
  <2>6. CASE ledger'.floor # ledger.floor
    <3>1. numbersBar[c] > ledger.floor /\ ledger'.floor = numbersBar[c]
      BY <1>1, <2>2, <2>4, <2>6
    <3>2. Numbers!Spend(c)
      BY <2>1, <2>3, <3>1 DEF Numbers!Spend, numbersBar, publicBar, Visible
    <3> QED
      BY <3>2 DEF Numbers!Change
  <2> QED
    BY <2>5, <2>6
<1> QED
  BY <1>2, <1>3, <1>4, StepEffect

\* The pipeline with its ledger, retries and overlapping runs refines the
\* promise about build numbers: allotted once and upwards, spent in order,
\* and public only when spent.
THEOREM NumbersAreRefined == Spec => RefinesNumbers
<1>1. Init => Numbers!Start
  <2> SUFFICES ASSUME Init PROVE Numbers!Start
    OBVIOUS
  <2>1. \A r \in Runs : NumberOf(r) = 0
    BY DEF Init, EmptyLedger, NumberOf
  <2>2. [r \in Runs |-> NumberOf(r)] = [r \in Runs |-> 0]
    BY <2>1
  <2>3. {x.plan.number : x \in {y \in releases : ~y.draft}} = {}
    BY DEF Init
  <2>4. ledger.floor = 0
    BY DEF Init, EmptyLedger
  <2> QED
    BY <2>2, <2>3, <2>4 DEF Numbers!Start
<1>2. IInv /\ [Next]_vars =>
        [Numbers!Change]_<<numbersBar, ledger.floor, publicBar>>
  <2> SUFFICES ASSUME IInv, [Next]_vars
               PROVE  \/ Numbers!Change
                      \/ UNCHANGED <<numbersBar, ledger.floor, publicBar>>
    OBVIOUS
  <2>1. CASE UNCHANGED <<ledger, releases>>
    BY <2>1 DEF numbersBar, NumberOf, publicBar, Visible
  <2>2. CASE Arrives
    BY <2>1, <2>2, ArrivalEffect DEF IInv
  <2>3. CASE \E r \in Runs : Step(r)
    BY <2>3, NumbersStep
  <2>4. CASE UNCHANGED vars
    BY <2>1, <2>4 DEF vars, hub
  <2> QED
    BY <2>2, <2>3, <2>4, NextParts
<1> QED
  BY <1>1, <1>2, Inductive, PTL
     DEF Spec, RefinesNumbers, Numbers!Promise, numbersBar, publicBar, Visible
=============================================================================
