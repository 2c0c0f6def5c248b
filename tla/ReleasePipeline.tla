-------------------------- MODULE ReleasePipeline ---------------------------
(***************************************************************************)
(* The release workflow: Actions runs that prepare, build and publish a    *)
(* package, or promote a release candidate, over one GitHub repository     *)
(* (scripts/release_versioned.py, release_control.py, release_state.py).   *)
(* A step is the code between two points where the repository can change   *)
(* under it.  Any step can fail (a read, a denied write, a lost runner);   *)
(* a failed run can be rerun.                                              *)
(***************************************************************************)
EXTENDS ReleaseLedger, GitHubClient, VersionChoice, Folds

CONSTANTS
  Flows,         \* contents of .github/workflows a commit can have
  Files,         \* package files, in upload order: a set of naturals
  Requests,      \* bound: the channels people dispatch
  Budget         \* bound: attempts of all runs together, by slots

ASSUME CommitsAssumption == Commits \subseteq Nat \ {0} /\ 1 \in Commits
ASSUME BasesAssumption ==
  Bases \subseteq Nat \X Nat \X Nat /\ <<1, 0, 0>> \in Bases
ASSUME FilesAssumption == Files \subseteq Nat /\ Files # {} /\ Flows # {}
ASSUME RequestsAssumption == Requests \subseteq Channels

VARIABLES
  slots,         \* runs the concurrency group lets work at once
  head,          \* newest commit of the default branch
  commit,        \* commit -> base version and workflow files
  proposal,      \* version topic branch: its base, and is its PR open
  branch,        \* the ledger's branch exists
  tags,          \* tag references: [tag, sha]
  releases,      \* releases and drafts, with the run they are by
  pc,            \* stage of each run
  job,           \* run -> event, channel, sha, rc, attempt, and the
                 \* attempt whose jobs prepared and built its package
  plan,          \* run -> the plan it works with
  seen,          \* run -> ledger it read and means to replace
  source         \* run -> default-branch commit captured before publication

hub == <<head, commit, proposal, branch, tags, releases>>
vars == <<ledger, slots, hub, pc, job, plan, seen, source>>

NoJob == [event |-> "none", channel |-> "none", sha |-> 0, rc |-> 0,
          attempt |-> 0, built |-> 0]
NoBase == <<>>
NoProposal == [base |-> NoBase, open |-> FALSE]

Active == {"prepare", "reserve", "allot", "gate", "staged", "candidate", "copy",
           "begin", "consume", "tag", "create",
           "reconcile", "reread", "upload", "confirm", "publish", "evidence"}
Ended == {"done", "failed", "cancelled", "superseded", "reused", "closed"}

BaseOf(c) == commit[c].base
TagSha(tag) == {t.sha : t \in {u \in tags : u.tag = tag}}
Tagged == {t.tag : t \in tags}
Listed == Tagged \cup {x.tag : x \in releases}
Published == {x.tag : x \in {y \in releases : ~y.draft}}
Promotion(r) == job[r].channel = "stable"
Automatic(r) ==
  <<job[r].event, job[r].channel>> \in {<<"push", "beta">>,
                                        <<"schedule", "nightly">>}
WorkTag(r) == IF Promotion(r) THEN StableTag(plan[r].base) ELSE TagOf(plan[r])

Init ==
  /\ ledger = EmptyLedger
  /\ slots \in {1, 2}
  /\ head = 1
  /\ commit = [c \in Commits |->
                 [base |-> <<1, 0, 0>>, flow |-> CHOOSE f \in Flows : TRUE]]
  /\ proposal = NoProposal
  /\ branch = FALSE /\ tags = {} /\ releases = {}
  /\ pc = [r \in Runs |-> "none"]
  /\ job = [r \in Runs |-> NoJob]
  /\ plan = [r \in Runs |-> NoPlan]
  /\ seen = [r \in Runs |-> EmptyLedger]
  /\ source = [r \in Runs |-> 0]

-----------------------------------------------------------------------------
(* What the tooling can learn from GitHub.  "absent" and "found" are the   *)
(* answers a guard may act on; an error ends the run (Fail).               *)

EnsureAbsent(tag) ==
  /\ "absent" \in Reads(tag \in Tagged)
  /\ "absent" \in Reads(tag \in Published)
  /\ tag \notin {x.tag : x \in releases}

(* check_workflow_publication: the token may not publish workflow files    *)
(* that differ from those of the default branch.                           *)
WorkflowAllowed(sha) == sha = head \/ commit[sha].flow = commit[head].flow

(* superseded_candidate: the head moved, and exactly one newer push run of *)
(* the release workflow is at it.                                          *)
Moved(r) == Automatic(r) /\ head # job[r].sha
Successors(r) == {q \in Runs : /\ job[q].event = "push"
                               /\ job[q].sha = head /\ pc[q] # "none"}
Superseded(r) == /\ Moved(r)
                 /\ Cardinality(Successors(r)) = 1
                 /\ \A q \in Successors(r) : q > r

(* check_execution, wait_for_executing_run and release_gate_ready: the run *)
(* is under way, its event may publish its channel, and every successful   *)
(* job ran in this attempt.                                                *)
Permitted == [nightly |-> {"schedule", "dispatch"}, beta |-> {"push", "dispatch"},
              rc |-> {"dispatch"}, stable |-> {"dispatch"}]
GateReady(r) == job[r].built = job[r].attempt
Executing(r) == /\ pc[r] \in Active
                /\ job[r].event \in Permitted[job[r].channel]

(* validate_run of another run: completed, and not rerun since.            *)
Completed(c) == pc[c] = "done"

(* release_snapshot: published with every file, its tag at its source.     *)
Snapshot(c) == {x \in releases : /\ x.by = c /\ ~x.draft /\ x.files = Files
                                 /\ TagSha(x.tag) = {x.plan.sha}}
Manifest(x, c) == x.plan = ledger.plans[c] /\ x.plan.channel = "rc"

(* verified_rc, and promote up to its first write.                         *)
Accepted(c) ==
  /\ c \in Runs /\ Completed(c) /\ job[c].event = "dispatch"
  /\ \E x \in Snapshot(c) : Manifest(x, c)

(* verify_scheduled_reuse: a qualified package of the same source.         *)
Qualified(c, sha) ==
  /\ Completed(c) /\ ledger.plans[c] # NoPlan
  /\ ledger.plans[c].sha = sha /\ ledger.plans[c].base = BaseOf(sha)
  /\ ledger.plans[c].channel \in {"beta", "rc"}
  /\ Snapshot(c) # {}

Built(r) == job' = [job EXCEPT ![r].built = job[r].attempt]
Goto(r, stage) == pc' = [pc EXCEPT ![r] = stage]
Leave(r, how) ==
  /\ Goto(r, how)
  /\ plan' = [plan EXCEPT ![r] = NoPlan]
  /\ seen' = [seen EXCEPT ![r] = EmptyLedger]
  /\ source' = [source EXCEPT ![r] = 0]

(* A write: whether it took effect, and where it leaves the run.           *)
Sent(r, fate, next) ==
  IF fate = "confirmed" THEN Goto(r, next) /\ UNCHANGED <<plan, seen, source>>
  ELSE Leave(r, "failed")

-----------------------------------------------------------------------------
(* Actions: runs are created in order of their IDs; a newer pending run of *)
(* the concurrency group cancels the one that was pending.                 *)

Unused(r) == pc[r] = "none" /\ \A q \in Runs : q < r => pc[q] # "none"
Queue(r) == pc' = [q \in Runs |-> IF q = r THEN "queued"
                                  ELSE IF pc[q] = "queued" THEN "cancelled"
                                  ELSE pc[q]]
Affordable == FoldSet(LAMBDA r, n : n + job[r].attempt, 0, Runs) < Budget[slots]
Trigger(r, event, channel, sha, rc) ==
  /\ Unused(r) /\ Affordable
  /\ job' = [job EXCEPT ![r] = [event |-> event, channel |-> channel,
                                sha |-> sha, rc |-> rc, attempt |-> 1,
                                built |-> 0]]
  /\ Queue(r)

(* A push to the default branch: an ordinary change keeps the base, a      *)
(* merged version PR carries its own.                                      *)
Merge(r, flow) ==
  /\ head + 1 \in Commits
  /\ head' = head + 1
  /\ commit' = [commit EXCEPT ![head + 1] =
                  [base |-> IF proposal.open THEN proposal.base ELSE BaseOf(head),
                   flow |-> flow]]
  /\ proposal' = IF proposal.open THEN NoProposal ELSE proposal
  /\ Trigger(r, "push", "beta", head + 1, 0)
  /\ UNCHANGED <<ledger, slots, branch, tags, releases, plan, seen, source>>

(* prepare --pr: a topic branch with the chosen base, then its PR; a       *)
(* preparation that stopped in between is resumed from the branch.         *)
StableBases == {t.base : t \in {u \in Tagged : u.channel = "stable"}}
BaseChoices(bump) == ChooseVersion(BaseOf(head), StableBases, bump)
PushTopic(bump) ==
  /\ proposal = NoProposal
  /\ \E base \in BaseChoices(bump) :
       /\ base # BaseOf(head) /\ base \in Bases
       /\ proposal' = [base |-> base, open |-> FALSE]
  /\ UNCHANGED <<ledger, slots, head, commit, branch, tags, releases, pc, job, plan,
                 seen, source>>
OpenPullRequest(bump) ==
  /\ proposal # NoProposal /\ ~proposal.open
  /\ proposal.base \in BaseChoices(bump)
  /\ proposal' = [proposal EXCEPT !.open = TRUE]
  /\ UNCHANGED <<ledger, slots, head, commit, branch, tags, releases, pc, job, plan,
                 seen, source>>

Schedule(r) ==
  /\ Trigger(r, "schedule", "nightly", head, 0)
  /\ UNCHANGED <<ledger, slots, hub, plan, seen, source>>

Dispatch(r) ==
  /\ \/ \E channel \in Requests \ {"stable"} :
          Trigger(r, "dispatch", channel, head, 0)
     \/ \E c \in Runs : /\ "stable" \in Requests
                        /\ job[c].channel = "rc" /\ pc[c] = "done"
                        /\ Trigger(r, "dispatch", "stable", head, c)
  /\ UNCHANGED <<ledger, slots, hub, plan, seen, source>>

Rerun(r) ==
  /\ pc[r] \in Ended /\ Affordable
  /\ job' = [job EXCEPT ![r].attempt = @ + 1, ![r].built = 0]
  /\ Queue(r)
  /\ UNCHANGED <<ledger, slots, hub, plan, seen, source>>

(* "Re-run failed jobs": the jobs that passed are cloned with their plan   *)
(* and packages, only publication runs again.                              *)
RerunFailed(r) ==
  /\ pc[r] = "failed" /\ job[r].built # 0 /\ Affordable
  /\ job' = [job EXCEPT ![r].attempt = @ + 1]
  /\ Queue(r)
  /\ UNCHANGED <<ledger, slots, hub, plan, seen, source>>

Start(r) ==
  /\ pc[r] = "queued"
  /\ Cardinality({q \in Runs : pc[q] \in Active}) < slots
  /\ IF job[r].built # 0
     THEN Goto(r, "gate") /\ plan' = [plan EXCEPT ![r] = ledger.plans[r]]
     ELSE Goto(r, "prepare") /\ UNCHANGED plan
  /\ UNCHANGED <<ledger, slots, hub, job, seen, source>>

Fail(r) ==
  /\ pc[r] \in Active /\ Leave(r, "failed")
  /\ UNCHANGED <<ledger, slots, hub, job>>

-----------------------------------------------------------------------------
(* release_versioned.prepare and reserve_plan.                             *)

(* read_state: the file; or the empty ledger, when there is no file and no *)
(* branch to have lost it from.                                            *)
ReadState ==
  LET file == ledger # EmptyLedger IN
  {state \in {ledger} : file /\ Readable(state)} \cup
    (IF "absent" \in Reads(file) /\ "absent" \in Reads(branch)
     THEN {EmptyLedger} ELSE {})

(* A promotion is checked first and needs no build.                        *)
PrepareFinal(r) ==
  /\ pc[r] = "prepare" /\ Promotion(r) /\ Executing(r)
  /\ Accepted(job[r].rc)
  /\ Goto(r, "candidate")
  /\ UNCHANGED <<ledger, slots, hub, job, plan, seen, source>>

CloseCycle(r) ==
  /\ pc[r] = "prepare" /\ job[r].event = "push"
  /\ StableTag(BaseOf(job[r].sha)) \in Tagged
  /\ Leave(r, "closed")
  /\ UNCHANGED <<ledger, slots, hub, job>>

ReadLedger(r) ==
  LET base == BaseOf(job[r].sha) IN
  /\ pc[r] = "prepare" /\ ~Promotion(r) /\ Executing(r)
  /\ job[r].event = "push" => "absent" \in Reads(StableTag(base) \in Tagged)
  /\ job[r].channel \in {"beta", "rc"} => EnsureAbsent(StableTag(base))
  /\ \E state \in ReadState :
       IF state.plans[r] = NoPlan
       THEN /\ Goto(r, "reserve")
            /\ seen' = [seen EXCEPT ![r] = state]
            /\ UNCHANGED <<job, plan>>
       ELSE /\ state.plans[r].base = base
            /\ state.plans[r].channel = job[r].channel
            /\ state.plans[r].sha = job[r].sha
            /\ Goto(r, "gate") /\ Built(r)
            /\ plan' = [plan EXCEPT ![r] = state.plans[r]]
            /\ UNCHANGED seen
  /\ UNCHANGED <<ledger, slots, hub, source>>

(* A nightly is named by its time, run and attempt; the run suffices, as   *)
(* it reserves once.                                                       *)
SequenceFor(r, base) ==
  IF job[r].channel = "nightly" THEN r
  ELSE NextSequence(seen[r], base, job[r].channel, Listed)

CreatePlan(r) ==
  LET base == BaseOf(job[r].sha)
      new == [base |-> base, channel |-> job[r].channel,
              seq |-> SequenceFor(r, base), sha |-> job[r].sha,
              number |-> NextNumber(seen[r])]
  IN /\ pc[r] = "reserve"
     /\ new.number <= NumberLimit
     /\ EnsureAbsent(TagOf(new))
     /\ Goto(r, "allot")
     /\ plan' = [plan EXCEPT ![r] = new]
     /\ UNCHANGED <<ledger, slots, hub, job, seen, source>>

(* The first reservation makes the branch; if it then is not written, no   *)
(* later run can read the ledger.                                          *)
CreateBranch(r) ==
  /\ pc[r] = "allot" /\ ~branch
  /\ \E fate \in WriteFates :
       /\ branch' = (fate # "refused")
       /\ Sent(r, fate, "allot")
  /\ UNCHANGED <<ledger, slots, head, commit, proposal, tags, releases, job>>

Reserve(r) ==
  /\ pc[r] = "allot" /\ branch
  /\ \E fate \in WriteFates :
       /\ WriteState(seen[r], WithReservation(seen[r], r, plan[r]), fate)
       /\ IF Written(seen[r], fate)
          THEN /\ Goto(r, "gate") /\ Built(r)
               /\ seen' = [seen EXCEPT ![r] = EmptyLedger]
               /\ UNCHANGED <<plan, source>>
          ELSE Leave(r, "failed") /\ UNCHANGED job
  /\ UNCHANGED <<slots, hub>>

-----------------------------------------------------------------------------
(* release_versioned.publish_versioned, up to the first public write.      *)

Supersede(r) ==
  /\ pc[r] \in {"gate", "staged"} /\ Executing(r) /\ GateReady(r)
  /\ \E state \in ReadState : VerifyReservation(state, r, plan[r], Published)
  /\ pc[r] = "gate" => EnsureAbsent(TagOf(plan[r]))
  /\ Superseded(r)
  /\ Leave(r, "superseded")
  /\ UNCHANGED <<ledger, slots, hub, job>>

Check(r) ==
  /\ pc[r] = "gate" /\ Executing(r) /\ GateReady(r)
  /\ \E state \in ReadState : VerifyReservation(state, r, plan[r], Published)
  /\ EnsureAbsent(TagOf(plan[r]))
  /\ plan[r].channel \in {"beta", "rc"} => EnsureAbsent(StableTag(plan[r].base))
  /\ ~Moved(r)
  /\ Goto(r, "staged")
  /\ UNCHANGED <<ledger, slots, hub, job, plan, seen, source>>

Reuse(r) ==
  /\ pc[r] = "staged" /\ job[r].event = "schedule"
  /\ \E state \in ReadState : VerifyReservation(state, r, plan[r], Published)
  /\ ~Moved(r) /\ WorkflowAllowed(plan[r].sha)
  /\ \E c \in Runs : Qualified(c, plan[r].sha)
  /\ Leave(r, "reused")
  /\ UNCHANGED <<ledger, slots, hub, job>>

Recheck(r) ==
  /\ pc[r] = "staged"
  /\ \E state \in ReadState : VerifyReservation(state, r, plan[r], Published)
  /\ ~Moved(r) /\ WorkflowAllowed(plan[r].sha)
  /\ source' = [source EXCEPT ![r] = head]
  /\ Goto(r, "begin")
  /\ UNCHANGED <<ledger, slots, hub, job, plan, seen>>

(* release_control.promote, up to the first write.                         *)
ReadCandidate(r) ==
  LET c == job[r].rc IN
  /\ pc[r] = "candidate" /\ Executing(r)
  /\ Accepted(c)
  /\ VerifyPromotionOrder(ledger, ledger.plans[c], Published)
  /\ EnsureAbsent(StableTag(ledger.plans[c].base))
  /\ WorkflowAllowed(ledger.plans[c].sha)
  /\ plan' = [plan EXCEPT ![r] = ledger.plans[c]]
  /\ Goto(r, "copy")
  /\ UNCHANGED <<ledger, slots, hub, job, seen, source>>

CopyCandidate(r) ==
  /\ pc[r] = "copy"
  /\ Accepted(job[r].rc) /\ WorkflowAllowed(plan[r].sha)
  /\ VerifyPromotionOrder(ledger, plan[r], Published)
  /\ Goto(r, "begin")
  /\ UNCHANGED <<ledger, slots, hub, job, plan, seen, source>>

BeginPublication(r) ==
  /\ pc[r] = "begin"
  /\ \E state \in ReadState :
       /\ IF Promotion(r)
          THEN VerifyPromotionOrder(state, plan[r], Published)
          ELSE VerifyReservation(state, r, plan[r], Published)
       /\ seen' = [seen EXCEPT ![r] = state]
  /\ Goto(r, "consume")
  /\ UNCHANGED <<ledger, slots, hub, job, plan, source>>

Consume(r) ==
  LET consumed == WithFloor(seen[r], plan[r].number) IN
  /\ pc[r] = "consume"
  /\ \E fate \in WriteFates :
       /\ WriteState(seen[r], consumed, fate)
       /\ IF Written(seen[r], fate)
          THEN /\ Goto(r, "tag")
               /\ seen' = [seen EXCEPT ![r] = consumed]
               /\ UNCHANGED <<plan, source>>
          ELSE Leave(r, "failed")
  /\ UNCHANGED <<slots, hub, job>>

-----------------------------------------------------------------------------
(* release_control._publish_prepared: tag, draft, files, publication.      *)

PushTag(r) ==
  /\ pc[r] = "tag"
  /\ EnsureAbsent(WorkTag(r)) /\ WorkflowAllowed(plan[r].sha)
  /\ \E fate \in WriteFates :
       /\ tags' = IF fate = "refused" THEN tags
                  ELSE tags \cup {[tag |-> WorkTag(r), sha |-> plan[r].sha]}
       /\ Sent(r, fate, "create")
  /\ UNCHANGED <<ledger, slots, head, commit, proposal, branch, releases, job>>

Draft(r) == [tag |-> WorkTag(r), plan |-> plan[r], by |-> r, draft |-> TRUE,
             files |-> {}, fresh |-> Promotion(r) \/
                                     GateReady(r)]
Own(r) == CHOOSE x \in releases : x.by = r /\ x.tag = WorkTag(r)
Replace(old, new) == releases' = (releases \ {old}) \cup {new}

(* A promotion sends the plain request; a versioned publication keeps an   *)
(* unclear outcome apart and looks for the draft of exactly this request.  *)
CreateDraft(r) ==
  /\ pc[r] = "create"
  /\ \E applied \in BOOLEAN, outcome \in {"created", "rejected", "ambiguous"} :
       /\ outcome \in Creates(applied)
       /\ releases' = IF applied THEN releases \cup {Draft(r)} ELSE releases
       /\ CASE outcome = "created" -> Sent(r, "confirmed", "upload")
            [] outcome = "ambiguous" /\ ~Promotion(r) ->
                 Sent(r, "confirmed", "reconcile")
            [] OTHER -> Leave(r, "failed")
  /\ UNCHANGED <<ledger, slots, head, commit, proposal, branch, tags, job>>

Inventory(tag) == {x \in releases : x.tag = tag}
(* create_confirmation: default branch and ledger are as captured.         *)
Unmoved(r) == Executing(r) /\ head = source[r] /\ ledger = seen[r]

Reconcile(r) ==
  /\ pc[r] = "reconcile" /\ Unmoved(r)
  /\ Inventory(WorkTag(r)) = {Draft(r)}
  /\ Goto(r, "reread")
  /\ UNCHANGED <<ledger, slots, hub, job, plan, seen, source>>

(* Everything is read once more; the draft found is still untouched.       *)
Reread(r) ==
  /\ pc[r] = "reread" /\ Unmoved(r)
  /\ Draft(r) \in releases
  /\ TagSha(WorkTag(r)) = {plan[r].sha}
  /\ Goto(r, "upload")
  /\ UNCHANGED <<ledger, slots, hub, job, plan, seen, source>>

Upload(r) ==
  LET own == Own(r)
      file == Min(Files \ own.files)
      more == [own EXCEPT !.files = @ \cup {file}]
  IN /\ pc[r] = "upload"
     /\ \E fate \in WriteFates :
          /\ IF fate = "refused" THEN UNCHANGED releases ELSE Replace(own, more)
          /\ Sent(r, fate, IF more.files = Files THEN "confirm" ELSE "upload")
     /\ UNCHANGED <<ledger, slots, head, commit, proposal, branch, tags, job>>

Confirm(r) ==
  /\ pc[r] = "confirm"
  /\ Own(r).files = Files
  /\ TagSha(WorkTag(r)) = {plan[r].sha}
  /\ Automatic(r) => head = source[r]
  /\ Goto(r, "publish")
  /\ UNCHANGED <<ledger, slots, hub, job, plan, seen, source>>

Publish(r) ==
  /\ pc[r] = "publish"
  /\ \E fate \in WriteFates :
       /\ IF fate = "refused" THEN UNCHANGED releases
          ELSE Replace(Own(r), [Own(r) EXCEPT !.draft = FALSE])
       /\ IF fate = "confirmed" /\ Promotion(r) THEN Leave(r, "done")
          ELSE Sent(r, fate, "evidence")
  /\ UNCHANGED <<ledger, slots, head, commit, proposal, branch, tags, job>>

(* The manifest becomes an artifact of the run, which then succeeds.       *)
KeepEvidence(r) ==
  /\ pc[r] = "evidence" /\ Leave(r, "done")
  /\ UNCHANGED <<ledger, slots, hub, job>>

-----------------------------------------------------------------------------
Step(r) ==
  \/ Start(r) \/ Fail(r)
  \/ PrepareFinal(r) \/ CloseCycle(r) \/ ReadLedger(r) \/ CreatePlan(r)
  \/ CreateBranch(r) \/ Reserve(r)
  \/ Supersede(r) \/ Check(r) \/ Reuse(r) \/ Recheck(r)
  \/ ReadCandidate(r) \/ CopyCandidate(r) \/ BeginPublication(r) \/ Consume(r)
  \/ PushTag(r) \/ CreateDraft(r) \/ Reconcile(r) \/ Reread(r) \/ Upload(r) \/ Confirm(r)
  \/ Publish(r) \/ KeepEvidence(r)

Next ==
  \/ \E r \in Runs : Step(r) \/ Schedule(r) \/ Dispatch(r)
                     \/ Rerun(r) \/ RerunFailed(r)
  \/ \E r \in Runs, flow \in Flows : Merge(r, flow)
  \/ \E bump \in Bumps : PushTopic(bump) \/ OpenPullRequest(bump)

Spec == Init /\ [][Next]_vars

-----------------------------------------------------------------------------
(* Properties.                                                             *)

Release == [tag : Tag, plan : Plan, by : Runs, draft : BOOLEAN,
            files : SUBSET Files, fresh : BOOLEAN]
Job == [event : {"none", "push", "schedule", "dispatch"},
        channel : Channels \cup {"none"}, sha : Commits \cup {0},
        rc : Runs \cup {0}, attempt : Nat, built : Nat]

(* Every variable keeps its type, the ledger stays readable, and a run     *)
(* that works on a publication holds a plan.                               *)
PipelineTypeOK ==
  /\ ledger \in Ledger /\ Readable(ledger)
  /\ slots \in {1, 2} /\ head \in Commits
  /\ commit \in [Commits -> [base : Bases, flow : Flows]]
  /\ proposal \in [base : Bases \cup {NoBase}, open : BOOLEAN]
  /\ branch \in BOOLEAN /\ (ledger # EmptyLedger => branch)
  /\ tags \subseteq [tag : Tag, sha : Commits]
  /\ releases \subseteq Release
  /\ pc \in [Runs -> Active \cup Ended \cup {"none", "queued"}]
  /\ job \in [Runs -> Job]
  /\ plan \in [Runs -> Plan \cup {NoPlan}]
  /\ seen \in [Runs -> Ledger]
  /\ source \in [Runs -> Commits \cup {0}]
  /\ \A r \in Runs : pc[r] \in Active \ {"prepare", "reserve", "candidate"}
                       => plan[r] # NoPlan

(* Two runs never reserve the same build number, whatever they read before *)
(* they wrote and whichever of their writes was lost (reserve_plan over    *)
(* the compare-and-swap of write_state).                                   *)
NumbersUnique ==
  \A q, r \in Runs :
    q # r /\ ledger.plans[q] # NoPlan /\ ledger.plans[r] # NoPlan
      => ledger.plans[q].number # ledger.plans[r].number

(* No write, retry or conflict takes a reservation back, changes one, or   *)
(* lowers the counter or the publication floor: "the ledger must never be  *)
(* reset to retry" (begin_publication).                                    *)
Durable ==
  /\ ledger'.counter >= ledger.counter /\ ledger'.floor >= ledger.floor
  /\ \A r \in Runs : ledger.plans[r] # NoPlan
                       => ledger'.plans[r] = ledger.plans[r]
LedgerDurable == [][Durable]_vars

(* The ledger, the retries and the publications implement the promise of   *)
(* ReleaseNumbers.                                                         *)
NumberOf(r) == IF ledger.plans[r] = NoPlan THEN 0 ELSE ledger.plans[r].number
Numbers == INSTANCE ReleaseNumbers WITH
             numbers <- [r \in Runs |-> NumberOf(r)],
             floor <- ledger.floor,
             public <- {x.plan.number : x \in {y \in releases : ~y.draft}}
RefinesNumbers == Numbers!Promise

(* Reservations, tags and releases stay one to one, and what the public    *)
(* can see was reserved and spent before, carries every file, has its tag  *)
(* at the source of its plan, and was built by the attempt that published  *)
(* it: however create, upload and publish requests were lost, whatever     *)
(* overlapped and was rerun.                                               *)
PublishedIsBacked ==
  /\ \A q, r \in Runs : q # r /\ NoPlan \notin {ledger.plans[q], ledger.plans[r]}
                       => TagOf(ledger.plans[q]) # TagOf(ledger.plans[r])
  /\ \A x, y \in releases : x.tag = y.tag => x = y
  /\ \A x \in releases :
       /\ x.plan \in Reserved(ledger) /\ x.plan.number <= ledger.floor
       /\ x.fresh
       /\ ~x.draft => x.files = Files /\ TagSha(x.tag) = {x.plan.sha}

Appears(x) == ~x.draft /\ x \notin releases

(* While runs do not overlap, a package becomes public only when nothing   *)
(* newer is: a delayed, rerun or promoted publication never downgrades     *)
(* (verify_reservation, verify_promotion_order).                           *)
NoDowngrade ==
  [][slots = 1 =>
       \A x \in releases' : Appears(x) =>
         \A y \in releases : ~y.draft => y.plan.number <= x.plan.number]_vars

(* While runs do not overlap, once the final version of a base has its tag *)
(* no beta or candidate of that base becomes public.                       *)
FinalIsClosed ==
  [][slots = 1 =>
       \A x \in releases' :
         Appears(x) /\ x.tag.channel \in {"beta", "rc"}
           => StableTag(x.tag.base) \notin Tagged]_vars
=============================================================================
