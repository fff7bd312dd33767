------------------------------- MODULE EvalGate -------------------------------
(***************************************************************************)
(* The gate of the real benchmark (scripts/run_eval.py): the preflight a   *)
(* person approves, the approval check, the run of the approved runner     *)
(* with its candidate report, and the check of the receipt that binds the  *)
(* candidate to independent evidence.  Between any two of its reads the    *)
(* files it names may be edited, the checkout may move and time may pass.  *)
(* The runner itself is BenchmarkRun; here it is what it loads and opens.  *)
(*                                                                         *)
(* A content is a number and an edit makes a new one, so a hash is the     *)
(* content.  Manifest m declares pack m.  Schemas, metrics and the output  *)
(* path are left out; only v3 manifests (with capture) are modelled.       *)
(***************************************************************************)
EXTENDS Integers, Sequences

CONSTANTS
  ApprovalTime,                          \* how long a person's approval lasts
  MaxEdits, MaxDays, MaxInvocations, MaxReviews      \* bounds

ASSUME EvalAssumption == {ApprovalTime, MaxEdits, MaxDays, MaxInvocations, MaxReviews} \subseteq Nat

Inputs == {"manifest", "pack", "runner", "environment", "revision"}
Documents == {"preflight", "approval", "candidate", "evidence", "receipt", "baseline", "seal"}
NoDocument == [session |-> 0]

\* file, doc: the inputs and the documents in place.  gate: the invocation at work: its mode,
\* its next step, what it has read, and what was in place when its second look began.
\* child: the runner process.  finished: what each finished run really used.  issued: the bound
\* receipts.  today: the clock.  edits, invoked, reviews: counted for the bounds.
VARIABLES file, doc, gate, child, finished, issued, today, edits, invoked, reviews
evalVars == <<file, doc, gate, child, finished, issued, today, edits, invoked, reviews>>

NoChild == [pc |-> "none"]
Idle == [mode |-> "none", at |-> 1, seen |-> [x \in Inputs \cup Documents |-> NoDocument],
         since |-> 0, moment |-> NoDocument]
EvalInit ==
  /\ file = [x \in Inputs |-> 1] /\ doc = [x \in Documents |-> NoDocument]
  /\ gate = Idle /\ child = NoChild /\ finished = <<>> /\ issued = {}
  /\ today = 0 /\ edits = 0 /\ invoked = 0 /\ reviews = 0

Current(x) == IF x \in Inputs THEN file[x] ELSE doc[x]

----------------------------------------------------------------------------
(* The order of the steps.  read: look and keep.  again: look, and refuse  *)
(* what differs from the first look.  match: look, and refuse what differs *)
(* from the approval that was read.                                        *)

\* _approval_preflight
PreflightSteps ==
  << <<"read", "manifest">>, <<"read", "runner">>, <<"read", "environment">>, <<"read", "revision">>,
     <<"again", "manifest">>, <<"write", "preflight">> >>

\* _assert_approval_inputs_unchanged
Unchanged == << <<"again", "manifest">>, <<"again", "approval">> >>

\* _bound_approval, _approval_manifest_binding
BindSteps == << <<"read", "manifest">>, <<"read", "approval">>, <<"match", "runner">>,
                <<"match", "environment">> >> \o Unchanged

\* _check_approval: it looks at the revision, the runner and the environment it reports, and
\* compares none of them.
ApprovalSteps ==
  BindSteps \o << <<"read", "revision">>, <<"read", "runner">>, <<"read", "environment">> >>
            \o Unchanged \o << <<"write", "approval-check">> >>

\* _prevalidate_baseline_inputs, _load_sealed_baseline
BaselineSteps == << <<"read", "seal">>, <<"read", "baseline">> >>

\* _real_benchmark up to the runner, what follows its end, and main.
AdmissionSteps ==
  BindSteps \o << <<"read", "revision">>, <<"match", "environment">>, <<"match", "runner">>,
                  <<"match", "environment">> >> \o Unchanged
\* Mutant: nothing is looked at again once the runner has ended.
NothingAfter == <<>>

AfterSteps ==
  Unchanged \o << <<"match", "runner">>, <<"match", "environment">>, <<"again", "revision">> >>
RunSteps ==
  AdmissionSteps \o << <<"launch", "runner">>, <<"await", "runner">> >> \o AfterSteps
                 \o << <<"write", "candidate">> >>

\* _check_golden_non_transfer_receipt: both looks.
ReceiptSteps ==
  << <<"read", "receipt">>, <<"read", "manifest">>, <<"read", "pack">>, <<"read", "evidence">>,
     <<"read", "candidate">>, <<"read", "runner">>, <<"bind", "receipt">>,
     <<"again", "runner">>, <<"again", "manifest">>, <<"again", "pack">>, <<"again", "candidate">>,
     <<"again", "receipt">>, <<"again", "evidence">>, <<"write", "receipt-check">> >>

StepsOf(mode) ==
  CASE mode = "preflight" -> PreflightSteps
    [] mode = "check" -> ApprovalSteps
    [] mode = "run" -> RunSteps
    [] mode = "compare" -> BaselineSteps \o RunSteps
    [] mode = "receipt" -> ReceiptSteps
    [] OTHER -> <<>>

Step == StepsOf(gate.mode)[gate.at]
At(kind) == gate.mode # "none" /\ Step[1] = kind
Seen(x) == gate.seen[x]

----------------------------------------------------------------------------
(* The gate.                                                               *)

\* main: one invocation; what it lacks makes it refuse on the way.
Invoke(mode) ==
  /\ gate.mode = "none" /\ child.pc = "none" /\ invoked < MaxInvocations
  /\ gate' = [Idle EXCEPT !.mode = mode]
  /\ invoked' = invoked + 1
  /\ UNCHANGED <<file, doc, child, finished, issued, today, edits, reviews>>

\* What a first look refuses: a document that is not there, an approval of another manifest
\* or not in force, a pack the manifest does not declare, a candidate that did not pass or
\* has other bindings, a baseline its seal does not name.
InForce(a) == a.from <= today /\ today < a.until
LookRefused(x) ==
  \/ x \in Documents /\ doc[x] = NoDocument
  \/ x = "approval" /\ (doc[x].manifest # Seen("manifest") \/ ~InForce(doc[x]))
  \/ x = "pack" /\ file[x] # Seen("manifest")
  \/ x = "candidate" /\ (doc[x].result # "PASS" \/ doc[x].manifest # Seen("manifest"))
  \/ x = "baseline" /\ (doc[x] # Seen("seal") \/ doc[x].result # "PASS")

Refuse == gate' = Idle
Advance(g) == gate' = [g EXCEPT !.at = @ + 1]

Look ==
  /\ At("read")
  /\ LET x == Step[2] IN
     IF LookRefused(x) THEN Refuse
     ELSE Advance([gate EXCEPT !.seen[x] = Current(x), !.since = IF x = "approval" THEN today ELSE @])
  /\ UNCHANGED <<file, doc, child, finished, issued, today, edits, invoked, reviews>>

LookAgain ==
  /\ At("again")
  /\ IF Current(Step[2]) = Seen(Step[2]) THEN Advance(gate) ELSE Refuse
  /\ UNCHANGED <<file, doc, child, finished, issued, today, edits, invoked, reviews>>

MatchApproval ==
  /\ At("match")
  /\ IF file[Step[2]] = Seen("approval")[Step[2]] THEN Advance(gate) ELSE Refuse
  /\ UNCHANGED <<file, doc, child, finished, issued, today, edits, invoked, reviews>>

\* The bindings of the receipt: to what was read, and, when its method is the capture, of the
\* evidence to the candidate.
ReceiptBound ==
  LET r == Seen("receipt")  c == Seen("candidate")  e == Seen("evidence") IN
  /\ r.report = c /\ r.evidence = e
  /\ r.manifest = Seen("manifest") /\ r.pack = Seen("pack") /\ r.runner = Seen("runner")
  /\ r.environment = c.environment /\ r.revision = c.revision
  /\ r.written >= c.observed
  /\ r.method = "capture" =>
       /\ e.revision = r.revision /\ e.runner = r.runner /\ e.manifest = r.manifest
       /\ e.pack = r.pack /\ e.environment = r.environment /\ e.session = c.session

BindReceipt ==
  /\ At("bind")
  /\ IF ReceiptBound
     THEN Advance([gate EXCEPT !.moment = [file |-> file, doc |-> doc]])
     ELSE Refuse
  /\ UNCHANGED <<file, doc, child, finished, issued, today, edits, invoked, reviews>>

\* subprocess.run with the approved environment variables.
Launch ==
  /\ At("launch")
  /\ child' = [pc |-> "launched", manifest |-> Seen("manifest"), runner |-> Seen("approval").runner,
               environment |-> Seen("approval").environment, revision |-> Seen("revision"),
               loaded |-> 0, within |-> 0, on |-> 0, opened |-> 0, report |-> "none"]
  /\ Advance(gate)
  /\ UNCHANGED <<file, doc, finished, issued, today, edits, invoked, reviews>>

\* It comes back, or is killed at the approved duration.
Await ==
  /\ At("await")
  /\ child.pc \in {"launched", "loaded", "opened"} => today > gate.since
  /\ Advance(gate)
  /\ child' = IF child.pc = "ended" THEN child ELSE [child EXCEPT !.pc = "failed"]
  /\ UNCHANGED <<file, doc, finished, issued, today, edits, invoked, reviews>>

Written(x, value) ==
  /\ doc' = [doc EXCEPT ![x] = value]
  /\ gate' = Idle
  /\ UNCHANGED <<file, finished, issued, today, edits, invoked, reviews>>

WritePreflight ==
  /\ At("write") /\ Step[2] = "preflight"
  /\ Written("preflight", [manifest |-> Seen("manifest"), runner |-> Seen("runner"),
                           environment |-> Seen("environment"), revision |-> Seen("revision")])
  /\ UNCHANGED child

WriteApprovalCheck ==
  /\ At("write") /\ Step[2] = "approval-check"
  /\ gate' = Idle
  /\ UNCHANGED <<file, doc, child, finished, issued, today, edits, invoked, reviews>>

\* _benchmark_report and the rest of _real_benchmark, then main: the comparison with the
\* baseline in memory, and the revision of the checkout at this moment.
Comparable ==
  /\ gate.mode = "compare"
  /\ Seen("baseline").manifest = Seen("manifest")
  /\ Seen("baseline").environment = Seen("approval").environment
WriteCandidate ==
  /\ At("write") /\ Step[2] = "candidate"
  /\ child' = NoChild
  /\ IF child.report \in {"PASS", "FAIL"}
     THEN \E better \in BOOLEAN :
            LET findings == gate.mode = "compare" /\ ~(Comparable /\ better)
                result == IF findings THEN "FAIL" ELSE child.report
            IN Written("candidate",
                 [session |-> Len(finished), manifest |-> Seen("manifest"), approval |-> Seen("approval"),
                  environment |-> Seen("approval").environment, revision |-> file["revision"],
                  observed |-> today, result |-> result,
                  eligible |-> gate.mode = "compare" /\ result = "PASS",
                  against |-> IF gate.mode = "compare" THEN Seen("baseline").session ELSE 0])
     ELSE gate' = Idle /\ UNCHANGED <<file, doc, finished, issued, today, edits, invoked, reviews>>

WriteReceiptCheck ==
  /\ At("write") /\ Step[2] = "receipt-check"
  /\ issued' = issued \cup {[seen |-> gate.seen, moment |-> gate.moment]}
  /\ gate' = Idle
  /\ UNCHANGED <<file, doc, child, finished, today, edits, invoked, reviews>>

\* A refusal after the runner ended leaves no process behind.
Reap ==
  /\ gate.mode = "none" /\ child.pc \in {"ended", "failed"}
  /\ child' = NoChild
  /\ UNCHANGED <<file, doc, gate, finished, issued, today, edits, invoked, reviews>>

----------------------------------------------------------------------------
(* The runner: its code, its pack, its report and the collector's evidence.*)

RunnerLoads ==
  /\ child.pc = "launched"
  /\ child' = [child EXCEPT !.pc = "loaded", !.loaded = file["runner"],
                            !.within = file["environment"], !.on = file["revision"]]
  /\ UNCHANGED <<file, doc, gate, finished, issued, today, edits, invoked, reviews>>

RunnerOpensPack ==
  /\ child.pc = "loaded"
  /\ child' = IF file["pack"] = child.manifest
              THEN [child EXCEPT !.pc = "opened", !.opened = file["pack"]]
              ELSE [child EXCEPT !.pc = "failed"]
  /\ UNCHANGED <<file, doc, gate, finished, issued, today, edits, invoked, reviews>>

RunnerEnds(report) ==
  /\ child.pc = "opened"
  /\ child' = IF report = "none" \/ file["pack"] # child.opened
              THEN [child EXCEPT !.pc = "failed"]
              ELSE [child EXCEPT !.pc = "ended", !.report = report]
  /\ IF child'.pc = "ended"
     THEN /\ finished' = Append(finished, [runner |-> child.loaded, environment |-> child.within,
                                 revision |-> child.on, pack |-> child.opened, since |-> gate.since])
          /\ doc' = [doc EXCEPT !["evidence"] =
               [session |-> Len(finished) + 1, manifest |-> child.manifest, pack |-> child.opened,
                runner |-> child.runner, environment |-> child.environment,
                revision |-> child.revision]]
     ELSE UNCHANGED <<finished, doc>>
  /\ UNCHANGED <<file, gate, issued, today, edits, invoked, reviews>>

----------------------------------------------------------------------------
(* People, edits and time.                                                 *)

\* A person approves what a preflight named.
HumanApproves ==
  /\ doc["preflight"] # NoDocument
  /\ LET p == doc["preflight"] IN
     doc' = [doc EXCEPT !["approval"] =
       [manifest |-> p.manifest, runner |-> p.runner, environment |-> p.environment,
        from |-> today, until |-> today + ApprovalTime]]
  /\ doc' # doc
  /\ UNCHANGED <<file, gate, child, finished, issued, today, edits, invoked, reviews>>

\* An independent reviewer writes a receipt for the candidate and the evidence at hand.
HumanReviews(method) ==
  /\ reviews < MaxReviews /\ doc["candidate"] # NoDocument /\ doc["evidence"] # NoDocument
  /\ LET c == doc["candidate"] IN
     doc' = [doc EXCEPT !["receipt"] =
       [report |-> c, evidence |-> doc["evidence"], manifest |-> file["manifest"],
        pack |-> file["pack"], runner |-> file["runner"], environment |-> c.environment,
        revision |-> c.revision, written |-> today, method |-> method,
        id |-> reviews + 1]]
  /\ reviews' = reviews + 1
  /\ UNCHANGED <<file, gate, child, finished, issued, today, edits, invoked>>

\* A candidate is kept as the baseline; a person seals the baseline.
KeepBaseline ==
  /\ doc["candidate"] # NoDocument /\ doc["baseline"] # doc["candidate"]
  /\ doc' = [doc EXCEPT !["baseline"] = doc["candidate"]]
  /\ UNCHANGED <<file, gate, child, finished, issued, today, edits, invoked, reviews>>
HumanSeals ==
  /\ doc["baseline"] # NoDocument /\ doc["seal"] # doc["baseline"]
  /\ doc' = [doc EXCEPT !["seal"] = doc["baseline"]]
  /\ UNCHANGED <<file, gate, child, finished, issued, today, edits, invoked, reviews>>

EditInput(x) ==
  /\ edits < MaxEdits
  /\ file' = [file EXCEPT ![x] = @ + 1]
  /\ edits' = edits + 1
  /\ UNCHANGED <<doc, gate, child, finished, issued, today, invoked, reviews>>

DayPasses ==
  /\ today < MaxDays
  /\ today' = today + 1
  /\ UNCHANGED <<file, doc, gate, child, finished, issued, edits, invoked, reviews>>

EvalNext ==
  \/ \E mode \in {"preflight", "check", "run", "compare", "receipt"} : Invoke(mode)
  \/ Look \/ LookAgain \/ MatchApproval \/ BindReceipt \/ Launch \/ Await
  \/ WritePreflight \/ WriteApprovalCheck \/ WriteCandidate \/ WriteReceiptCheck \/ Reap
  \/ RunnerLoads \/ RunnerOpensPack \/ \E report \in {"none", "FAIL", "PASS"} : RunnerEnds(report)
  \/ HumanApproves \/ \E method \in {"capture", "other"} : HumanReviews(method)
  \/ KeepBaseline \/ HumanSeals
  \/ \E x \in Inputs : EditInput(x)
  \/ DayPasses

EvalSpec == EvalInit /\ [][EvalNext]_evalVars

----------------------------------------------------------------------------
(* Properties.                                                             *)

\* What the run of a candidate really used is what a person approved, while the approval was
\* in force when it was read.
RanAsApproved(c) ==
  LET r == finished[c.session]  a == c.approval IN
  /\ r.runner = a.runner /\ r.environment = a.environment /\ r.pack = a.manifest
  /\ c.manifest = a.manifest /\ a.from <= r.since /\ r.since < a.until

\* All that a bound receipt names was in place at one moment; and if it rests on the capture,
\* the candidate names the revision, and the receipt the runner and the pack, of its own run.
OneMomentOneRun(i) ==
  LET c == i.seen["candidate"]  r == finished[c.session] IN
  /\ \A x \in {"manifest", "pack", "runner"} : i.seen[x] = i.moment.file[x]
  /\ \A x \in {"receipt", "candidate", "evidence"} : i.seen[x] = i.moment.doc[x]
  /\ i.seen["receipt"].method = "capture" =>
       c.revision = r.revision /\ i.seen["runner"] = r.runner /\ i.seen["pack"] = r.pack

\* However the files are edited and the checkout moves between the gate's reads: a candidate
\* that passed stands for the approved runner, environment and pack; one that is eligible was
\* compared with a run of the same pack and environment; and a receipt binds one moment and
\* one run.  Every edit makes a content that was never there before: one that is undone
\* before the gate looks again is excluded, and the gate would not notice it.
GateBindsOneRun ==
  /\ LET c == doc["candidate"] IN
     c # NoDocument =>
       /\ RanAsApproved(c)
       /\ c.eligible => /\ finished[c.against].pack = finished[c.session].pack
                        /\ finished[c.against].environment = finished[c.session].environment
  /\ \A i \in issued : OneMomentOneRun(i)

===============================================================================
