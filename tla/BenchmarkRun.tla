---------------------------- MODULE BenchmarkRun ----------------------------
(***************************************************************************)
(* One private benchmark run (scripts/run_local_production_benchmark.py)   *)
(* over a pack of cases (local_benchmark_pack.py), with its two local      *)
(* models (local_benchmark_providers.py), the executor of its two phases   *)
(* (local_production_case_executor.py), and the independent collector of   *)
(* its model requests (capture_local_provider_boundary.py), which holds    *)
(* the golden labels back until the requests are sealed.                   *)
(*                                                                         *)
(* Runner and collector exchange authenticated frames over a socket; a     *)
(* reply may miss the client's time limit and then still arrives.  A       *)
(* request is its number n: the n-th one any model was asked.  Hashes are  *)
(* the requests they stand for; ingestion, retrieval and answering inside  *)
(* a case are the requests they make; metrics are left out.                *)
(***************************************************************************)
EXTENDS Integers, Sequences

CONSTANTS
  Records,        \* the number of cases in the pack
  VisitCalls,     \* bound: model requests of one case in one phase
  CallLimit,      \* CV_EVAL_MAX_PROVIDER_CALLS
  RunTime,        \* CV_EVAL_MAX_DURATION_SECONDS
  MaxMinutes,     \* bound: ticks of the clock
  MaxLate         \* bound: replies that miss the client's time limit

ASSUME BenchmarkAssumption ==
  /\ {Records, VisitCalls, CallLimit, RunTime} \subseteq Nat \ {0}
  /\ {MaxMinutes, MaxLate} \subseteq Nat

Cases == 1 .. Records
NoCall == [n |-> 0]

\* bench: the runner.  asked: the providers: what is loaded, the ordinal of each, and how
\* many calls their counters show.  ledger: _ObservedLedger.  client, up, down: the client's
\* request count and the two directions of the socket.  keeper: the collector.  ran: what the
\* models were given.  edited: whether the pack changed.  minutes: the clock.
VARIABLES bench, asked, ledger, client, up, down, keeper, ran, edited, minutes
benchVars == <<bench, asked, ledger, client, up, down, keeper, ran, edited, minutes>>

BenchInit ==
  /\ bench = [pc |-> "idle", captured |-> FALSE, at |-> 1, begun |-> FALSE, calls |-> 0,
              call |-> NoCall, acked |-> FALSE, hash |-> 0, spent |-> FALSE, handles |-> {}, observed |-> <<>>, failed |-> FALSE]
  /\ asked = [embedding |-> "closed", generation |-> "closed",
              ordinals |-> [k \in {"embedding", "generation"} |-> 0], counted |-> 0]
  /\ ledger = [closed |-> FALSE, active |-> 0, calls |-> 0, events |-> [c \in Cases |-> <<>>]]
  /\ client = 0 /\ up = <<>> /\ down = <<>> /\ ran = <<>>
  /\ keeper = [pc |-> "listening", expected |-> 1, events |-> <<>>, evidence |-> FALSE,
               ordinals |-> [k \in {"embedding", "generation"} |-> 0], goldenAt |-> -1]
  /\ edited = FALSE /\ minutes = 0

Late == minutes > RunTime
Broken(b) == [b EXCEPT !.failed = TRUE, !.pc = "final", !.call = NoCall, !.acked = FALSE,
                             !.hash = 0, !.begun = FALSE]

----------------------------------------------------------------------------
(* The runner, up to the end of its second phase.                          *)

\* Configuration, open_execution or open, the handshake, and the two providers: the
\* embedding model is loaded, the generation model only admitted.  prepare attests them.
AdmitPack(captured) ==
  /\ bench.pc = "idle"
  /\ bench' = [bench EXCEPT !.pc = "retrieve", !.captured = captured]
  /\ asked' = [asked EXCEPT !.embedding = "loaded", !.generation = "deferred"]
  /\ keeper' = [keeper EXCEPT !.pc = IF captured THEN "session" ELSE @]
  /\ UNCHANGED <<ledger, client, up, down, ran, edited, minutes>>

\* Mutant: the second phase enters its requests under the last case selected.
InPhaseOneOnly == IF bench.pc = "retrieve" THEN bench.at ELSE ledger.active

\* ledger.select: the case the next requests are entered under.
CaseSelected == bench.at

\* duration_gate, ledger.select and capture.select of the next case of a phase.
SelectCase ==
  /\ bench.pc \in {"retrieve", "answer"} /\ ~bench.begun
  /\ IF Late THEN bench' = Broken(bench) /\ UNCHANGED ledger
     ELSE /\ bench' = [bench EXCEPT !.begun = TRUE, !.calls = 0, !.spent = FALSE]
          /\ ledger' = [ledger EXCEPT !.active = CaseSelected]
  /\ UNCHANGED <<asked, client, up, down, keeper, ran, edited, minutes>>

Kind == IF bench.pc = "retrieve" THEN "embedding" ELSE "generation"
Total(o) == o["embedding"] + o["generation"]

\* _encode and _generate_request up to the capture: the model is there (the deferred one is
\* loaded by its first call), the ordinal is taken, and the frame is sent before anything runs.
CallModel ==
  /\ bench.begun /\ bench.call = NoCall /\ ~bench.spent /\ bench.calls < VisitCalls
  /\ asked[Kind] # "closed"
  /\ asked' = [asked EXCEPT ![Kind] = "loaded", !.ordinals[Kind] = @ + 1]
  /\ LET call == [command |-> "capture", seq |-> client + 1, n |-> Total(asked.ordinals) + 1,
                  kind |-> Kind, ordinal |-> asked.ordinals[Kind] + 1]
     IN /\ bench' = [bench EXCEPT !.call = call, !.calls = @ + 1, !.acked = ~bench.captured,
                                  !.hash = call.n]
        /\ up' = IF bench.captured THEN Append(up, call) ELSE up
  /\ UNCHANGED <<ledger, client, down, keeper, ran, edited, minutes>>

\* A failed request ends the run in the first phase; in the second the answer service turns
\* it into a provider failure, and the case goes on without a model.
CallFailed(b) == IF b.pc = "retrieve" THEN Broken(b) 
                 ELSE [b EXCEPT !.call = NoCall, !.acked = FALSE, !.hash = 0, !.spent = TRUE]

\* CaptureClient._request reads the next frame on the socket, whatever it answers.
CaptureAcked ==
  /\ bench.call # NoCall /\ ~bench.acked /\ down # <<>>
  /\ down' = Tail(down)
  /\ IF Head(down).status = "captured" /\ Head(down).seq = bench.call.seq
     THEN /\ client' = client + 1
          /\ bench' = [bench EXCEPT !.acked = TRUE, !.hash = Head(down).n]
     ELSE /\ bench' = CallFailed(bench)
          /\ UNCHANGED client
  /\ UNCHANGED <<asked, ledger, up, keeper, ran, edited, minutes>>

\* The client's time limit passes, or the collector closed the connection.
NeverRan == Total(asked.ordinals) - Len(ran)

CaptureLost ==
  /\ bench.call # NoCall /\ ~bench.acked /\ down = <<>>
  /\ keeper.pc # "dead" => NeverRan <= MaxLate
  /\ bench' = CallFailed(bench)
  /\ UNCHANGED <<asked, ledger, client, up, down, keeper, ran, edited, minutes>>

\* _ObservedLedger.observe, then the counters and the model.  An inference that fails changes
\* no more than its result: the first phase ends the run, the second goes on.
ObserveCall(runs) ==
  /\ bench.call # NoCall /\ bench.acked
  /\ ~ledger.closed
  /\ IF ledger.calls = CallLimit
     THEN /\ bench' = CallFailed(bench)
          /\ ledger' = [ledger EXCEPT !.calls = @ + 1]
          /\ UNCHANGED <<asked, ran>>
     ELSE /\ ledger' = [ledger EXCEPT !.calls = @ + 1,
                                      !.events[ledger.active] = Append(@, bench.hash)]
          /\ asked' = [asked EXCEPT !.counted = @ + 1]
          /\ ran' = Append(ran, [n |-> bench.call.n, case |-> bench.at])
          /\ bench' = IF runs THEN [bench EXCEPT !.call = NoCall, !.acked = FALSE, !.hash = 0] ELSE CallFailed(bench)
  /\ UNCHANGED <<client, up, down, keeper, edited, minutes>>

\* phase_one returns its handle, phase_two consumes it and returns the observation; the
\* duration gate follows.  After the last case comes the next phase.
EndCase ==
  /\ bench.begun /\ bench.call = NoCall
  /\ bench.pc = "retrieve" => bench.calls > 0
  /\ bench.pc = "answer" => bench.at \in bench.handles
  /\ LET b == [bench EXCEPT !.begun = FALSE,
                 !.handles = IF bench.pc = "retrieve" THEN @ \cup {bench.at} ELSE @ \ {bench.at},
                 !.observed = IF bench.pc = "retrieve" THEN @ ELSE Append(@, bench.at)]
     IN bench' = IF Late THEN Broken(b)
                 ELSE IF b.at < Records THEN [b EXCEPT !.at = @ + 1]
                 ELSE [b EXCEPT !.pc = IF @ = "retrieve" THEN "switch" ELSE "checks"]
  /\ UNCHANGED <<asked, ledger, client, up, down, keeper, ran, edited, minutes>>

\* close_embedding_for_phase_transition.
SwitchModels ==
  /\ bench.pc = "switch"
  /\ asked' = [asked EXCEPT !.embedding = "closed"]
  /\ bench' = [bench EXCEPT !.pc = "answer", !.at = 1]
  /\ UNCHANGED <<ledger, client, up, down, keeper, ran, edited, minutes>>

----------------------------------------------------------------------------
(* Its end: checks, cleanup, the frozen ledger, the labels, the report.    *)

\* Attestations, the pack's descriptor and _usage: the providers' counters and the ledger agree.
CheckRun ==
  /\ bench.pc = "checks"
  /\ bench' = IF edited \/ asked.counted # ledger.calls THEN Broken(bench)
              ELSE [bench EXCEPT !.pc = "final"]
  /\ UNCHANGED <<asked, ledger, client, up, down, keeper, ran, edited, minutes>>

\* seal_requests, finalize and close, whatever happened; finalize refuses unanswered handles.
CleanUp ==
  /\ bench.pc = "final"
  /\ ledger' = [ledger EXCEPT !.closed = TRUE]
  /\ asked' = [asked EXCEPT !.embedding = "closed", !.generation = "closed"]
  /\ bench' = [bench EXCEPT !.pc = IF bench.failed \/ bench.handles # {} \/ Late THEN "failed" ELSE "freeze"]
  /\ UNCHANGED <<client, up, down, keeper, ran, edited, minutes>>

\* records and freeze_request_ledger; then the seal request, or the pack's own labels.
Unfrozen ==
  \/ edited
  \/ \E c \in Cases : ledger.events[c] = <<>>
  \/ bench.captured /\ client # ledger.calls

FreezeLedger ==
  /\ bench.pc = "freeze"
  /\ IF Unfrozen
     THEN bench' = [bench EXCEPT !.pc = "failed"] /\ UNCHANGED <<up, keeper>>
     ELSE IF bench.captured
     THEN /\ bench' = [bench EXCEPT !.pc = "sealing"]
          /\ up' = Append(up, [command |-> "seal", seq |-> client + 1, n |-> ledger.calls])
          /\ UNCHANGED keeper
     ELSE /\ bench' = [bench EXCEPT !.pc = "score"]
          /\ keeper' = [keeper EXCEPT !.goldenAt = Len(ran)]
          /\ UNCHANGED up
  /\ UNCHANGED <<asked, ledger, client, down, ran, edited, minutes>>

\* seal_and_read_labels: the next frame on the socket must be the answer to the seal.
LabelsReleased ==
  /\ bench.pc = "sealing" /\ down # <<>>
  /\ down' = Tail(down)
  /\ bench' = [bench EXCEPT !.pc = IF /\ Head(down).status = "sealed" /\ Head(down).seq = client + 1
                                     /\ Head(down).n = ledger.calls
                                  THEN "score" ELSE "failed"]
  /\ UNCHANGED <<asked, ledger, client, up, keeper, ran, edited, minutes>>

SealLost ==
  /\ bench.pc = "sealing" /\ down = <<>>
  /\ bench' = [bench EXCEPT !.pc = "failed"]
  /\ UNCHANGED <<asked, ledger, client, up, down, keeper, ran, edited, minutes>>

\* The pack once more, the time, _score's identities, and the report at a new path.
ScoreRun(written) ==
  /\ bench.pc = "score"
  /\ bench' = [bench EXCEPT !.pc =
       IF /\ ~edited /\ ~Late /\ written
          /\ {bench.observed[i] : i \in DOMAIN bench.observed} = Cases
          /\ asked.counted <= CallLimit
       THEN "reported" ELSE "failed"]
  /\ UNCHANGED <<asked, ledger, client, up, down, keeper, ran, edited, minutes>>

----------------------------------------------------------------------------
(* The collector, and the world.                                           *)

\* serve: one frame.  A wrong sequence number, ordinal or count ends it without evidence; at
\* the seal the evidence is written and the golden data opened before the reply is sent.
Admitted(f) == f.seq = keeper.expected /\ f.ordinal = keeper.ordinals[f.kind] + 1
Sealable(f) == f.seq = keeper.expected /\ f.n = Len(keeper.events) /\ f.n > 0

Captured(f) ==
  /\ keeper' = [keeper EXCEPT !.events = Append(@, f.n), !.expected = @ + 1,
                              !.ordinals[f.kind] = f.ordinal]
  /\ down' = Append(down, [status |-> "captured", seq |-> f.seq, n |-> f.n])

Sealed(f) ==
  /\ keeper' = [keeper EXCEPT !.pc = "sealed", !.evidence = TRUE, !.goldenAt = Len(ran)]
  /\ down' = Append(down, [status |-> "sealed", seq |-> f.seq, n |-> f.n])

KeeperServes ==
  /\ keeper.pc = "session" /\ up # <<>>
  /\ up' = Tail(up)
  /\ LET f == Head(up)
     IN IF f.command = "capture" /\ Admitted(f) THEN Captured(f)
        ELSE IF f.command = "seal" /\ Sealable(f) THEN Sealed(f)
        ELSE keeper' = [keeper EXCEPT !.pc = "dead"] /\ UNCHANGED down
  /\ UNCHANGED <<bench, asked, ledger, client, ran, edited, minutes>>

\* The runner is gone: the read finds the end of the stream.
KeeperLoses ==
  /\ keeper.pc = "session" /\ up = <<>> /\ bench.pc = "failed"
  /\ keeper' = [keeper EXCEPT !.pc = "dead"]
  /\ UNCHANGED <<bench, asked, ledger, client, up, down, ran, edited, minutes>>

PackEdited ==
  /\ ~edited /\ bench.pc # "idle"
  /\ edited' = TRUE
  /\ UNCHANGED <<bench, asked, ledger, client, up, down, keeper, ran, minutes>>

MinutePasses ==
  /\ minutes < MaxMinutes /\ bench.pc # "idle"
  /\ minutes' = minutes + 1
  /\ UNCHANGED <<bench, asked, ledger, client, up, down, keeper, ran, edited>>

BenchNext ==
  \/ \E captured \in BOOLEAN : AdmitPack(captured)
  \/ SelectCase \/ CallModel \/ CaptureAcked \/ CaptureLost
  \/ \E runs \in BOOLEAN : ObserveCall(runs)
  \/ EndCase \/ SwitchModels \/ CheckRun \/ CleanUp \/ FreezeLedger \/ LabelsReleased \/ SealLost
  \/ \E written \in BOOLEAN : ScoreRun(written)
  \/ KeeperServes \/ KeeperLoses \/ PackEdited \/ MinutePasses

BenchSpec == BenchInit /\ [][BenchNext]_benchVars

----------------------------------------------------------------------------
(* Properties.                                                             *)

\* The requests of a case that a model ran; numbers in the order the models were asked.
RanIn(c) == {ran[i].n : i \in {i \in DOMAIN ran : ran[i].case = c}}
Listed(s) == {s[i] : i \in DOMAIN s}
Rising(s) == \A i, j \in DOMAIN s : i < j => s[i] < s[j]

\* Nothing runs on a model once the golden labels were opened, whoever opened them; and a
\* report rests on what really ran: every case was answered, the frozen ledger lists under
\* each case exactly the requests the models got for it, in their order, and the collector,
\* which never saw that ledger, recorded the same requests in the same order.  Late, lost and
\* misattributed acknowledgements, failed inferences and exhausted budgets end in no report.
ReportBacked ==
  /\ keeper.goldenAt >= 0 => Len(ran) = keeper.goldenAt
  /\ bench.pc = "reported" =>
       /\ keeper.goldenAt >= 0
       /\ bench.observed = [c \in Cases |-> c]
       /\ Rising([i \in DOMAIN ran |-> ran[i].n])
       /\ \A c \in Cases : Listed(ledger.events[c]) = RanIn(c) /\ Rising(ledger.events[c])
       /\ bench.captured => keeper.events = [i \in DOMAIN ran |-> ran[i].n] /\ keeper.evidence

============================================================================
