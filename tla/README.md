# A formal model of Liminal Rail Metro

TLA+ modules, TLC configurations and TLAPS proofs about the Go program in this
repository. Paths below are relative to the repository's root.

    tlc -workers 2 -config mux_faults.cfg MCMultiplex     # one run
    tlapm MultiplexProofs.tla                             # one module's proofs

`PROJECT.json` lists the components, the runs, for every definition the lines it
models, for every property a mutant of the code that breaks it, the hazards
and the theorems.

## 1. Inventory

Liminal Rail Metro lets an agent act only through decisions, routes and receipts that
can be checked later. A *packet* (metro) asks for an action; a *decision* (from
a Lifetra station or a decision provider) allows it or not; a *route* carries it
to an executor; a *receipt* commits to its result; the receipt becomes the
*observation* of the next decision, or the evidence from which an adaptive
policy learns.

| Component | State | Operations | What makes it correct |
|---|---|---|---|
| `internal/lifetrastation/multiplex.go` | a child process, tables `pending`, `seen`, `abandoned`, flags, `writeMu`, one result channel per call | Start, Evaluate (many goroutines), a reader goroutine, failFatal, Close | every caller gets one answer, its own; a deadline never poisons the station; every call returns |
| `internal/lifetrastation/adaptive.go` | per station: in flight, completed, errors, average latency; `seen`; cursor | Evaluate = reserve, station call, finish; Close | slots match calls, cap respected, ids admitted once, retries get in |
| `internal/lifetrastation/persistent.go`, `process.go` | one child, calls under one mutex | Start, Evaluate, Close | a deadline kills the child; no answer reaches another call; every call returns |
| `internal/policyauthority` | the head file; the verified chain of manifests and rotations | OpenDurableResolver, Resolve, rotation checks | no rollback, no fork, never locked out |
| `internal/adaptive/durable.go` | append-only journal, policy statistics, identity maps | Apply, replay on open | a reward is learned once, on the statistics it saw; what is acknowledged survives |
| `internal/adaptive` (authority, signed authority, device and provider bound) | chain of grants and rotations, each anchored in a journal head | Open, Apply, Rotate, IssueAttestation | nothing is learned outside the current grant; a chain anchors what was learned before |
| `internal/adaptive` gates, `internal/trustpolicy` | none (values) | Decision, Execute, Learn | no effect and no learning without a permit |
| `internal/decisionplane` | none | NewRequest, ValidateDecision, ApplyDecision, remote provider | a decision is used only for its own request and never auto-routes below the thresholds |
| `internal/metro`, `internal/lifetrabridge` | none | Route, MakeSuccessReceipt, Verify, ReceiptToObservation, DecisionToPacket | a receipt is accepted only for its action, route and result |
| `internal/codingworkflow` | none; reads GitHub | Start, Verify | what is verified is one state of the pull request |
| `internal/mirror` | a content-addressed store | Put, Resolve, StoreEvidenceBundle, Verify | a bundle that verifies is complete |
| `integrations/moltbook` | consumed action ids | Execute, VerifyResult | one effect per action id, in the right order of checks |
| `cmd/liminal-rail` | consumed ids (bounded), slots | ServeHTTP | an id is executed at most once; full means refused |
| `internal/codexplugin` | slots of tool calls, a signing key | admission, deadlines, the coding tools | a restart or a deadline leaves nothing half done |
| `internal/deviceattest`, demos and benches | none | encodings, device probing, drivers | |

How they interact: `AdaptivePool` calls `MultiplexProcess.Evaluate` on the station
it reserved; `MultiplexProcess` talks to its child through two pipes; the bound
learners wrap `AuthorityLearner`, which wraps `DurableLearner`; the policy
authority gate asks the resolver that `OpenDurableResolver` returned; the pure
packages are called by all of them. The concurrency is goroutines on one mutex
per object (two in the multiplexed station), the child processes, and processes
that share a file. The failures are deadlines, a child that dies or breaks the
protocol, kills, power losses, failing writes and fsyncs.

`PROJECT.json` ("hazards") lists what is hard to test, line by line.

## 2. Modules

### Multiplex, RequestReply

`Multiplex` is `MultiplexProcess` at the grain of its critical sections: one
action per stretch of code between two points where another goroutine can get
in. `mu` is held only within an action, with one exception: Close waits for the
child under it, so every action that takes `mu` is guarded by `MuFree`.
`writeMu` is held over several steps and is a variable, because a write blocks
when the pipe is full. A caller goes idle, registered, writing, awaiting,
returned, or through withdrawing or expired; the reader goes scan, deliver,
scan, or fail, drain, done. `select` with a result and an expired context is a
choice (`Receive`, `Expire`).

The child is external and comes from the protocol the Go side speaks: it reads
requests, answers in any order, ends at end of input, and with `StationFaults`
it also dies, answers with an error, under foreign ids, about foreign requests,
twice, or with garbage. Data is abstracted: a request is the caller that made
it, so `validateBinding` compares callers. `Refused` leaves out `request.Validate()`
(`multiplex.go:162`): a request it refuses is refused before any state is touched.
Spawning that fails leaves no state
and is left out, as is the text of errors.

`RequestReply` is what a caller is promised: an id is used once, a call gets one
outcome, a decision only after the request was sent and only about that request.
`KeepsPromise` instantiates it with a refinement mapping (in `Multiplex`).

### AdaptivePool

Reserve, the call on the station, finish and Close; `Chosen` is
`chooseStationLocked` as a set: the cold stations, else those with the least
estimated delay below the cap, and of them the first from the cursor. The
station underneath is reduced to what the pool can see, justified by Multiplex:
the call ends with an answer, a fault or a deadline. `outstanding` is what the
child still works on and the pool does not see. The average latency is kept in
integers with EWMAAlpha as a fraction, and rounds down as `time.Duration(...)` does.
`Retry` is the loop of `cmd/adaptive-routing-bench`.

### PolicyHead

OpenDurableResolver at the grain of its system calls: read, write the temporary
file, fsync, rename, fsync of the directory. `file` is what processes see, `disk`
what a power loss leaves; the directory may be written back at any time. Every
opener may present any chain at any time.

A chain is a sequence of links, each a signed manifest with the rotation that led
to it, and its head (`HeadOf`) is the last link with its generation. That is all a
`ChainHead` commits to, so chains that part and later meet in one manifest and go on
by the same rotation share their heads from there on, and `chainContainsHead`
(`HasHead`) cannot tell them apart: root, X, M, N and root, Y, M, N have one head, and
whoever accepted the first accepts the second. A file's chain need not contain
every head that was accepted before, then. What it does is descend from it
(`Descendants`): chains lead from the one head to the other, each of which contains
the head of the one before, and all of which the issuers signed. Later writes
need not be returned either (an error after the rename), so this relation is the
weakest that the properties can use, and the instance has such chains.

### DurableJournal

Apply (checks, append, fsync, memory), replay, and the crashes between. Apply's
mutex is `Unlocked`. A hash chain is the sequence it commits to, so a line holds
the evidence before it, which gives its sequence number too. Statistics are
counts per arm: the mean is left out, as two rewards for one arm change the
count anyway. One context stands for all. Evidence that is refused changes
nothing and is no step. `file` is the journal as lines, of which the first
`synced` are safe; a line may be torn by a short write or a power loss. A line that
lost only its newline decodes while it is the last, and makes one unreadable line
with the next append. A kill cannot tear a line: it was one write.

A file has a name besides its lines. `appendEntry` creates a journal that is not
there and syncs the file, never the directory, so a power loss may take a journal
with all its synced lines until the file system has written its directory back
(`named`, `NameLost`). `lost` is the history of what had been reported by then. That
an fsync that succeeds makes all bytes before it permanent, those of an earlier
fsync that failed included, is assumed of the file system.

### AuthorityChain

The learners above the journal: the chained one (`signed_authority.go`) and the
bound ones (`device_bound.go`, `provider_bound.go`, which differ in what their
attestation says about the device or provider, and not here; what
`discovery_bound.go` adds to a result is left out). `Open` and `Rotate` verify a chain from the pinned root and the
journal it is opened on; `Choose`, `Attest`, `Check`, `Learn` and `LearnBound`
follow a measurement. A bound learner's Apply is two steps, `Check` and
`LearnBound`, because it compares the attestation with a journal head that it
reads under the journal's mutex, and takes the mutex again to append.

A signature is the key that made it, so `Offered` are rotations signed with
another key than the issuer's: `Open` may be given any chain made of these and of
what `Rotate` returned. A journal's hash head is the sequence of calls that its
lines are about. All grants name one authority id. One process has at most one
live learner per journal, and Apply is one step: what happens to it on disk is
`DurableJournal`. A learner that rotated stays usable, as in the code, and
`Rotate` may lead to any journal that belongs to the next grant: the comment at
`signed_authority.go:560` speaks of a fresh journal, but the code opens what is
there if every line of it is of that grant.

### DecisionPlane

The pure core that all gated actions share, as operators without state: packets,
routes, receipts and `Verify` (`internal/metro`); `NewRequest`, `NewDecision`,
`ValidateDecision`, `ApplyDecision`, the static and the remote provider
(`internal/decisionplane`). A hash is a record around the value that was hashed, so
equal hashes are equal values and nothing else is known of them; ids are
naturals with 0 for the empty string, since ties are broken by order;
probabilities are percentages.

### CodingWorkflow

`liminal_coding_start` and `liminal_coding_verify` of the Codex plugin server, with
each read of GitHub an action (`ReadIssue`, `ReadPull`, `ReadFiles`, `ReadChecks`) and
GitHub changing between them: pushes, rebases, drafts, edits of the issue, reruns.
`CodingStart` and `CodingVerify` go through admission (MaxConcurrent), any call may
meet its deadline (`Timeout`), and `RestartServer` brings up a server with another key.
`GetPullRequestFiles` names the pull request and not the head, so what comes back
is of the head at that moment. A client may hand in any contract it was given,
or an edited one (`Presented`). A path is the sequence of its parts and separators,
so that prefixes of names and of directories differ. `Verify` does not ask whether the
files are those of the head it read before, only whether there are as many, and
`FilesWithinScope` says what is left of them when a push comes in between. What a receipt does not say
(the head its files were read from, what was green) is kept beside it as history.

### PreviewAPI

`cmd/liminal-rail` and `internal/codexadapter`: slots, the registry of consumed ids,
execution, proofs and their verification. `Admit` to `Answer` follow one request;
a client may go away at any time and the process may be stopped (`serve` returns
when Shutdown begins, so handlers die where they are). `Tampered` is every
mixture of the parts of two proofs that clients have, hashed again or not.

### EvidenceStore

`internal/mirror` and `cmd/liminal-proof`: `BuildProofEnvelope`, promotion of a receipt
(`EvidenceFromVerifiedReceipt`), bundles, the gate (`GateCommits`), and the filesystem
store at the grain of its calls: `Stage` (stat, verify, or write and flush a
temporary file), `Rename`, `Check` (read back), `Resolve` (one object each). A digest
stands for the content it names, so the store is the condition of each
content's object: absent, whole, renamed without a flush, torn or changed.

A bundle does not bind everything in it: the packet's agent and its other targets
and the router of the route are covered by no receipt, envelope or policy hash,
so a manifest with another packet in that respect, rehashed, replays too.
`SameProof` names what is bound, and `OnlyEarnedProof` says no more than that.

### PolicyGate

Manifests, rotations and the verified resolver (`internal/policyauthority`), trust
policies (`internal/trustpolicy`) and the gates of `policy_authority_*.go` and
`trust_gate.go`. A process opens a chain against the accepted head, makes gates,
and is restarted with another chain while old gates are still used. The files
of the head are `PolicyHead`'s; here its acceptance is one step, after which the
process may have no resolver (an error or a kill after the rename). A head that
goes back after a power loss, which the second and third of the known
disagreements below allow, is not in this module.

`NoSilentWeakening` compares an effect with what every manifest of every accepted
chain asked, not only those of the gate's own chain: of two chains that part and
meet again, the one that a rotation weakened may be the other one. A weakening
counts as signed only by the issuer of the manifest it takes over from.

### MoltbookStation

`Execute` with its three outside calls (identity provider, authority gate, evidence
verifier) and `consume` between the second and the third; what a caller knows
after each call is its state. The gate answers from the decision plane, or with
the decision it gave last, for whichever packet. `VerifyResult` is applied to
every mixture of two results.

### RailLoop

The loop of the program: route, execute, receipt, observation, a Lifetra station's
decision, and the packet that an ALLOW carries. The station is
`PersistentProcess` (`Lock`, `Write`, `Scan`, `Deadline`, `Reap`, and Close in
`CallClose`, `LockClose`, `CloseWait`), or a process per request (`OneShot`). Its mutex
is held over several steps, so `mu` is a variable. The child is external: it
reads, says something about the oldest request, may say something about it again
(`noise`), prints a line that is too long, stops reading, hangs or dies.

* `validateBinding` (`process.go:78`) compares the ids of the receipt and nothing else. The
  child may therefore allow any action in `Offers` instead of the proposed one
  (docs/lifetra-bridge.md:60 speaks of "a proposed *new* action that can be emitted
  only if Lifetra returns `ALLOW`"), and a followed hop may be the answer to an
  earlier question about the same receipt, or to a question about another action
  with the same id. `Firsts` has clients that begin under one id. `HopsAreOwed` says
  what is left: that the question was the client's own holds where the id is
  used once (`Unshared`).
* What is assumed of the child is that the ids in its lines are those of a request
  it read. A child that invents ids could as well name the right ones.
* The write to the pipe happens with the mutex in hand and before the deadline starts.
  A request is taken by the pipe whole, or in part (`Long`): the rest waits for the
  child to read. So a child that stopped reading blocks its caller and all after it.
* A line longer than the scanner's buffer ends the scanner (`broken`): every later call
  fails, as in the code, until somebody closes the station.
* `MayAsk` only bounds the number of hops. A next action with the id of any earlier
  packet may be proposed and followed; the code refuses the immediate repetition
  alone (`ValidRequest`, `DecisionToPacket`).
* `Wait` also waits for a descendant that keeps the child's stderr open, and PID takes
  `mu` as well; both are left out, the first as part of a child that hangs.

### MC modules

Each module with state has an MC module, which gives its constants values and
nothing else.

## 3. Runs

| Run | Question | Bounds and why they are enough |
|---|---|---|
| `mux_faults` | Is anybody forgotten, answered twice or given another's answer, whatever the child does? Does the station implement RequestReply? | two callers that may choose one id, one closer, pipes of one line, every fault. Races are between two callers, the reader and Close. |
| `mux_live` | Does every Evaluate and Close return, and is a well-behaved child trusted? | the same with an honest child that may die, one caller with and one without a deadline; under fairness |
| `adaptive_pool` | Slots, counters, ids, cold samples, retries | three callers on two stations of one slot: the third is refused. The three `Picks` are all ways to share ids up to the names of callers. Two latencies make either station the better one. |
| `policy_head` | No rollback, no fork, no lock-out with one opener | chains of up to five manifests that part in the second generation, meet in the third, share their head in the fourth and part again in the fifth: longer, shorter, forked and merging chains; all faults |
| `journal` | Learned once, acknowledged survives, memory and file agree, crashes replay | three measurements, of which the third reuses the receipt of the first and the experience of the second, three lines, all faults |
| `authority` | Nothing outside a grant, one grant per journal, anchors, stale attestations | two grants of which one allows more, a self-signed rotation, chains of two rotations (there and back again), two journals of two lines, two measurements in two contexts: one line can come between another's attestation and its Apply |
| `coding` | What does a VERIFIED receipt vouch for when everything changes between the reads? | three heads (inside the paths, in a sibling directory whose name begins the same, over the page limit of one file) and pushes at any moment, two bases, two check runs (a success and its rerun), two keys, one contract at a time; one call at a time, since calls share nothing but the admission |
| `preview` | Is an id executed once, and does only a proof verify that Run makes? | three handlers on two slots and two ids of capacity: one is turned away, one finds its id taken, one finds the registry full |
| `evidence` | Does what was published replay, and nothing else? | two processes, two proofs that share artifacts, three wrong ones, a crash anywhere; one power loss or changed object (`MaxFaults`), which hits a shared object or one of a single bundle (`Fragile`) and takes at most one name |
| `gate` | Does an operation ever need less than an accepted manifest asked? Is a result of one policy? | chains of up to three manifests out of nine and two of four that part and meet again, of which one is weakened before they meet; five kinds of rotation (plain, with permission, forged, concealing, edited), two callers |
| `moltbook` | One verification per id; are mixtures of results refused? | two callers, three calls (two with one id, a third that may come after a restart), one restart, two agents, two confidences on the two sides of the threshold |
| `rail_loop` | Which question does a followed action answer? Does every call return? | two clients of two hops, with own ids or with one id, one closer, one offered action that nobody proposed (under the id of the first packet), one request that the pipe takes in part, a child that has one request in hand (`MaxAhead`), one line of noise, pipes of one line: the noise shifts one answer, which is where a wrong one would come from |

In `moltbook`
`ResultIsOneExecution` is evaluated when all callers are idle: results change only when
a call returns, and each such state is followed by one in which the rest has
returned too.

Deadlock is checked in policy_head, authority, coding, preview, evidence and gate. It
is off where the system may stop: all calls returned, the pool closed, the
journal refused, the bound on calls or hops reached.

### Known disagreements

Nine statements in the documentation are stronger than the code. Each is a
property next to those of the runs, with a configuration under which TLC
shows how it fails; they are run by hand and are not among the runs.

* `tlc -config pool_exposure.cfg MCAdaptivePool`, `QueueExposureBounded`: a
  deadline gives the slot back while the child still has the request, so the next
  one queues behind it (`adaptive.go:252`). TECHNICAL.md:226 says "Backpressure bounds
  internal queue exposure".
* `tlc -config policy_head_race.cfg MCPolicyHead`, `AcceptedHeadKept`: `acceptChainHead`
  reads, compares and renames without a lock, so the shorter chain of a slower
  process replaces the accepted longer one (`head.go:101`).
  docs/policy-authority-v1.1.md:7 says that an accepted head "must not silently roll
  back to an older still-valid chain".
* `tlc -config policy_head_reopen.cfg MCPolicyHead`, the same property: a head found
  in the file is accepted without an fsync (`head.go:125`); if it was renamed by a
  process that was killed before the directory fsync, a power loss brings the
  old head back.
* `tlc -config journal_retry.cfg MCDurableJournal`, `JournalReplays`: after a failed
  fsync the line stays in the file and memory does not know it (`durable.go:345`). The
  retry appends the same sequence number again, and every later open refuses the
  journal, while docs/hardware-adaptive-runtime-v0.3.md:34 says that on restart the
  policy is rebuilt by replaying it.
* `tlc -config journal_name.cfg MCDurableJournal`, `ReportedSurvives`: the directory of a
  new journal is never synced (`durable.go:337` creates the file, `:345` syncs only the
  file), so a power loss may take the journal with everything that was reported,
  and the next open starts with an empty policy. The same document says that the
  policy is rebuilt from the journal; its line 109 disclaims "crash consistency on
  every filesystem / storage controller / power-loss mode".
* `tlc -config journal_duplicate.cfg MCDurableJournal`, the same property, with the name
  safe: a kill before the fsync leaves a line that replay reads without an fsync.
  The same evidence is then reported as a duplicate, learned before
  (`durable.go:121`), and a power loss may still take the line. Line 34 has fsync "called
  before the in-memory policy is updated".
* `tlc -config coding_push.cfg MCCodingWorkflow`, `FilesOfHead`: Verify reads the pull
  request and its files by separate calls and never compares the head
  (`workflow.go:357`), so a push in between that changes as many files gives a receipt
  for one head over another head's files. `server.go:412` declares the evidence as
  "public GitHub issue/PR/files/check-runs on exact head SHA".
* `tlc -config rail_loop_hung.cfg MCRailLoop`, `TimeoutsReturn`: the request is written
  before the deadline starts (`persistent.go:108` and `:112`), under the mutex. With a child
  that hangs and a full pipe the call never returns, nor does any after it, without
  any Close. docs/persistent-station-v0.3.md:61 says "A request timeout is
  fail-closed", with the child killed.
* `tlc -config authority_race.cfg MCAuthorityChain`, `AttestedOnHead`: a bound learner
  compares the attestation's head, lets the journal's mutex go, and applies;
  another Apply may come between (`device_bound.go:124`).
  docs/hardware-adaptive-runtime-v0.6.md:94 says "A stale nonce or stale journal
  anchor fails closed before reward application".

What holds is stated next to each: `CallsAccountedFor` bounds the calls, not the
child's queue; `WrittenHeadsHold` speaks of chains accepted by writing them,
`CrashesReplay` of journals on which no append failed or tore, `AckedSurvives` of what was
reported as newly learned and did not go with the journal's name, `LearnedOnce` of
everything, `StaleOnlyElsewhere` of attestations that are stale only by lines of
another context, `FilesWithinScope` of one head's files, whichever it is, and `CallsReturn`
of calls for which no write or Close waits on a child that stopped.

### Fairness

`Multiplex`: a goroutine that can run does, one condition per caller, closer and
the reader; a deadline expires; a child that runs reads its input and answers
what it read, or is dead. Nothing is assumed of a faulty child: the liveness runs
use an honest one that may die. A caller without a deadline that the child never
answers is not promised an end, by the code either. `AdaptivePool`: a call is
fair, has a deadline (`ProcessConfig.Timeout`), and a refused caller comes
again, as the bench does within its retry window. `RailLoop`: goroutines that can
run do, a waiter gets the mutex in the end (`sync.Mutex` has a starvation mode, hence
SF) and a deadline passes (a positive Timeout). Of the child it assumes that unless it
hangs it says something about what it has read when there is room for the line,
then reads on, and ends with its input. A child that hangs reads nothing.
`CallsReturn` makes one exception, `Stuck`: neither the write nor Close has a deadline, and
both wait with the mutex in hand, for a child that hangs or has no room for a line. The other
modules assume none.

## 4. Proofs

The theorems hold for every value of the constants, from the named assumptions
of each module, which TLC evaluates in its runs.

* `MultiplexProofs`: types (`TypeCorrect`), `EveryWaiterIsOwed`,
  `AnswersNeverCollide`, `FatalStrandsNobody`, `HonestStationIsTrusted`, and that the
  station implements RequestReply (`ImplementsRequestReply`). None of these is
  inductive. The invariant `AnswerInv` says where the one answer a caller is owed can
  be: its entry is in the table, in the reader's hands, in the batch failFatal
  drains, or the answer is in the channel, and in exactly one of these places. For
  the refinement, a result that waits in a channel is already bound to its caller.
  For the honest station, `Accounted` follows every id on its way: it is in exactly one
  of the child's stdin, its hands and its stdout, it belongs to a call that was
  written, and while the reader reads it is pending or abandoned. So the reader
  never meets a line it does not know.
* `AdaptivePoolProofs`: types, `CallsAccountedFor`,
  `OneAdmissionPerId` and `ColdSampleFirst`. Counters are cardinalities of sets
  of calls, and each step moves at most one call into or out of a set;
  `OneMore` and `OneLess` do the counting. `CallsPlaced` (a running call has a
  station) is the strengthening. `ColdSampleFirst` needs the counters: finish
  keeps completed + in flight only because a slot is there to give back.
* `PolicyAuthorityProofs`, of the head: types and `LongestIsWelcome` for any number of
  openers; `WrittenHeadsHold`, and that each step only advances the heads
  (`HeadsOnlyAdvance`), for one opener (`OneOpener`), which policy_head_race.cfg shows to
  be necessary. The argument is one chain of descents: what the writer writes
  descends from what it read, the file from the disk, the disk from all that was
  written (`Ordered`). That descent is transitive, and orders heads by their
  generation, is proved from its definition and assumed of no constant.
  Of the gates: `NoSilentWeakening` and `ResultOfOnePolicy`, for any chains, keys,
  evidence and requests. Over one rotation a binding is kept by the next manifest or
  named in a signed weakening (`KeptOverRotation`); over a chain, the first manifest
  that fails to keep it gives the rotation (`KeptAlongChain`, by `LeastNumber`). The
  invariant `Agree` carries this from one accepted chain to the next, which has the
  last manifest of the one before at its place (`FollowerHas`), and two accepted chains
  of one generation have one head. A valid manifest has one binding for a contract
  (`OneBinding`), so what is kept is what the gate uses. The assumptions on the
  constants say that chains are sequences and generations numbers.
* `AuthorityChainProofs`: types, `GrantedByIssuers`, `OneGrantPerJournal`,
  `AnchorsAreHeads` and `StaleOnlyElsewhere`, for all grants and offered rotations.
  A line belongs to the current grant of the learner that wrote it, and every
  grant of a verified chain was handed over from the root (`ChainInside`: a first
  one that was not would have a rotation its issuer did not sign; `LeastNumber`
  gives the first). For stale attestations the strengthening keeps what the
  author saw: its statistics are those of the attested head (`SawBefore`), a
  head that was checked is still a prefix (`CheckedHead`), and if the counts agree
  now, no line in between rewards an allowed action in that context
  (`NoneBetween`), that is, none at all.
* `DurableJournalProofs`: types, `LearnedOnce`, `CrashesReplay`,
  `PolicyMatchesJournal` and `AckedSurvives`, for every fault in `Hazards`.
  `LearnedOnce` follows from `InOrder(Pending)`: the evidence in the policy, with the
  one append under way, could be learned in that order; Apply's checks extend
  it and replay's checks establish it anew. `CrashesReplay` and `PolicyMatchesJournal`
  follow from `Intact` (while no append has failed the file replays and is `Pending`,
  line by line). `AckedSurvives` needs no such condition: the line that fsync
  makes safe is the one being written (`WrittenIsLast`), so what was reported has a
  line before `synced` (`AckedIsSafe`), which no fault touches but the loss of the
  name, and a file that replays has no identity twice.
* `ReplayProofs`, of the preview API: `OneDispatch` and `ReservedAreUsed`, for any
  handlers, slots, capacity and actions. An id that a handler reserved is in the
  registry, is another handler's reservation never, and was not executed yet.
  `VerifiedIsReproducible`: what the checks of Verify compare pins every part of a proof
  object to the one that Run makes of its action, except the shares of the
  decision; what clients have was made by Run or mixed by them, and mixing is what
  the checks are for. Of the evidence store: `PublishedIsReplayable` (an
  object that a process has passed, whole or repaired, stays so unless a fault hits
  it, and a bundle is published when all are passed) and `OnlyEarnedProof`: what is
  at a digest is what was hashed, so a manifest that verifies decodes to materials
  whose seven checks hold, the envelope among them came from a job, and the
  checks tie everything the receipt covers to it.
* `WorkflowProofs`, of the Moltbook station: `OneVerification`, for any callers, requests,
  replies and restarts. What a call has in hand after each step is what the party
  it asked vouched for, ids that were looked up are consumed, and a permit of the
  decision plane's gate is an automatic route (`PermitsAreRoutes`).
  `ResultIsOneExecution`: a result that is taken as verified has all its parts from one
  lookup. Of the coding workflow: `ReceiptIsEarned`, `FilesWithinScope` and `GreenTogether`, for
  any calls, inputs, keys, files, remote answers and restarts. The invariant
  (`CodingInv`) says what a call holds between two reads (`HeldInv`), what a contract
  that was given out is (`GivenOut`), and of which contract a receipt is (`VouchedBy`); an
  edited contract is refused because its signature covers everything in it. That
  all runs of a check name are of one head at one moment needs the newest of them
  (`GreatestNumber`). Names of paths are assumed to be sequences of strings.
* `RailLoopProofs`: `HopsAreOwed`, for any clients, first packets, proposals and bounds and
  whichever action the child names. A hop that has a receipt does not change
  (`Settled`), and no packet does (`Steady`). The invariant keeps of every request in the
  pipes which client asked it about which hop (`Asked`), and of every line which
  request it is about (`Line`). A line that binds has the ids of the client's last
  receipt (`BoundLine`); its request is about a hop with that id, and where the id is
  used once, that is the same hop. Ids only come in (`SteadyIds`), so an id that is
  used once now always was. Nothing is assumed of ids.

Every invariant that a run checks is stated by a theorem, and so is the refinement
`KeepsPromise`. Only model-checked is what is temporal: `EvaluateReturns`,
`CloseReturns`, `RetriesEnd` and `CallsReturn`, since liveness under fairness and ENABLED are
out of the prover's reach. Induction over data cannot be used either, since the
library's induction theorems take operators as parameters; where a proof needs it
on numbers, it takes the first or the last number that fails, from the
well-founded order of intervals. No module here declares a RECURSIVE operator.

Proofs found errors in the models that the runs had not: descent from a head was
assumed to be the containment of heads, and that to be transitive (`PolicyHead`),
which chains that meet again refute; `NoSilentWeakening` asked the gate's chain to
contain every accepted manifest, which they refute too; the last of the checks of a
bundle held where no authority could be computed (`EvidenceStore`).

## 5. Not modelled, and the plan

Next, in this order:

1. proofs that components fit: that the acceptance step of `PolicyGate` is what
   `PolicyHead` does with one opener and no power loss, and that what `AdaptivePool`
   assumes of a station follows from `RequestReply`;
2. action properties of the other histories: journals only grow at their end,
   consumed ids and published manifests stay;
3. the round-robin `Pool` of `multiplex.go`, with failed starts that close what was
   started;
4. two learners on one journal path: single-writer use is all the code offers, and
   a composition would show what is lost without it;
5. the tools decide, verify and status of the plugin server, which keep no state.

Left out for good: cryptography and encodings, among them those of device
attestations; device probing and discovery; the UCB1 choice and the context keys of
the adaptive policy, which are real arithmetic and formatting; the wire
conversions of `internal/lifetrabridge` for learners and policies, which copy fields;
the in-memory store of `mirror/cas.go`, a map; HTTP and MCP transport; demos and
benches beyond the loops named above; schemas and CI.
