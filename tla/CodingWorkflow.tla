--------------------------- MODULE CodingWorkflow ---------------------------
(***************************************************************************)
(* The coding tools of the Codex plugin server (internal/codexplugin and   *)
(* internal/codingworkflow).  liminal_coding_start reads one GitHub issue, *)
(* asks the decision provider and signs a contract; liminal_coding_verify  *)
(* checks a pull request against a contract by three reads of GitHub and   *)
(* signs a receipt.  The reads are separate HTTP calls: the issue, the     *)
(* pull request and its checks change between them, other calls run beside *)
(* them, and the server may be restarted, with another signing key.        *)
(*                                                                         *)
(* A file name or a path prefix is a sequence of its parts.  A signature   *)
(* is the key that made it and the material it covers.                     *)
(***************************************************************************)
EXTENDS DecisionPlane

CONSTANTS
    Calls,          \* tool calls that may be in progress
    MaxConcurrent,  \* PublicHTTPConfig.MaxConcurrent
    Keys,           \* signing keys the server may be configured with
    StartInputs,    \* what clients ask contracts for
    Heads, Bases,   \* commits of the pull request and of its base branch
    Files,          \* Files[h]: the file names head h changes
    MaxFiles,       \* maxGitHubPRFiles, also the page size
    Texts,          \* contents of the issue
    MaxRuns,        \* bound: check runs that ever exist
    MaxContracts    \* bound: contracts given out

ASSUME CodingAssumption ==
    /\ MaxConcurrent \in Nat \ {0} /\ MaxFiles \in Nat \ {0} /\ MaxRuns \in Nat
    /\ \A h \in Heads : IsFiniteSet(Files[h]) /\ Files[h] \subseteq Seq(STRING)
    /\ \A i \in StartInputs : i.paths \subseteq Seq(STRING)

VARIABLES
    issue,      \* GitHub: is the issue open, and its text
    pull,       \* GitHub: the pull request
    runs,       \* GitHub: check runs, by id
    key,        \* the server's signer
    remote,     \* NewRuntime was given a RemoteEndpoint
    pc,         \* per call: where it is
    held,       \* per call: what it has read or made so far, a receipt at the end
    contracts   \* contracts the server gave out

github == <<issue, pull, runs>>
server == <<key, remote>>
codingVars == <<issue, pull, runs, key, remote, pc, held, contracts>>

ServerId == 1  \* the provider's id, and the request and action ids of a contract

----------------------------------------------------------------------------
\* GitHub.

ChecksOf(h) == {i \in DOMAIN runs : runs[i].head = h}

\* The names whose newest run on h has succeeded.
Green(h) ==
    {runs[i].name : i \in {i \in ChecksOf(h) : /\ runs[i].state = "success"
        /\ \A j \in ChecksOf(h) : runs[j].name = runs[i].name => j <= i}}

GitHub(p, rs, is) ==
    /\ pull' = p /\ runs' = rs /\ issue' = is
    /\ UNCHANGED <<server, pc, held, contracts>>

Push(h)    == pull.head # h /\ GitHub([pull EXCEPT !.head = h], runs, issue)
Rebase(b)  == pull.base # b /\ GitHub([pull EXCEPT !.base = b], runs, issue)
Toggle(s)  == pull.status # s /\ GitHub([pull EXCEPT !.status = s], runs, issue)
EditIssue(t, open) == issue # <<t, open>> /\ GitHub(pull, runs, <<t, open>>)

\* A required check is queued again, for a head that is or was the pull request's.
Queue(h, name) ==
    /\ Len(runs) < MaxRuns
    /\ GitHub(pull, Append(runs, [head |-> h, name |-> name, state |-> "queued"]), issue)

\* A run that failed decides what one that has not finished does.
Succeed(i) ==
    /\ runs[i].state = "queued"
    /\ GitHub(pull, [runs EXCEPT ![i] = [@ EXCEPT !.state = "success"]], issue)

----------------------------------------------------------------------------
\* Contracts.

\* normalizePaths; the model's sets are sorted and free of duplicates.
Canonical(paths) ==
    paths # {} /\ \A p \in paths : p # <<>> /\ p[1] # "/" /\ ~IsPrefix(<<"..", "/">>, p)

\* Mutant: the prefix need not end at a separator.
PathStartsWith(file, prefixes) == Canonical({file}) /\ \E p \in prefixes : IsPrefix(p, file)

PathAllowed(file, prefixes) ==
    /\ Canonical({file})
    /\ \E p \in prefixes : file = p \/ IsPrefix(p \o <<"/">>, file)

CodingPacket(input, snapshot) ==
    Packet(ServerId, "codex", "codex.github.coding-workflow",
           [snapshot |-> snapshot, base |-> input.base, paths |-> input.paths,
            checks |-> input.checks],
           {input.choices[i].target : i \in DOMAIN input.choices}, FALSE)

CodingRequest(input, snapshot) ==
    NewRequest(CodingPacket(input, snapshot), ServerId, [snapshot |-> snapshot], input.choices)

Sign(k, material) == [by |-> k, over |-> material]

\* signContract
Contract(input, snapshot, request, decision, gate) ==
    LET m == [base |-> input.base, paths |-> input.paths, checks |-> input.checks,
              snapshot |-> snapshot, packet |-> CodingPacket(input, snapshot),
              request |-> request, decision |-> decision, gate |-> gate]
    IN  [m |-> m, hash |-> HashJSON(m), sig |-> Sign(key, m)]

\* validateContractShape
WellShaped(m) ==
    /\ Canonical(m.paths) /\ m.checks # {} /\ ~m.packet.sideEffect
    /\ m.packet.inputs = [snapshot |-> m.snapshot, base |-> m.base, paths |-> m.paths,
                          checks |-> m.checks]
    /\ m.request.state = [snapshot |-> m.snapshot]
    /\ {m.request.choices[i].target : i \in DOMAIN m.request.choices} = m.packet.targets

\* Mutant: the hash is taken for a signature.
VerifyContractHash(c) ==
    /\ c.hash = HashJSON(c.m) /\ c.m.gate.disposition = "AUTO_ROUTE" /\ WellShaped(c.m)

VerifyContract(c) ==
    /\ c.hash = HashJSON(c.m) /\ c.sig = Sign(key, c.m)
    /\ ApplyDecision(c.m.packet, c.m.request, c.m.decision, DefaultGatePolicy) = c.m.gate
    /\ c.m.gate.disposition = "AUTO_ROUTE"
    /\ WellShaped(c.m)

\* A client's own version of contract c, consistent except for the signature.
Edited(c, i) ==
    LET r == CodingRequest(i, c.m.snapshot)
        d == NewDecision(r, c.m.decision.provider, c.m.decision.selected, c.m.decision.probs,
                         c.m.decision.confidence)
    IN  [Contract(i, c.m.snapshot, r, d, c.m.gate) EXCEPT !.sig = c.sig]

Presented == contracts \cup {Edited(c, i) : c \in contracts, i \in StartInputs}

----------------------------------------------------------------------------
\* Tool calls.  HardenMCPHandler admits MaxConcurrent and gives each a deadline.

NoCall == [idle |-> TRUE]

Admit(c, step, what) ==
    /\ pc[c] = "idle" /\ Cardinality({d \in Calls : pc[d] # "idle"}) < MaxConcurrent
    /\ pc' = [pc EXCEPT ![c] = step]
    /\ held' = [held EXCEPT ![c] = what]
    /\ UNCHANGED <<github, server, contracts>>

GoOn(c, step, what) ==
    /\ pc' = [pc EXCEPT ![c] = step]
    /\ held' = [held EXCEPT ![c] = what]
    /\ UNCHANGED <<github, server, contracts>>

\* An error, a HOLD, or the deadline: the call leaves nothing behind.
GiveUp(c) == GoOn(c, "idle", NoCall)

Timeout(c) == pc[c] # "idle" /\ GiveUp(c)

\* normalizeStartInput refuses what is not Canonical before anything is read.
CodingStart(c, input) ==
    /\ Cardinality(contracts) < MaxContracts
    /\ Canonical(input.paths) /\ input.checks # {}
    /\ Admit(c, "issue", [input |-> input])

ReadIssue(c) ==
    /\ pc[c] = "issue"
    /\ IF issue[2] THEN GoOn(c, "decide", [input |-> held[c].input, snapshot |-> HashJSON(issue)])
                   ELSE GiveUp(c)

\* The endpoint answers this request or another, as anybody, sure or not.
EndpointReplies ==
    UNION {{NewDecision(r, by, 1, <<[id |-> 1, p |-> p], [id |-> 2, p |-> 100 - p]>>, p) :
               by \in {ServerId, 2}, p \in {99, 50}} :
               r \in {CodingRequest(i, HashJSON(s)) : i \in StartInputs, s \in Texts \X {TRUE}}}

Decisions(request, input) ==
    IF remote THEN {RemoteDecide(request, ServerId, reply) : reply \in EndpointReplies}
              ELSE {StaticDecide(request, ServerId, input.scores)}

\* The rest of Start, once the provider answers.
Decide(c) ==
    /\ pc[c] = "decide"
    /\ LET input == held[c].input
           request == CodingRequest(input, held[c].snapshot) IN
       \E d \in Decisions(request, input) :
           LET gate == IF d = None \/ request = None THEN None
                       ELSE ApplyDecision(CodingPacket(input, held[c].snapshot), request, d,
                                          DefaultGatePolicy) IN
           /\ contracts' = IF gate # None /\ gate.disposition = "AUTO_ROUTE"
                           THEN contracts \cup
                                {Contract(input, held[c].snapshot, request, d, gate)}
                           ELSE contracts
           /\ pc' = [pc EXCEPT ![c] = "idle"]
           /\ held' = [held EXCEPT ![c] = NoCall]
           /\ UNCHANGED <<github, server>>

CodingVerify(c) ==
    \E x \in Presented : VerifyContract(x) /\ Admit(c, "pull", [contract |-> x])

ReadPull(c) ==
    /\ pc[c] = "pull"
    /\ IF /\ pull.status = "open" /\ pull.base = held[c].contract.m.base
          /\ Cardinality(Files[pull.head]) \in 1..MaxFiles
       THEN GoOn(c, "files", [contract |-> held[c].contract, seen |-> pull,
                              count |-> Cardinality(Files[pull.head])])
       ELSE GiveUp(c)

\* GetPullRequestFiles names the pull request, not the head, and gets one page.
Pages(h) == {s \in SUBSET Files[h] : s = Files[h] \/ Cardinality(s) = MaxFiles}

InScope(files, contract) == \A f \in files : PathAllowed(f, contract.m.paths)

ReadFiles(c) ==
    /\ pc[c] = "files"
    /\ \E page \in Pages(pull.head) :
           IF Cardinality(page) = held[c].count /\ InScope(page, held[c].contract)
           THEN GoOn(c, "checks", [contract |-> held[c].contract, seen |-> held[c].seen,
                                   files |-> page, filesOf |-> pull.head])
           ELSE GiveUp(c)

\* Mutant: any run that succeeded will do.
SucceededOnce(head, checks) ==
    \A name \in checks : \E i \in ChecksOf(head) :
        runs[i].name = name /\ runs[i].state = "success"

\* Per required check the run with the highest id decides.
Succeeded(head, checks) ==
    \A name \in checks :
        LET own == {i \in ChecksOf(head) : runs[i].name = name} IN
        own # {} /\ runs[CHOOSE i \in own : \A j \in own : j <= i].state = "success"

\* history: the pull request and the head of the files as they were read, and
\* what was green when the checks were, are not in the code's receipt.
Receipt(h) ==
    [contract |-> h.contract.hash, base |-> h.contract.m.base, head |-> h.seen.head,
     files |-> HashJSON(h.files), checks |-> h.contract.m.checks,
     sig |-> Sign(key, h.contract.hash),
     seen |-> h.seen, filesOf |-> h.filesOf, green |-> Green(h.seen.head)]

ReadChecks(c) ==
    /\ pc[c] = "checks"
    /\ IF Succeeded(held[c].seen.head, held[c].contract.m.checks)
       THEN GoOn(c, "verified", Receipt(held[c]))
       ELSE GiveUp(c)

\* The process is replaced: its calls are gone and its environment may name another key.
RestartServer(k) ==
    /\ key' = k
    /\ pc' = [c \in Calls |-> "idle"]
    /\ held' = [c \in Calls |-> NoCall]
    /\ UNCHANGED <<github, remote, contracts>>

CodingInit ==
    /\ issue \in Texts \X {TRUE}
    /\ pull \in [head : Heads, base : Bases, status : {"draft"}]
    /\ runs = <<>>
    /\ key \in Keys
    /\ pc = [c \in Calls |-> "idle"]
    /\ held = [c \in Calls |-> NoCall]
    /\ remote \in BOOLEAN
    /\ contracts = {}

CodingNext ==
    \/ \E h \in Heads : Push(h)
    \/ \E b \in Bases : Rebase(b)
    \/ \E s \in {"open", "draft", "closed"} : Toggle(s)
    \/ \E t \in Texts, open \in BOOLEAN : EditIssue(t, open)
    \/ \E h \in Heads, n \in UNION {i.checks : i \in StartInputs} : Queue(h, n)
    \/ \E i \in DOMAIN runs : Succeed(i)
    \/ \E k \in Keys : RestartServer(k)
    \/ \E c \in Calls, i \in StartInputs : CodingStart(c, i)
    \/ \E c \in Calls : \/ ReadIssue(c) \/ Decide(c) \/ CodingVerify(c) \/ ReadPull(c)
                        \/ ReadFiles(c) \/ ReadChecks(c) \/ Timeout(c)

CodingSpec == CodingInit /\ [][CodingNext]_codingVars

----------------------------------------------------------------------------
\* Properties.

Receipts == {held[c] : c \in {d \in Calls : pc[d] = "verified"}}

\* A VERIFIED receipt goes back to a contract that this server gave out, unedited
\* and under one of its keys, for an issue it had read open and a decision the gate
\* let through; and the pull request was open, on the contracted base and with
\* this head, when it was read (VerifyContract and the guards of Verify).
ReceiptIsEarned ==
    \A r \in Receipts :
        /\ \E c \in contracts :
               /\ r.contract = HashJSON(c.m) /\ r.sig.by = c.sig.by
               /\ c.m.snapshot.sha256[2] /\ c.m.gate.disposition = "AUTO_ROUTE"
               /\ ProbabilityOf(c.m.decision, c.m.decision.selected) >= 98
               /\ r.base = c.m.base /\ r.checks = c.m.checks
        /\ r.seen.status = "open" /\ r.seen.base = r.base /\ r.seen.head = r.head

\* Whatever is pushed between the reads of the pull request and of its files: the
\* files a receipt covers are all inside the contract's paths - a sibling directory
\* whose name begins the same is outside - and they are files of one head, in the
\* number the receipt's head changes (pathAllowed, and the length check of Verify).
FilesWithinScope ==
    \A r \in Receipts : \E c \in contracts :
        /\ r.contract = c.hash
        /\ \A f \in r.files.sha256 : \E p \in c.m.paths :
               /\ SubSeq(f, 1, Len(p)) = p
               /\ f = p \/ f[Len(p) + 1] = "/"
        /\ r.files.sha256 \subseteq Files[r.filesOf]
        /\ Cardinality(r.files.sha256) = Cardinality(Files[r.head])

\* "public GitHub issue/PR/files/check-runs on exact head SHA" (server.go's tool
\* catalog): the files of a receipt are the files of its head.  The code does not
\* keep this: Verify never compares the head of the files with the one it read.
FilesOfHead == \A r \in Receipts : r.files = HashJSON(Files[r.head])

\* All required checks of a receipt were green on its head at one moment, each by
\* its newest run: a rerun that has not finished takes an earlier success back.
GreenTogether == \A r \in Receipts : r.checks \subseteq r.green
=============================================================================
