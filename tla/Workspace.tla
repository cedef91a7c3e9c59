----------------------------- MODULE Workspace -----------------------------
(***************************************************************************)
(* The receipts directory of a project (cli/workspace.ts) and the commands *)
(* that write to it: cool seal (cli/commands.ts), cool witness             *)
(* (cli/evidence.ts), cool anchor submit and upgrade (cli/anchor.ts), each *)
(* a process of its own.  A file is rewritten in place, in two steps, and  *)
(* a command works on what it loaded: nothing locks the directory.  The    *)
(* log is loaded when a process opens the workspace and kept in its        *)
(* memory: a process that seals after another one has sealed forks it.     *)
(* Record ids are ULIDs made as the line is appended, so file order is the *)
(* order of the lines.                                                     *)
(***************************************************************************)
EXTENDS Plane

CONSTANTS
    Procs,        \* the processes that run commands
    Names,        \* of witnesses, as given to --key
    Calendars,    \* the calendars of anchor.ts, as numbers
    Events,       \* the changes that cool seal is asked to record
    MaxRecords, MaxBlocks   \* bounds

ASSUME WorkspaceAssumption == {MaxRecords, MaxBlocks} \subseteq Nat

(* The names that witnessId() is given below.                              *)
ASSUME NamesAssumption == Names \subseteq {"auditor", "record"}

(* A change has at most one previous content.                              *)
ASSUME EventsAssumption == \A e \in Events : \A v, w \in e.before : v = w

VARIABLES
    lines,      \* leaves.log: the records in the order they were appended
    log,        \* process -> the leaves in the memory of its FileLog
    checkpoint, \* sth.json: {} (none, or cut short) or {the last head written}
    files,      \* the names in the receipts directory
    disk,       \* record -> {} (no file, or one that cannot be parsed) or {receipt}
    proc,       \* process -> its command
    asked,      \* calendar -> the commitments it has promised to aggregate
    chain,      \* the blocks: what each merkle root commits to
    commands,   \* commands that may still be started
    crashes,    \* crashes that may still happen
    earned,     \* history: the co-signatures and heights once saved
    alone,      \* history: has every command run undisturbed so far?
    forked      \* history: was a record appended to a log that is not the file?

logVars == <<lines, log, checkpoint, forked>>
wvars == <<logVars, files, disk, proc, asked, chain, commands, crashes, earned, alone>>

(* A command: its next step, the receipts to write, the anchors to ask     *)
(* about and the one to attach.                                            *)
Job(cmd, todo, queue, anchor) == [cmd |-> cmd, todo |-> todo, queue |-> queue, anchor |-> anchor]
Idle == Job("idle", <<>>, <<>>, {})

(* The simulated enclave every process of this machine opens (see Hardware *)
(* for how it is opened).                                                  *)
plane ==
    LET info  == [vendor |-> "intel-tdx", mode |-> "simulated", measurement |-> "m"]
        keys  == [record |-> [id |-> "record", entry |-> "K-record"],
                  log |-> [id |-> "log", entry |-> "K-log"]]
        body  == [measurement |-> "m", report_data |-> reportData(keys)]
        quote == [root |-> "cool-sim-root", raw |-> {}, body |-> body,
                  signature |-> {signed("simroot", "sim-root", body)}]
    IN  start(info, keys, quote, {"m"}, [id \in {"sim-root"} |-> "simroot"])

WInit ==
    /\ lines = <<>> /\ log = [p \in Procs |-> <<>>] /\ checkpoint = {} /\ forked = FALSE
    /\ files = {} /\ disk = [i \in 1..MaxRecords |-> {}]
    /\ proc = [p \in Procs |-> Idle]
    /\ asked = [c \in Calendars |-> {}] /\ chain = <<>>
    /\ earned = {} /\ alone = TRUE

(* What there is for each record, in file order. *)
inOrder(found) == FlattenSeq([i \in 1..MaxRecords |-> SetToSeq(found[i])])

(* loadReceipts(): a file that cannot be parsed is passed over.  A command *)
(* may go on with some of what it loads.                                   *)
loadSome(wanted(_)) == inOrder([i \in 1..MaxRecords |-> {r \in disk[i] : wanted(r)}])
loadReceipts == inOrder(disk)

(* verifyCommand() of cli/commands.ts for "all": its exit code.  verify()  *)
(* pins the measurement of this machine.                                   *)
pinned(options) == [options EXCEPT !.expectedMeasurement = {plane.info.measurement}]
verifyAll(options) ==
    IF \A i \in 1..MaxRecords : \A r \in disk[i] : verifyReceiptV2(r, pinned(options)).ok
    THEN 0 ELSE 1

(* What verifies when nothing is asked for. *)
Options0 == [quoteVerifier |-> {}, expectedMeasurement |-> {}, blockHeaders |-> {},
             requireHardware |-> FALSE, witnessThreshold |-> 0]

(* packCommand(): build, and the exit code of verify. *)
packBuild == buildAuditPack(ToSet(loadReceipts))
packVerify(verdict) == IF verdict.ok THEN 0 ELSE 1

(* discloseCommand(): of the record with this id, or of the last one. *)
LAST == 0
discloseCommand(target, field, value) ==
    LET entry(stored) ==
            {stored[i] : i \in {i \in 1..Len(stored) :
                IF target = LAST THEN i = Len(stored) ELSE stored[i].core.record_id = target}}
    IN  UNION {disclose(r, field, value) : r \in entry(loadReceipts)}

(* Its --check: the receipt is found by the id in the disclosure. *)
discloseCheck(d) ==
    LET match == {r \in ToSet(loadReceipts) : r.core.record_id = d.record_id}
    IN  IF \E r \in match : verifyDisclosure(r, d) THEN 0 ELSE 1

(* What a command does once the file in hand is written. *)
Continue(todo, queue) ==
    CASE todo # <<>> -> Job("save", todo, queue, {})
      [] todo = <<>> /\ queue # <<>> -> Job("ask", <<>>, queue, {})
      [] todo = <<>> /\ queue = <<>> -> Idle

(* A command begins; alone records whether it is the only one. *)
Begin(p, todo, queue) ==
    /\ proc[p] = Idle /\ commands > 0
    /\ commands' = commands - 1
    /\ proc' = [proc EXCEPT ![p] = Continue(todo, queue)]
    /\ alone' = (alone /\ \A q \in Procs \ {p} : proc[q] = Idle)

-----------------------------------------------------------------------------
(* openWorkspace() replays the log, then seal() of cli/commands.ts.        *)
SealCommand(p) ==
    /\ proc[p] = Idle /\ commands > 0
    /\ commands' = commands - 1
    /\ proc' = [proc EXCEPT ![p] = Job("seal", <<>>, <<>>, {})]
    /\ log' = [log EXCEPT ![p] = lines]
    /\ alone' = (alone /\ \A q \in Procs \ {p} : proc[q] = Idle)
    /\ UNCHANGED <<lines, checkpoint, files, disk, asked, chain, crashes, earned, forked>>

(* change() of the client up to append(): a line is written and the leaf   *)
(* pushed.  The head is of the log that p remembers; the process may go on *)
(* sealing.                                                                *)
Record(p, event, goesOn) ==
    LET core  == changeCore(plane, Len(lines) + 1, event, {DEFAULT_POLICY})
        fresh == seal(plane, plane.keys.log, log[p], core)
    IN  /\ Len(lines) < MaxRecords
        /\ lines' = Append(lines, core)
        /\ log' = [log EXCEPT ![p] = IF goesOn THEN Append(@, core) ELSE <<>>]
        /\ forked' = (forked \/ log[p] # lines)
        /\ proc' = [proc EXCEPT ![p] = Job("head", <<fresh>>, <<>>, {})]
        /\ UNCHANGED <<checkpoint, files, disk, asked, chain, crashes, earned>>

RecordCommand(p) ==
    /\ proc[p].cmd = "seal"
    /\ \E event \in Events : Record(p, event, FALSE)
    /\ UNCHANGED <<commands, alone>>

(* buildSTH() keeps the head it has signed, and saveReceipt() is next. *)
Checkpoint(p) ==
    /\ proc[p].cmd = "head"
    /\ checkpoint' = Head(proc[p].todo).sth
    /\ proc' = [proc EXCEPT ![p] = Job("save", @.todo, @.queue, {})]
    /\ UNCHANGED <<lines, log, files, disk, asked, chain, commands, crashes, earned, alone, forked>>

(* Mutant: the witness' key is filed under its bare name. *)
witnessIdBare(name) == name

witnessId(name) == CASE name = "auditor" -> "witness-auditor"
                     [] name = "record" -> "witness-record"

(* witnessCommand(), cosign: every receipt loaded gets the co-signature of *)
(* its own head.                                                           *)
WitnessCommand(p) ==
    \E name \in Names :
        LET cosigned(r) == attachWitness(r, cosign(Some(r.sth), witnessId(name), name))
            stored == loadSome(LAMBDA r : r.sth # {})
        IN  /\ stored # <<>>
            /\ Begin(p, [i \in 1..Len(stored) |-> cosigned(stored[i])], <<>>)
            /\ UNCHANGED <<logVars, files, disk, asked, chain, crashes, earned>>

-----------------------------------------------------------------------------
(* External: what a calendar answers to a digest, and once it has a block. *)
(* The second calendar adds an attestation of a kind nobody knows.         *)
Promise(c) == IF c = 2 THEN <<Op(240, c), Op(8, 0), Fork, Att(TAG.pending, c), Att(99, 7)>>
              ELSE <<Op(240, c), Op(8, 0), Att(TAG.pending, c)>>
Promised(c, digest) == <<digest, <<240, c>>, <<8, 0>>>>
Root(m, h) == m \o <<<<241, h>>, <<8, 0>>>>
Confirmation(h) == <<Op(241, h), Op(8, 0), Att(TAG.bitcoin, h)>>

(* External: a calendar's commitments go into the next block. *)
Mine(c) ==
    LET h == Len(chain) + 1
        waiting == {m \in asked[c] : \A i \in 1..Len(chain) : Root(m, i) \notin chain[i]}
    IN  /\ h <= MaxBlocks /\ waiting # {}
        /\ chain' = Append(chain, {Root(m, h) : m \in waiting})
        /\ UNCHANGED <<logVars, files, disk, proc, asked, commands, crashes, earned, alone>>

(* anchorHead(): the merged answers, in the order they arrive. *)
anchorHead(head, order) ==
    [target |-> head.root_hash, tree_size |-> head.tree_size, heights |-> {},
     proof |-> serialiseProof(head.root_hash,
                 submit(head.root_hash, [i \in 1..Len(order) |-> Promise(order[i])]))]

(* Mutant: the proof is written before the calendars have answered.        *)
upgradeProofEarly(anchor, uris) ==
    LET heights(e) == {h \in 1..Len(chain) :
                          e.attestation.value \in uris /\ Root(e.commitment, h) \in chain[h]}
        answers(pending) == [e \in ToSet(pending) |-> {Confirmation(h) : h \in heights(e)}]
        upgraded(timestamp) == upgrade(timestamp, answers(Reached(timestamp, TAG.pending)))
    IN  [anchor EXCEPT !.heights = heightsOf(upgraded(parseProof(anchor.proof).timestamp))]

(* upgradeProof(): uris are the calendars that can be reached. *)
upgradeProof(anchor, uris) ==
    LET heights(e) == {h \in 1..Len(chain) :
                          e.attestation.value \in uris /\ Root(e.commitment, h) \in chain[h]}
        answers(pending) == [e \in ToSet(pending) |-> {Confirmation(h) : h \in heights(e)}]
        upgraded(timestamp) == upgrade(timestamp, answers(Reached(timestamp, TAG.pending)))
        rewritten(fresh) == [anchor EXCEPT !.proof = serialiseProof(anchor.proof.digest, fresh),
                                           !.heights = heightsOf(fresh)]
    IN  rewritten(upgraded(parseProof(anchor.proof).timestamp))

Orders == {s \in UNION {[1..n -> Calendars] : n \in 1..Cardinality(Calendars)} : IsInjective(s)}

(* The record whose sealing made a log what it is. *)
newestOf(leaves) == leaves[Len(leaves)].record_id

(* submitCommand(): lastCheckpoint() goes to the calendars, the last head  *)
(* that any process wrote.  Submitting a head again starts its proof anew  *)
(* (the old one is replaced).                                              *)
SubmitCommand(p) ==
    \E order \in Orders, head \in checkpoint :
        LET anchor == anchorHead(head, order)
            again  == \E e \in earned : e.kind = "height" /\ e.record = newestOf(head.root_hash)
        IN  /\ proc[p] = Idle /\ commands > 0
            /\ commands' = commands - 1
            /\ asked' = [c \in Calendars |-> asked[c] \cup
                           (IF c \in ToSet(order) THEN {Promised(c, head.root_hash)} ELSE {})]
            /\ proc' = [proc EXCEPT ![p] = Job("attach", <<>>, <<>>, {anchor})]
            /\ alone' = (alone /\ ~again /\ \A q \in Procs \ {p} : proc[q] = Idle)
            /\ UNCHANGED <<logVars, files, disk, chain, crashes, earned>>

(* storedAnchors(): one per tree size, the last one read, whatever its     *)
(* root: of two branches of a forked log one is left out.                  *)
storedAnchors ==
    LET with == loadSome(LAMBDA r : r.anchor # {})
        found(n) == {i \in 1..Len(with) : Some(with[i].anchor).tree_size = n}
    IN  FlattenSeq([n \in 1..MaxRecords |->
            IF found(n) = {} THEN <<>>
            ELSE <<Some(with[CHOOSE i \in found(n) : \A j \in found(n) : j <= i].anchor)>>])

(* verifyCommand() of cli/anchor.ts: its exit code, with headers the chain *)
(* of blocks.                                                              *)
anchorVerify(anchors, headers) ==
    LET check(parsed) == verifyAnchor(parsed.digest, parsed.timestamp, {headers})
        failures == {a \in ToSet(anchors) : check(parseProof(a.proof)) = "fail"}
    IN  IF anchors = <<>> \/ failures # {} THEN 1 ELSE 0

(* exportCommand(): the proof of the newest head that has one. *)
exportCommand(anchors) == {anchors[i].proof : i \in {Len(anchors)} \ {0}}

(* upgradeCommand() loads the anchors ... *)
UpgradeCommand(p) ==
    /\ storedAnchors # <<>>
    /\ Begin(p, <<>>, storedAnchors)
    /\ UNCHANGED <<logVars, files, disk, asked, chain, crashes, earned>>

(* ... and asks about one after the other; one that has a height is done. *)
UpgradeNext(p) ==
    LET stale == Head(proc[p].queue)
        rest  == Tail(proc[p].queue)
        attached(fresh) == IF fresh.heights = {} THEN Continue(<<>>, rest)
                           ELSE Job("attach", <<>>, rest, {fresh})
    IN  /\ proc[p].cmd = "ask"
        /\ \/ /\ stale.heights # {}
              /\ proc' = [proc EXCEPT ![p] = Continue(<<>>, rest)]
           \/ /\ stale.heights = {}
              /\ \E uris \in SUBSET Calendars :
                    proc' = [proc EXCEPT ![p] = attached(upgradeProof(stale, uris))]
        /\ UNCHANGED <<logVars, files, disk, asked, chain, commands, crashes, earned, alone>>

covered(r, anchor) == \E sth \in r.sth : sth.root_hash = anchor.target

(* reattach(): the receipts are loaded again and those of this head get    *)
(* the proof.  attachAnchor() throws for one at another size: the command  *)
(* ends there.                                                             *)
Reattach(p) ==
    LET anchor  == Some(proc[p].anchor)
        touched == loadSome(LAMBDA r : covered(r, anchor))
        refused == {i \in 1..Len(touched) : ~Attachable(touched[i], anchor)}
        written == {k \in 0..Len(touched) : \A i \in refused : k < i}
        last    == CHOOSE k \in written : \A j \in written : j <= k
        queue   == IF refused = {} THEN proc[p].queue ELSE <<>>
    IN  /\ proc[p].cmd = "attach"
        /\ proc' = [proc EXCEPT ![p] =
                      Continue([i \in 1..last |-> attachAnchor(touched[i], anchor)], queue)]
        /\ UNCHANGED <<logVars, files, disk, asked, chain, commands, crashes, earned, alone>>

-----------------------------------------------------------------------------
Facts(r) ==
    (UNION {{[record |-> r.core.record_id, kind |-> "witness", of |-> sth.witnesses[i].id] :
               i \in 1..Len(sth.witnesses)} : sth \in r.sth})
    \cup {[record |-> r.core.record_id, kind |-> "height", of |-> "block"] :
            a \in {a \in r.anchor : a.heights # {}}}

(* saveReceipt(): writeFileSync() truncates the file ... *)
Truncate(p) ==
    LET id == Head(proc[p].todo).core.record_id
    IN  /\ proc[p].cmd = "save"
        /\ proc' = [proc EXCEPT ![p] = Job("write", @.todo, @.queue, {})]
        /\ files' = files \cup {id} /\ disk' = [disk EXCEPT ![id] = {}]
        /\ UNCHANGED <<logVars, asked, chain, commands, crashes, earned, alone>>

(* ... and fills it. *)
Fill(p) ==
    LET r == Head(proc[p].todo)
    IN  /\ proc[p].cmd = "write"
        /\ proc' = [proc EXCEPT ![p] = Continue(Tail(@.todo), @.queue)]
        /\ disk' = [disk EXCEPT ![r.core.record_id] = {r}]
        /\ earned' = earned \cup Facts(r)
        /\ UNCHANGED <<logVars, files, asked, chain, commands, crashes, alone>>

(* A process is gone; a file it has truncated stays empty, the checkpoint  *)
(* too if it was being written.                                            *)
Killed(p) ==
    /\ crashes > 0 /\ crashes' = crashes - 1
    /\ proc' = [proc EXCEPT ![p] = Idle] /\ log' = [log EXCEPT ![p] = <<>>]
    /\ \/ UNCHANGED checkpoint
       \/ proc[p].cmd = "head" /\ checkpoint' = {}
    /\ UNCHANGED <<lines, files, disk, asked, chain, commands, earned, forked>>

Crash(p) ==
    /\ proc[p] # Idle
    /\ Killed(p) /\ alone' = FALSE

Command(p) ==
    \/ SealCommand(p) \/ WitnessCommand(p) \/ SubmitCommand(p) \/ UpgradeCommand(p)
Step(p) ==
    \/ RecordCommand(p) \/ Checkpoint(p) \/ UpgradeNext(p) \/ Reattach(p)
    \/ Truncate(p) \/ Fill(p) \/ Crash(p)

-----------------------------------------------------------------------------
WithChain == [Options0 EXCEPT !.blockHeaders = {chain}]

(* Whatever commands have rewritten a receipt, at once or one after the    *)
(* other, on one log or on the branches of a forked one, and with crashes  *)
(* between, a file that can be read is the record that was sealed and      *)
(* verifies with every witness it lists, under the measurement of this     *)
(* machine; and what it committed to can be disclosed and checked, no      *)
(* other value can.  So cool verify counts no failure among the receipts   *)
(* it can read (it passes over the others, see CorruptFilesReported), and  *)
(* a pack of them is complete: each record in it still has its quote, its  *)
(* place in the log, its decision and its witnesses.                       *)
ReceiptsStayValid ==
    /\ verifyAll(Options0) = 0
    /\ \A pack \in {packBuild} : \A verdict \in {verifyAuditPack(pack, Options0)} :
           /\ packVerify(verdict) = (IF pack.records = {} THEN 1 ELSE 0)
           /\ \A o \in {"dpdp-8", "iso-42001-9", "soc2-cc7"} :
                 verdict.obligations[o] = Cardinality(pack.records)
           /\ verdict.witnesses = MapThenSumSet(LAMBDA r : Len(Some(r.sth).witnesses), pack.records)
    /\ \A i \in 1..MaxRecords : \A r \in disk[i] :
        /\ r.core = lines[i]
        /\ \A sth \in r.sth :
              verifyReceiptV2(r, [pinned(Options0) EXCEPT !.witnessThreshold = Len(sth.witnesses)]).ok
        /\ \A f \in DOMAIN r.core.commitments, e \in Events :
              (\E d \in discloseCommand(i, f, e.after) : discloseCheck(d) = 0)
                  <=> saltedCommit(<<i, f>>, e.after) \in r.core.commitments[f].hash
    /\ \A e \in Events : \A d \in discloseCommand(LAST, "change.after", e.after) :
          discloseCheck(d) = 0 /\ \A i \in (d.record_id + 1)..MaxRecords : disk[i] = {}

(* "A corrupt file is a finding, not a crash - cool verify will say so"    *)
(* (cli/workspace.ts, loadReceipts()): a receipt file that cannot be read, *)
(* and that no command is writing just now, makes cool verify all fail.    *)
CorruptFilesReported ==
    (\E i \in files : disk[i] = {}) /\ (\A p \in Procs : proc[p].cmd # "write")
        => verifyAll(Options0) = 1

(* No anchor ever fails against the chain, neither the ones that cool      *)
(* anchor verify judges nor one in a receipt, whatever branch it is about; *)
(* and a receipt never says a height at which its own head, the one that   *)
(* the log key signed when it was sealed, is not committed.                *)
AnchorsTruthful ==
    /\ \A anchors \in {storedAnchors} :
          anchorVerify(anchors, chain) = (IF anchors = <<>> THEN 1 ELSE 0)
    /\ \A i \in 1..MaxRecords : \A r \in disk[i] : \A a \in r.anchor :
        /\ verifyAnchorDomain(r, WithChain).status
             = (IF a.heights # {} THEN "pass" ELSE "pending")
        /\ \A sth \in r.sth : newestOf(sth.root_hash) = i
        /\ \A h \in a.heights, sth \in r.sth :
              \E c \in Calendars : Root(Promised(c, sth.root_hash), h) \in chain[h]

(* A stored proof can be read back, and writing what was read gives the    *)
(* same file: nothing is lost by an upgrade but what a reader cannot know. *)
(* While the log has not forked, no proof is out of sight of cool anchor:  *)
(* each anchored head is one of those it upgrades and verifies, and the    *)
(* file that cool anchor export writes is about a head of the log, the     *)
(* newest that a receipt has an anchor for.                                *)
ProofsStable ==
    /\ \A i \in 1..MaxRecords : \A r \in disk[i] : \A a \in r.anchor :
        LET parsed == parseProof(a.proof)
        IN  parsed.ok /\ serialiseProof(parsed.digest, parsed.timestamp) = a.proof
    /\ ~forked => \A anchors \in {storedAnchors} :
        /\ \A i \in 1..MaxRecords : \A r \in disk[i] : \A a \in r.anchor :
              \E k \in 1..Len(anchors) : anchors[k].target = a.target
        /\ \A digest \in {parseProof(proof).digest : proof \in exportCommand(anchors)} :
              LET size == Len(digest)
              IN  /\ digest = SubSeq(lines, 1, size)
                  /\ \A i \in (size + 1)..MaxRecords : \A r \in disk[i] : r.anchor = {}

(* As long as commands run one at a time, none is killed and no confirmed  *)
(* head is submitted again, no co-signature and no block height that was   *)
(* once saved is lost from the files, even where a console that has been   *)
(* open all along forks the log.                                           *)
KeptUntilDisturbed ==
    alone => \A e \in earned : \A r \in disk[e.record] : e \in Facts(r)
=============================================================================
