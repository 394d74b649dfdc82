------------------------------ MODULE Publication ------------------------------
(***************************************************************************)
(* Managed publication of one HTML project document: ProjectFiles and      *)
(* Publisher (document_store.py) over the scratch file, leases and         *)
(* response transport of scratch.py.                                       *)
(*                                                                         *)
(* Several processes work on one document.  Two files are shared: the      *)
(* document, and the hidden sibling (the scratch file) that carries live   *)
(* responses, the recovery record of a reviewed snapshot and the staged    *)
(* HTML candidate, in that order.  Two leases exclude writers; the         *)
(* operating system frees them when their holder dies.  Every step between *)
(* two file operations is an action of its own, so another process, an     *)
(* editor, an I/O error or a crash can come in between.                    *)
(*                                                                         *)
(* A content is a number: 0 is the original document, every reviewed       *)
(* snapshot, export and outside edit takes the next one.                   *)
(***************************************************************************)
EXTENDS Naturals

CONSTANTS
    Proc,                \* processes using the tool on this document
    Host,                \* those that run the NDJSON host behind a response transport
    None,                \* nobody (a free lease)
    MaxVersion,          \* bound on contents ever created
    MaxFaults,           \* bound on I/O errors and crashes
    IOFaults,            \* what a failing append leaves: "refused" nothing, "torn" a
                         \* partial record, "unsynced" the whole record (fsync failed)
    ReuseUnpublished,    \* a host may begin or export while it keeps an unpublished snapshot
    RetryRaces,          \* other processes may act between the two reads of a retry
    EditRaces            \* an editor may save inside a publication's last window

ASSUME ProcAssumption  == None \notin Proc /\ Host \subseteq Proc
ASSUME BoundAssumption == MaxVersion \in Nat /\ MaxFaults \in Nat
ASSUME FaultAssumption == IOFaults \subseteq {"refused", "torn", "unsynced"}
ASSUME RuleAssumption  == {ReuseUnpublished, RetryRaces, EditRaces} \subseteq BOOLEAN

VARIABLES
    document,       \* [version, carries]: the file; carries: a recovery prefix precedes the HTML
    scratch,        \* [kind, recovery, tail]: the hidden sibling
    documentLease,  \* holder of Lease(root, 'document')
    scratchLease,   \* holder of Lease(root, 'scratch')
    pc,             \* where each process is
    op,             \* the command it is executing
    target,         \* the content it is publishing
    seen,           \* the byte identity it read last
    workspace,      \* its Workspace: [open, baseline, base]
    host,           \* its ResponseTransport: [live, spool, recovery]
    reviewed,       \* a snapshot's recorded baseline bytes and the graph it was edited from
    fresh,          \* next unused content
    faults,         \* I/O errors and crashes so far
    (* History, never read by an action's guard. *)
    committed,      \* snapshots whose recovery record is durable
    published,      \* snapshots the document has held
    outcome         \* the last status reported for each snapshot

files   == <<document, scratch>>
leases  == <<documentLease, scratchLease>>
local   == <<pc, op, target, seen, workspace, host>>
history == <<committed, published, outcome>>
vars    == <<files, leases, local, reviewed, fresh, faults, history>>

Version    == 1..MaxVersion
Content    == 0..MaxVersion
Bytes      == [version : Content, carries : BOOLEAN]
Workspaces == [open : BOOLEAN, baseline : Bytes, base : Content]
Transports == [live : BOOLEAN, spool : Content, recovery : Content]
Reviews    == [baseline : Bytes, parent : Content]
Statuses   == {"none", "failed", "unpublished", "written"}
Commands   == {"none", "save", "retry", "export"}
Points     == {"idle", "locking", "loading", "recording", "retrying", "comparing",
               "staging", "exporting", "checking", "staged", "verified", "installed",
               "stripping", "leaving", "closing", "clearing"}

(* The scratch file.  "owned": complete records, then perhaps a staged      *)
(* candidate (tail).  "torn": a record was cut short, so recovery_path      *)
(* rejects it.  "bare": no header, so nothing recognizes it.                *)
File(k, v, t)   == [kind |-> k, recovery |-> v, tail |-> t]
Absent          == File("absent", 0, 0)
Owned(v)        == File("owned", v, 0)
Bare(v)         == File("bare", 0, v)
WithRecovery(v) == File(scratch.kind, v, scratch.tail)
WithTail(v)     == File(scratch.kind, scratch.recovery, v)
HasRecovery     == scratch.kind = "owned" /\ scratch.recovery # 0
ReclaimableAny == scratch.kind \in {"absent", "owned"}     \* variant: recovery not looked at
Reclaimable   == \/ scratch = Absent
                 \/ scratch = Owned(0)

Scratch == {Absent} \cup [kind : {"owned", "torn"}, recovery : Content, tail : Content]
                    \cup [kind : {"bare"}, recovery : {0}, tail : Content]

(* No workspace, no transport, and a live transport.                       *)
NoWorkspace          == [open |-> FALSE, baseline |-> [version |-> 0, carries |-> FALSE], base |-> 0]
NoTransport          == [live |-> FALSE, spool |-> 0, recovery |-> 0]
Transport(spool, v)  == [live |-> TRUE, spool |-> spool, recovery |-> v]

Live(p)    == host[p].live
Running(p) == p \in Host => Live(p)
Ready(p)   == Running(p) /\ pc[p] = "idle"

\* A snapshot the document has never held although its record was made durable.
Owed == {v \in committed : v \notin published}

Init == /\ document = [version |-> 0, carries |-> FALSE]
        /\ scratch = Absent
        /\ documentLease = None /\ scratchLease = None
        /\ pc = [p \in Proc |-> "idle"]
        /\ op = [p \in Proc |-> "none"]
        /\ target = [p \in Proc |-> 0]
        /\ seen = [p \in Proc |-> document]
        /\ workspace = [p \in Proc |-> NoWorkspace]
        /\ host = [p \in Proc |-> NoTransport]
        /\ reviewed = [v \in Version |-> [baseline |-> document, parent |-> 0]]
        /\ fresh = 1 /\ faults = 0
        /\ committed = {} /\ published = {}
        /\ outcome = [v \in Version |-> "none"]

Goto(p, point) == pc' = [pc EXCEPT ![p] = point]

Fault == faults < MaxFaults /\ faults' = faults + 1

Report(v, status) == outcome' = [outcome EXCEPT ![v] = status]

\* What other processes may do while one stands between the two reads of a retry.
NobodyRetrying == RetryRaces \/ \A q \in Proc : pc[q] # "retrying"

-------------------------------------------------------------------------------
(* The response transport of an NDJSON host.                                *)

\* A fresh start reclaims a complete transport file that owes nothing and
\* refuses any other; the scratch lease is kept until the host ends.
StartHost(p) ==
    /\ p \in Host /\ ~Live(p) /\ pc[p] = "idle" /\ NobodyRetrying
    /\ scratchLease = None
    /\ Reclaimable
    /\ scratchLease' = p
    /\ scratch' = Owned(0)
    /\ host' = [host EXCEPT ![p] = Transport(0, 0)]
    /\ UNCHANGED <<document, documentLease, pc, op, target, seen, workspace, reviewed,
                   fresh, faults, history>>

\* Application.close, then ResponseTransport.close.  keep: --keep-log, or an
\* unclean exit.
StopHost(p, keep) ==
    /\ Live(p) /\ pc[p] = "idle"
    /\ scratch' = IF keep \/ host[p].recovery # 0 THEN scratch ELSE Absent
    /\ scratchLease' = None
    /\ documentLease' = IF workspace[p].open THEN None ELSE documentLease
    /\ workspace' = [workspace EXCEPT ![p] = NoWorkspace]
    /\ host' = [host EXCEPT ![p] = NoTransport]
    /\ UNCHANGED <<document, pc, op, target, seen, reviewed, fresh, faults, history>>

-------------------------------------------------------------------------------
(* ProjectFiles.begin_workspace and close_workspace.                        *)

BeginLock(p) ==
    /\ Ready(p) /\ ~workspace[p].open /\ NobodyRetrying
    /\ ReuseUnpublished \/ host[p].recovery = 0
    /\ documentLease = None
    /\ documentLease' = p
    /\ Goto(p, "locking")
    /\ UNCHANGED <<files, scratchLease, op, target, seen, workspace, host, reviewed,
                   fresh, faults, history>>

\* A process without a transport also needs the scratch lease and no scratch file.
BeginScratch(p) ==
    /\ pc[p] = "locking"
    /\ Live(p) \/ (scratchLease = None /\ scratch = Absent)
    /\ scratchLease' = IF Live(p) THEN scratchLease ELSE p
    /\ seen' = [seen EXCEPT ![p] = document]
    /\ Goto(p, "loading")
    /\ UNCHANGED <<files, documentLease, op, target, workspace, host, reviewed, fresh,
                   faults, history>>

BeginWaits(p) == FALSE      \* variant: waits for the second lease instead
BeginBusy(p) ==
    /\ pc[p] = "locking"
    /\ ~Live(p) /\ (scratchLease # None \/ scratch # Absent)
    /\ documentLease' = None
    /\ Goto(p, "idle")
    /\ UNCHANGED <<files, scratchLease, op, target, seen, workspace, host, reviewed,
                   fresh, faults, history>>

(* Releasing both leases of a workspace; a host keeps its transport's.      *)
(* Variants: the document lease of somebody else goes too; the transport's  *)
(* scratch lease goes too.                                                  *)
ReleaseOthers(p) == /\ documentLease' = None
                    /\ scratchLease' = IF Live(p) THEN scratchLease ELSE None
ReleaseHost(p) == /\ documentLease' = IF documentLease = p THEN None ELSE documentLease
                  /\ scratchLease' = IF scratchLease = p THEN None ELSE scratchLease
Release(p) == /\ documentLease' = IF documentLease = p THEN None ELSE documentLease
              /\ scratchLease' = IF scratchLease = p /\ ~Live(p) THEN None ELSE scratchLease

\* The graph is parsed between two reads of the bytes, which must agree.
BaselineHolds(p) == document = seen[p]

BeginLoad(p) ==
    /\ pc[p] = "loading"
    /\ BaselineHolds(p)
    /\ workspace' = [workspace EXCEPT ![p] =
                       [open |-> TRUE, baseline |-> seen[p], base |-> document.version]]
    /\ Goto(p, "idle")
    /\ UNCHANGED <<files, leases, op, target, seen, host, reviewed, fresh, faults, history>>

BeginStale(p) ==
    /\ pc[p] = "loading"
    /\ ~BaselineHolds(p)
    /\ Release(p)
    /\ Goto(p, "idle")
    /\ UNCHANGED <<files, op, target, seen, workspace, host, reviewed, fresh, faults, history>>

\* change.discard, or the end of a direct command.
Discard(p) ==
    /\ Ready(p) /\ workspace[p].open
    /\ Release(p)
    /\ workspace' = [workspace EXCEPT ![p] = NoWorkspace]
    /\ UNCHANGED <<files, pc, op, target, seen, host, reviewed, fresh, faults, history>>

-------------------------------------------------------------------------------
(* ProjectFiles.write: the in-memory transaction, then its recovery record. *)

\* The bytes are compared with the baseline before the transaction.  A
\* mismatch is reported as stale and changes nothing.
WriteSnapshot(p) ==
    /\ Ready(p) /\ workspace[p].open /\ NobodyRetrying
    /\ fresh <= MaxVersion
    /\ document = workspace[p].baseline
    /\ reviewed' = [reviewed EXCEPT ![fresh] = [baseline |-> workspace[p].baseline,
                                                parent |-> workspace[p].base]]
    /\ target' = [target EXCEPT ![p] = fresh]
    /\ fresh' = fresh + 1
    /\ op' = [op EXCEPT ![p] = "save"]
    /\ Goto(p, "recording")
    /\ UNCHANGED <<files, leases, seen, workspace, host, faults, history>>

\* A transport appends to its file; otherwise the file is created, exclusively.
CanRecord(p) == IF Live(p) THEN scratch.kind # "absent" ELSE scratch.kind = "absent"

\* Variant: the recovery record is created without the header before it.
AppendedBare(p, v) == IF Live(p) THEN WithRecovery(v) ELSE File("bare", v, 0)
Appended(p, v) == IF Live(p) THEN WithRecovery(v) ELSE Owned(v)

\* What a record leaves that was cut short.  Variant: it is read as complete.
TornWhole(p) == Appended(p, target[p])
Torn(p) == IF Live(p) THEN File("torn", scratch.recovery, scratch.tail) ELSE Bare(0)

\* What a failing append of recovery record v leaves, by the kind of fault.
Left(p, v, fault) == IF fault = "refused" THEN scratch
                     ELSE IF fault = "torn" THEN Torn(p) ELSE Appended(p, v)

Spooled(p, v, fault) == IF fault = "unsynced" THEN v ELSE host[p].spool

RecordRecovery(p) ==
    /\ pc[p] = "recording" /\ CanRecord(p)
    /\ scratch' = Appended(p, target[p])
    /\ host' = IF Live(p) THEN [host EXCEPT ![p] = Transport(target[p], target[p])] ELSE host
    /\ committed' = committed \cup {target[p]}
    /\ Goto(p, "staging")
    /\ UNCHANGED <<document, leases, op, target, seen, workspace, reviewed, fresh, faults,
                   published, outcome>>

\* The memory snapshot is restored and the save reported as failed; the
\* workspace stays open.  What the failed append left on disk stays there.
RecordFailed(p) ==
    /\ pc[p] = "recording"
    /\ \E fault \in IOFaults \cup {"refused"} :
         /\ IF CanRecord(p) THEN fault \in IOFaults /\ Fault
                            ELSE fault = "refused" /\ UNCHANGED faults
         /\ scratch' = Left(p, target[p], fault)
         /\ host' = IF Live(p)
                    THEN [host EXCEPT ![p] = Transport(Spooled(p, target[p], fault), target[p])]
                    ELSE host
    /\ Report(target[p], "failed")
    /\ Goto(p, "idle")
    /\ UNCHANGED <<document, leases, op, target, seen, workspace, reviewed, fresh,
                   committed, published>>

-------------------------------------------------------------------------------
(* Publisher.publish and scratch.staging: one path for saves, retries and    *)
(* exports.  A save brings its document lease and, without a transport, its  *)
(* scratch lease; a retry brings the document lease; an export brings none.  *)

\* Export of another project over this document (project export-html).
Export(p) ==
    /\ Ready(p) /\ ~workspace[p].open /\ NobodyRetrying
    /\ ReuseUnpublished \/ host[p].recovery = 0
    /\ fresh <= MaxVersion
    /\ target' = [target EXCEPT ![p] = fresh]
    /\ fresh' = fresh + 1
    /\ op' = [op EXCEPT ![p] = "export"]
    /\ Goto(p, "staging")
    /\ UNCHANGED <<files, leases, seen, workspace, host, reviewed, faults, history>>

\* staging(): a transport reuses its own file.  Otherwise the scratch lease is
\* needed, and a file found there must hold a recovery record that this
\* process owns or is recovering.
\* Variant: a retry does not mark its document as recovering.
CanStageFresh(p) ==
    IF Live(p) THEN scratch.kind # "absent"
    ELSE IF op[p] = "save" THEN HasRecovery
    ELSE scratchLease = None /\ scratch = Absent
CanStage(p) ==
    IF Live(p) THEN scratch.kind # "absent"
    ELSE \/ op[p] = "save" /\ HasRecovery
         \/ op[p] = "retry" /\ scratchLease = None /\ (scratch = Absent \/ HasRecovery)
         \/ op[p] = "export" /\ scratchLease = None /\ scratch = Absent

\* An interrupted candidate behind the records is truncated.
EnterStaging(p) ==
    /\ pc[p] = "staging" /\ CanStage(p)
    /\ scratchLease' = IF Live(p) THEN scratchLease ELSE p
    /\ scratch' = IF Live(p) \/ scratch = Absent THEN scratch ELSE WithTail(0)
    /\ Goto(p, IF op[p] = "export" THEN "exporting" ELSE "checking")
    /\ UNCHANGED <<document, documentLease, op, target, seen, workspace, host, reviewed,
                   fresh, faults, history>>

\* An export takes the document lease only now, in the opposite order to a begin.
ExportLock(p) ==
    /\ pc[p] = "exporting"
    /\ documentLease = None
    /\ documentLease' = p
    /\ Goto(p, "checking")
    /\ UNCHANGED <<files, scratchLease, op, target, seen, workspace, host, reviewed,
                   fresh, faults, history>>

\* expected_bytes: a save and a retry compare the document with the baseline.
\* Variants: a retry passes no expected bytes; nobody does.
FreshSave(p) == op[p] # "save" \/ document = reviewed[target[p]].baseline
FreshNever(p) == TRUE
Fresh(p) == op[p] = "export" \/ document = reviewed[target[p]].baseline

\* write_stage appends behind the records, or creates a file without any.
\* Variant: it always starts the file anew.
StagedAlone(p) == Bare(target[p])
Staged(p) == IF scratch.kind = "absent" THEN Bare(target[p])
             ELSE WithTail(target[p])

WriteStage(p) ==
    /\ pc[p] = "checking" /\ Fresh(p)
    /\ scratch' = Staged(p)
    /\ Goto(p, "staged")
    /\ UNCHANGED <<document, leases, op, target, seen, workspace, host, reviewed, fresh,
                   faults, history>>

RecheckBytes(p) ==
    /\ pc[p] = "staged" /\ Fresh(p)
    /\ Goto(p, "verified")
    /\ UNCHANGED <<files, leases, op, target, seen, workspace, host, reviewed, fresh,
                   faults, history>>

\* The candidate is parsed and compared with the snapshot, then moved over the
\* document together with whatever records precede it.
CandidateHolds(p) == scratch.tail = target[p]

Install(p) ==
    /\ pc[p] = "verified" /\ CandidateHolds(p)
    /\ document' = [version |-> target[p], carries |-> scratch.kind # "bare"]
    /\ scratch' = Absent
    /\ published' = published \cup {target[p]}
    /\ Goto(p, "installed")
    /\ UNCHANGED <<leases, op, target, seen, workspace, host, reviewed, fresh, faults,
                   committed, outcome>>

\* A document that carries records is staged a second time without them; its
\* identity is read again first.
StageClean(p) ==
    /\ pc[p] = "installed"
    /\ IF document.carries
       THEN /\ seen' = [seen EXCEPT ![p] = document]
            /\ scratch' = Bare(target[p])
            /\ Goto(p, "stripping")
       ELSE Goto(p, "leaving") /\ UNCHANGED <<seen, scratch>>
    /\ UNCHANGED <<document, leases, op, target, workspace, host, reviewed, fresh, faults,
                   history>>

InstallClean(p) ==
    /\ pc[p] = "stripping" /\ document = seen[p]
    /\ document' = [version |-> target[p], carries |-> FALSE]
    /\ scratch' = Absent
    /\ Goto(p, "leaving")
    /\ UNCHANGED <<leases, op, target, seen, workspace, host, reviewed, fresh, faults, history>>

\* An error after the first replacement is only a warning; the stage is unlinked.
CleanFailed(p) ==
    /\ \/ pc[p] = "installed" /\ document.carries /\ Fault
       \/ pc[p] = "stripping" /\ Fault
       \/ pc[p] = "stripping" /\ document # seen[p] /\ UNCHANGED faults
    /\ scratch' = Absent
    /\ Goto(p, "leaving")
    /\ UNCHANGED <<document, leases, op, target, seen, workspace, host, reviewed, fresh, history>>

\* Leaving staging(): a transport writes its spooled records to a new file.
Respooled(p) == IF Live(p) THEN Owned(host[p].spool) ELSE scratch

LeaveStaging(p) ==
    /\ pc[p] = "leaving"
    /\ \/ scratch' = Respooled(p) /\ UNCHANGED faults
       \/ /\ Live(p) /\ Fault
          /\ \E left \in IOFaults \ {"unsynced"} :
               scratch' = IF left = "refused" THEN Absent ELSE File("torn", 0, 0)
    /\ scratchLease' = IF op[p] # "save" /\ ~Live(p) THEN None ELSE scratchLease
    /\ documentLease' = IF op[p] = "export" THEN None ELSE documentLease
    /\ Goto(p, IF op[p] = "export" THEN "idle" ELSE "closing")
    /\ UNCHANGED <<document, op, target, seen, workspace, host, reviewed, fresh, history>>

\* Nothing was installed: the candidate is cut off, the records stay, and the
\* leases of the command are released.  A save reports its snapshot unpublished.
\* Variant: the whole file goes.
UnstagedAll(p) == Absent
Unstaged(p) == IF pc[p] \in {"staging", "exporting"} THEN scratch
               ELSE IF scratch.kind \in {"owned", "torn"} THEN WithTail(0) ELSE Absent

Blocked(p) == \/ pc[p] = "staging" /\ ~CanStage(p)
              \/ pc[p] = "exporting" /\ documentLease # None
              \/ pc[p] \in {"checking", "staged"} /\ ~Fresh(p)
              \/ pc[p] = "verified" /\ ~CandidateHolds(p)

Abort(p) ==
    /\ pc[p] \in {"staging", "exporting", "checking", "staged", "verified"}
    /\ IF Blocked(p) THEN UNCHANGED faults ELSE Fault
    /\ scratch' = Unstaged(p)
    /\ Release(p)
    /\ workspace' = [workspace EXCEPT ![p] = NoWorkspace]
    /\ IF op[p] = "save" THEN Report(target[p], "unpublished") ELSE UNCHANGED outcome
    /\ Goto(p, "idle")
    /\ UNCHANGED <<document, op, target, seen, host, reviewed, fresh, committed, published>>

\* close_workspace before record_recovery(None).
CloseLock(p) ==
    /\ pc[p] = "closing"
    /\ Release(p)
    /\ workspace' = [workspace EXCEPT ![p] = NoWorkspace]
    /\ Goto(p, "clearing")
    /\ UNCHANGED <<files, op, target, seen, host, reviewed, fresh, faults, history>>

\* Only a transport still has a record to withdraw.  When that fails, a save
\* still reports its snapshot written, with a warning; a retry reports the error.
ClearRecovery(p) ==
    /\ pc[p] = "clearing"
    /\ Live(p) => scratch.kind # "absent"
    /\ scratch' = IF Live(p) THEN Appended(p, 0) ELSE scratch
    /\ host' = IF Live(p) THEN [host EXCEPT ![p] = Transport(0, 0)] ELSE host
    /\ Report(target[p], "written")
    /\ Goto(p, "idle")
    /\ UNCHANGED <<document, leases, op, target, seen, workspace, reviewed, fresh, faults,
                   committed, published>>

ClearFailed(p) ==
    /\ pc[p] = "clearing" /\ Live(p)
    /\ \E fault \in IOFaults \cup {"refused"} :
         /\ IF scratch.kind # "absent" THEN fault \in IOFaults /\ Fault
                                       ELSE fault = "refused" /\ UNCHANGED faults
         /\ scratch' = Left(p, 0, fault)
         /\ host' = [host EXCEPT ![p] = Transport(Spooled(p, 0, fault), host[p].recovery)]
    /\ IF op[p] = "save" THEN Report(target[p], "written") ELSE UNCHANGED outcome
    /\ Goto(p, "idle")
    /\ UNCHANGED <<document, leases, op, target, seen, workspace, reviewed, fresh,
                   committed, published>>

-------------------------------------------------------------------------------
(* ProjectFiles.retry_export.                                                *)

\* The recovery record is read before any lease is held.
RetryRead(p) ==
    /\ Ready(p) /\ NobodyRetrying
    /\ RetryRaces \/ documentLease = None
    /\ HasRecovery
    /\ target' = [target EXCEPT ![p] = scratch.recovery]
    /\ op' = [op EXCEPT ![p] = "retry"]
    /\ Goto(p, "retrying")
    /\ UNCHANGED <<files, leases, seen, workspace, host, reviewed, fresh, faults, history>>

RetryLock(p) ==
    /\ pc[p] = "retrying"
    /\ IF documentLease = None
       THEN documentLease' = p /\ Goto(p, "comparing")
       ELSE UNCHANGED documentLease /\ Goto(p, "idle")
    /\ UNCHANGED <<files, scratchLease, op, target, seen, workspace, host, reviewed,
                   fresh, faults, history>>

\* A document that already is the snapshot only loses its scratch file.
RetryPublished(p) ==
    /\ pc[p] = "comparing" /\ document.version = target[p]
    /\ IF scratchLease = None /\ scratch # Absent
       THEN scratch' = Absent /\ Report(target[p], "written")
       ELSE UNCHANGED <<scratch, outcome>>
    /\ documentLease' = None
    /\ Goto(p, "idle")
    /\ UNCHANGED <<document, scratchLease, op, target, seen, workspace, host, reviewed,
                   fresh, faults, committed, published>>

RetryPublish(p) ==
    /\ pc[p] = "comparing" /\ document.version # target[p]
    /\ Goto(p, "staging")
    /\ UNCHANGED <<files, leases, op, target, seen, workspace, host, reviewed, fresh,
                   faults, history>>

-------------------------------------------------------------------------------
(* The environment.                                                          *)

\* Between the last comparison with the baseline and the last replacement an
\* edit would be overwritten unseen.
InWindow(p) == pc[p] \in {"verified", "installed", "stripping"}

\* A text editor keeps the prefix of a document that carries one; a
\* regenerated file has none.
Edit(carries) ==
    /\ fresh <= MaxVersion
    /\ EditRaces \/ ~\E p \in Proc : InWindow(p)
    /\ carries => document.carries
    /\ document' = [version |-> fresh, carries |-> carries]
    /\ fresh' = fresh + 1
    /\ UNCHANGED <<scratch, leases, local, reviewed, faults, history>>

\* What a process killed inside a file operation may leave behind.
CutShort(p) ==
    \/ scratch' = scratch
    \/ pc[p] = "recording" /\ CanRecord(p) /\ "torn" \in IOFaults /\ scratch' = Torn(p)
    \/ pc[p] = "checking" /\ Fresh(p) /\ scratch' = Staged(p)
    \/ pc[p] = "installed" /\ document.carries /\ scratch' = Bare(target[p])
    \/ pc[p] = "leaving" /\ Live(p) /\ scratch' \in {Bare(0), Respooled(p)}

Crash(p) ==
    /\ Fault
    /\ Live(p) \/ pc[p] # "idle" \/ workspace[p].open
    /\ CutShort(p)
    /\ documentLease' = IF documentLease = p THEN None ELSE documentLease
    /\ scratchLease' = IF scratchLease = p THEN None ELSE scratchLease
    /\ Goto(p, "idle")
    /\ workspace' = [workspace EXCEPT ![p] = NoWorkspace]
    /\ host' = [host EXCEPT ![p] = NoTransport]
    /\ UNCHANGED <<document, op, target, seen, reviewed, fresh, history>>

-------------------------------------------------------------------------------
(* The steps of a command that has begun, without its failures.              *)
Proceed(p) == \/ BeginScratch(p) \/ BeginBusy(p) \/ BeginLoad(p) \/ BeginStale(p)
              \/ RecordRecovery(p) \/ EnterStaging(p) \/ ExportLock(p) \/ WriteStage(p)
              \/ RecheckBytes(p) \/ Install(p) \/ StageClean(p) \/ InstallClean(p)
              \/ LeaveStaging(p) \/ CloseLock(p) \/ ClearRecovery(p)
              \/ RetryLock(p) \/ RetryPublished(p) \/ RetryPublish(p)

Fail(p) == RecordFailed(p) \/ CleanFailed(p) \/ ClearFailed(p) \/ Abort(p)

Request(p) == \/ StartHost(p) \/ \E keep \in BOOLEAN : StopHost(p, keep)
              \/ BeginLock(p) \/ Discard(p) \/ WriteSnapshot(p) \/ Export(p)
              \/ RetryRead(p)

Next == \/ \E p \in Proc : Request(p) \/ Proceed(p) \/ Fail(p) \/ Crash(p)
        \/ \E carries \in BOOLEAN : Edit(carries)

Spec == Init /\ [][Next]_vars

\* A command that has begun runs to its end unless its process dies, and an
\* operator who is told to retry does so whenever nothing else is in the way.
Step(p)  == Proceed(p) \/ (Fail(p) /\ UNCHANGED faults)
Fairness == \A p \in Proc : WF_vars(Step(p)) /\ SF_vars(RetryRead(p))
FairSpec == Spec /\ Fairness

-------------------------------------------------------------------------------
TypeOK ==
    /\ document \in Bytes
    /\ scratch \in Scratch
    /\ documentLease \in Proc \cup {None}
    /\ scratchLease \in Proc \cup {None}
    /\ pc \in [Proc -> Points]
    /\ op \in [Proc -> Commands]
    /\ target \in [Proc -> Content]
    /\ seen \in [Proc -> Bytes]
    /\ workspace \in [Proc -> Workspaces]
    /\ host \in [Proc -> Transports]
    /\ reviewed \in [Version -> Reviews]
    /\ fresh \in 1..(MaxVersion + 1)
    /\ faults \in 0..MaxFaults
    /\ committed \subseteq Version
    /\ published \subseteq Version
    /\ outcome \in [Version -> Statuses]

\* A snapshot whose recovery record was made durable is never lost: until the
\* document has held it, the scratch file ends on it (record_recovery, staging,
\* ResponseTransport, retry_export).  Whether a retry can read it is ReportsTrue.
NoReviewedLoss == \A v \in Owed : scratch.recovery = v

\* A save reported as failed restored the in-memory snapshot; neither that save
\* nor a later retry may make the document become it (write, 225-229).
FailedNeverPublished == \A v \in published : outcome[v] # "failed"

\* A staged candidate left without any header, which no command will touch, is
\* never the only copy of a reviewed snapshot (_publish, second staging). It needs
\* the rules on the environment: of two retries that race, one can unlink the
\* record that the other is about to stage.
BareCandidateIsPublished ==
    scratch.kind = "bare" /\ scratch.tail \in committed => scratch.tail \in published

\* Two commands never publish, and no two workspaces are ever open, at the same
\* time; and whoever may touch the scratch file holds its lease.
Writing(p) == workspace[p].open \/ pc[p] \in {"checking", "staged", "verified", "installed",
                                              "stripping", "closing"}
OneWriter == \A p, q \in Proc : Writing(p) /\ Writing(q) => p = q

\* A reviewed snapshot replaces only the version it was reviewed against,
\* whatever was read when, and by whichever command it is published
\* (begin_workspace, expected_bytes).
ReplacesReviewed == \A v \in committed :
    document'.version = v /\ document.version # v => document.version = reviewed[v].parent

NoLostUpdate == [][ReplacesReviewed]_vars

\* A save is reported unpublished only while the document has never held the
\* snapshot and the scratch file ends on its record, which a retry can read unless
\* a record in the file was cut short before; it is reported written only when
\* the document has held it (write, 231-244).
ReportsTrue ==
    [][\A v \in Version : outcome'[v] # outcome[v] =>
          /\ outcome'[v] = "written" => v \in published
          /\ outcome'[v] # "written" => v \notin published
          /\ outcome'[v] = "unpublished" =>
                /\ scratch'.recovery = v
                /\ scratch.kind # "torn" => HasRecovery']_vars

\* A save that is reported unpublished with the advice to retry can be retried: the
\* scratch file holds its snapshot where recovery_path reads it, behind no record
\* that was cut short (write, 236; recovery_path).
RetainedIsReadable ==
    [][\A v \in Version : outcome'[v] # outcome[v] /\ outcome'[v] = "unpublished" =>
          HasRecovery' /\ scratch'.recovery = v]_vars

\* Nobody but its holder changes the scratch file while the lease is held, and
\* nobody changes it while the lease is free (staging, ResponseTransport,
\* begin_workspace, retry_export).
Moved(p)    == pc'[p] # pc[p] \/ host'[p] # host[p]
Unlinks(p)  == pc[p] = "comparing" /\ scratchLease = None
HolderMoves == scratch' # scratch =>
    \E p \in Proc : Moved(p) /\ (p \in {scratchLease, scratchLease'} \/ Unlinks(p))

ScratchOnlyByHolder == [][HolderMoves]_vars

\* Every command ends, although a begin takes the document lease before the
\* scratch lease and an export takes them the other way round (Lease.acquire
\* refuses at once instead of waiting).
CommandsEnd == \A p \in Proc : pc[p] # "idle" ~> pc[p] = "idle"

\* A retained snapshot is eventually published by a retry, through any crash or
\* I/O error in between, unless the document stops being what the snapshot was
\* reviewed against.
RetryPublishes ==
    \A v \in Version :
        v \in Owed /\ HasRecovery ~> v \in published \/ document # reviewed[v].baseline
===============================================================================
