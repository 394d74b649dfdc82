--------------------------- MODULE PublicationProofs ---------------------------
(* Theorems about Publication, for every set of processes, every bound and  *)
(* every choice of faults and rules; then about what saves report, and about *)
(* the promise ReviewedDocument makes.                                       *)
EXTENDS MCPublication, TLAPS

-------------------------------------------------------------------------------
(* The inductive invariant.                                                  *)

HoldsScratch  == {"loading", "recording", "exporting", "checking", "staged", "verified",
                  "installed", "stripping", "leaving"}
HoldsDocument == {"locking", "loading", "recording", "comparing", "checking", "staged",
                  "verified", "installed", "stripping", "leaving", "closing"}
Publishing    == {"staging", "exporting", "checking", "staged", "verified", "installed",
                  "stripping", "leaving", "closing"}
HasTarget     == Publishing \cup {"recording", "retrying", "comparing", "clearing"}

\* Who is where holds which lease.
Leases == \A p \in Proc :
    /\ Live(p) \/ workspace[p].open \/ pc[p] \in HoldsScratch => scratchLease = p
    /\ \/ workspace[p].open
       \/ pc[p] \in HoldsDocument
       \/ pc[p] = "staging" /\ op[p] # "export"
       => documentLease = p

\* Which command brings a process where, with an open workspace for a save.
Programs == \A p \in Proc :
    /\ pc[p] = "recording" \/ (pc[p] \in Publishing /\ op[p] = "save") => workspace[p].open
    /\ pc[p] = "recording" => op[p] = "save"
    /\ pc[p] \in {"retrying", "comparing"} => op[p] = "retry"
    /\ pc[p] = "exporting" => op[p] = "export"
    /\ pc[p] \in {"closing", "clearing"} => op[p] # "export"
    /\ pc[p] \in Publishing => op[p] # "none"
    /\ workspace[p].open => pc[p] \in {"idle", "retrying", "recording"} \cup Publishing
    /\ workspace[p].open /\ pc[p] \notin {"idle", "retrying"} => op[p] = "save"
    /\ Live(p) => p \in Host
    /\ pc[p] \in HasTarget => target[p] \in Version /\ target[p] < fresh

\* The file behind a live transport never loses its header for good.
Shapes ==
    /\ scratch.recovery < fresh /\ scratch.tail < fresh /\ document.version < fresh
    /\ \A p \in Proc :
        /\ host[p].spool < fresh /\ host[p].recovery < fresh
        /\ Live(p) /\ pc[p] # "stripping" => scratch.kind # "bare"
        /\ Live(p) /\ pc[p] \in {"exporting", "checking", "staged", "verified"}
           => scratch.kind \in {"owned", "torn"}

IInv == TypeOK /\ Leases /\ Programs /\ Shapes
-------------------------------------------------------------------------------
(* What is owed, when no host is reused and no retry races.                  *)

\* Points at which no other snapshot can be waiting.
OwesNothing(p) ==
    \/ pc[p] \in {"loading", "recording", "exporting", "installed", "stripping", "leaving"}
    \/ workspace[p].open /\ pc[p] \in {"idle", "retrying"}
    \/ op[p] = "export" /\ pc[p] \in {"checking", "staged", "verified"}
    \/ Live(p) /\ \/ pc[p] \in {"locking", "closing", "clearing"}
                  \/ pc[p] = "staging" /\ op[p] = "export"

Owing == \A p \in Proc :
    /\ Live(p) /\ host[p].recovery = 0 => Owed = {}
    /\ OwesNothing(p) => Owed = {}
    /\ /\ op[p] \in {"save", "retry"}
       /\ pc[p] \in {"retrying", "comparing", "staging", "checking", "staged", "verified"}
       => Owed \subseteq {target[p]}
    /\ pc[p] = "retrying" => \A q \in Proc : pc[q] # "recording"

Histories == /\ document.version \in committed => document.version \in published
             /\ \A v \in committed : v < fresh
             /\ \A p \in Proc :
                 /\ pc[p] = "recording" => target[p] # document.version
                 /\ pc[p] \in {"installed", "stripping"} => target[p] \in published

RInv == NoReviewedLoss /\ Owing /\ Histories

-------------------------------------------------------------------------------
(* What a snapshot replaces, when no edit comes in a publication's last       *)
(* window.                                                                    *)

Baselines ==
    /\ \A v \in Version : reviewed[v].baseline.version = reviewed[v].parent
    /\ \A p \in Proc :
        /\ workspace[p].baseline.version = workspace[p].base
        /\ op[p] # "export" /\ pc[p] = "verified" => document = reviewed[target[p]].baseline
        /\ pc[p] \in {"installed", "stripping"} => document.version = target[p]
        /\ op[p] = "export" /\ pc[p] \in Publishing => target[p] \notin committed
    /\ \A p, q \in Proc :
        op[p] = "export" /\ pc[p] \in Publishing /\ pc[q] = "recording" => target[p] # target[q]

UInv == Baselines /\ Histories


-------------------------------------------------------------------------------
(* Constructors and fields of the records, so that no later step has to open *)
(* their sets.                                                               *)

LEMMA Constructors ==
    ASSUME TypeOK
    PROVE  /\ \A v \in Content : Owned(v) \in Scratch /\ Bare(v) \in Scratch /\ File("torn", 0, 0) \in Scratch
           /\ Absent \in Scratch
           /\ \A v \in Content : scratch.kind \in {"owned", "torn"} =>
                 /\ WithTail(v) \in Scratch /\ WithRecovery(v) \in Scratch
                 /\ File("torn", scratch.recovery, scratch.tail) \in Scratch
           /\ \A v \in Content : scratch.kind = "bare" => WithTail(v) \in Scratch
           /\ NoWorkspace \in Workspaces /\ NoTransport \in Transports
           /\ \A v, w \in Content : Transport(v, w) \in Transports
           /\ \A b \in Bytes, v \in Content : [open |-> TRUE, baseline |-> b, base |-> v] \in Workspaces
           /\ \A b \in Bytes, v \in Content : [baseline |-> b, parent |-> v] \in Reviews
           /\ \A v \in Content, c \in BOOLEAN : [version |-> v, carries |-> c] \in Bytes
<1> USE BoundAssumption DEF TypeOK
<1>1. /\ \A v \in Content : Owned(v) \in Scratch /\ Bare(v) \in Scratch /\ File("torn", 0, 0) \in Scratch
      /\ Absent \in Scratch
  BY DEF Scratch, Owned, Bare, File, Absent, Content
<1>2. \A v \in Content : scratch.kind \in {"owned", "torn"} =>
                 /\ WithTail(v) \in Scratch /\ WithRecovery(v) \in Scratch
                 /\ File("torn", scratch.recovery, scratch.tail) \in Scratch
  BY DEF Scratch, File, Content, WithTail, WithRecovery, Absent
<1>3. \A v \in Content : scratch.kind = "bare" => WithTail(v) \in Scratch
  BY DEF Scratch, File, Content, WithTail, Absent
<1>4. NoWorkspace \in Workspaces /\ NoTransport \in Transports
  BY DEF NoWorkspace, Workspaces, NoTransport, Transports, Content, Bytes
<1>5. \A v, w \in Content : Transport(v, w) \in Transports
  BY DEF Transport, Transports
<1>6. /\ \A b \in Bytes, v \in Content : [open |-> TRUE, baseline |-> b, base |-> v] \in Workspaces
      /\ \A b \in Bytes, v \in Content : [baseline |-> b, parent |-> v] \in Reviews
      /\ \A v \in Content, c \in BOOLEAN : [version |-> v, carries |-> c] \in Bytes
  BY DEF Workspaces, Reviews, Bytes
<1> QED
  BY <1>1, <1>2, <1>3, <1>4, <1>5, <1>6

LEMMA Fields ==
    ASSUME TypeOK
    PROVE  /\ document.version \in Content /\ document.carries \in BOOLEAN
           /\ scratch.recovery \in Content /\ scratch.tail \in Content
           /\ scratch.kind \in {"absent", "owned", "torn", "bare"}
           /\ scratch.kind = "absent" => scratch = Absent
           /\ \A p \in Proc : /\ host[p] \in Transports /\ host[p].live \in BOOLEAN
                              /\ host[p].spool \in Content /\ host[p].recovery \in Content
                              /\ workspace[p].open \in BOOLEAN
                              /\ workspace[p].baseline \in Bytes /\ workspace[p].base \in Content
           /\ \A v \in Version : reviewed[v].baseline \in Bytes /\ reviewed[v].parent \in Content
<1> USE BoundAssumption DEF TypeOK
<1>1. document.version \in Content /\ document.carries \in BOOLEAN
  BY DEF Bytes
<1>2. /\ scratch.recovery \in Content /\ scratch.tail \in Content
      /\ scratch.kind \in {"absent", "owned", "torn", "bare"}
      /\ scratch.kind = "absent" => scratch = Absent
  BY DEF Scratch, Absent, File, Content
<1>3. \A p \in Proc : /\ host[p] \in Transports /\ host[p].live \in BOOLEAN
                      /\ host[p].spool \in Content /\ host[p].recovery \in Content
  BY DEF Transports
<1>4. \A p \in Proc : /\ workspace[p].open \in BOOLEAN
                      /\ workspace[p].baseline \in Bytes /\ workspace[p].base \in Content
  BY DEF Workspaces
<1>5. \A v \in Version : reviewed[v].baseline \in Bytes /\ reviewed[v].parent \in Content
  BY DEF Reviews
<1> QED
  BY <1>1, <1>2, <1>3, <1>4, <1>5

LEMMA Functions ==
    ASSUME TypeOK
    PROVE  /\ pc \in [Proc -> Points] /\ op \in [Proc -> Commands] /\ target \in [Proc -> Content]
           /\ host \in [Proc -> Transports] /\ workspace \in [Proc -> Workspaces]
           /\ seen \in [Proc -> Bytes] /\ reviewed \in [Version -> Reviews]
           /\ committed \subseteq Version /\ published \subseteq Version
BY DEF TypeOK

LEMMA Numbers ==
    ASSUME TypeOK, Shapes
    PROVE  /\ Content \subseteq Nat /\ Version \subseteq Content /\ 0 \notin Version
           /\ \A v \in Content : v # 0 => v \in Version
           /\ fresh \in Nat /\ (fresh <= MaxVersion => fresh \in Version)
           /\ \A p \in Proc : target[p] \in Nat
           /\ scratch.recovery \in Nat /\ scratch.recovery < fresh
           /\ document.version \in Nat /\ document.version < fresh
BY BoundAssumption, Fields DEF TypeOK, Content, Version, Shapes

-------------------------------------------------------------------------------
(* The invariant holds at the start and every step keeps it.                 *)

LEMMA InvInit == Init => IInv
<1> SUFFICES ASSUME Init PROVE IInv
  OBVIOUS
<1> USE ProcAssumption, BoundAssumption DEF Init
<1>1. TypeOK
  BY DEF TypeOK, Content, Version, Bytes, Workspaces, Transports, Reviews, Statuses, Commands,
         Points, Scratch, Absent, File, NoWorkspace, NoTransport
<1>2. Leases /\ Programs /\ Shapes
  BY DEF Leases, Programs, Shapes, HoldsScratch, HoldsDocument, Publishing, HasTarget, Live,
         NoWorkspace, NoTransport, Absent, File
<1> QED
  BY <1>1, <1>2 DEF IInv

\* The clean-up of a document that carried records stages what it has installed.
LEMMA StageCleanTypes ==
    ASSUME IInv, NEW p \in Proc, StageClean(p)
    PROVE  TypeOK'
<1>1. pc[p] = "installed" /\ target[p] \in Content /\ 0 \in Content
  BY BoundAssumption DEF IInv, TypeOK, StageClean, Content
<1>2. scratch' \in Scratch
  BY <1>1, Constructors DEF IInv, TypeOK, StageClean
<1>3. seen' \in [Proc -> Bytes]
  BY DEF IInv, TypeOK, StageClean
<1>4. pc' \in [Proc -> Points]
  BY DEF IInv, TypeOK, StageClean, Goto, Points
<1>5. QED
  BY <1>2, <1>3, <1>4 DEF IInv, TypeOK, StageClean, leases, history

\* Types.
LEMMA TypeStep ==
    ASSUME IInv, Next
    PROVE  TypeOK'
<1>v. /\ 0 \in Content /\ Version \subseteq Content
      /\ fresh <= MaxVersion => fresh \in Version /\ fresh + 1 \in 1..(MaxVersion + 1)
      /\ faults < MaxFaults => faults + 1 \in 0..MaxFaults
  BY BoundAssumption DEF IInv, TypeOK, Content, Version
<1>t. \A q \in Proc : pc[q] \in HasTarget => target[q] \in Version
  BY DEF IInv, Programs
<1>c. \A q \in Proc : Live(q) /\ pc[q] # "stripping" => scratch.kind # "bare"
  BY DEF IInv, Shapes
<1> USE <1>v, <1>t, <1>c, Fields, Constructors DEF IInv, files, leases, local,
        history, Live, Goto, TypeOK, Commands, Points, Statuses, HasTarget,
        Publishing, NobodyRetrying, Reclaimable, Ready, Running, BaselineHolds,
        Release, CanRecord, Appended, Fault, Left, Spooled, Report, Torn, CanStage,
        HasRecovery, Fresh, Staged, CandidateHolds, Respooled, Unstaged, CutShort,
        InWindow
<1>1. ASSUME NEW p \in Proc, Request(p) \/ Proceed(p) \/ Fail(p) \/ Crash(p)
      PROVE  TypeOK'
  <2>1. CASE StartHost(p)  BY <2>1 DEF StartHost
  <2>2. CASE \E keep \in BOOLEAN : StopHost(p, keep)  BY <2>2 DEF StopHost
  <2>3. CASE BeginLock(p)  BY <2>3 DEF BeginLock
  <2>4. CASE BeginScratch(p)  BY <2>4 DEF BeginScratch
  <2>5. CASE BeginBusy(p)  BY <2>5 DEF BeginBusy
  <2>6. CASE BeginLoad(p)  BY <2>6 DEF BeginLoad
  <2>7. CASE BeginStale(p)  BY <2>7 DEF BeginStale
  <2>8. CASE Discard(p)  BY <2>8 DEF Discard
  <2>9. CASE WriteSnapshot(p)  BY <2>9 DEF WriteSnapshot
  <2>10. CASE RecordRecovery(p)  BY <2>10 DEF RecordRecovery
  <2>11. CASE RecordFailed(p)  BY <2>11 DEF RecordFailed
  <2>12. CASE Export(p)  BY <2>12 DEF Export
  <2>13. CASE EnterStaging(p)  BY <2>13 DEF EnterStaging
  <2>14. CASE ExportLock(p)  BY <2>14 DEF ExportLock
  <2>15. CASE WriteStage(p)  BY <2>15 DEF WriteStage
  <2>16. CASE RecheckBytes(p)  BY <2>16 DEF RecheckBytes
  <2>17. CASE Install(p)  BY <2>17 DEF Install
  <2>18. CASE StageClean(p)  BY <2>18, StageCleanTypes
  <2>19. CASE InstallClean(p)  BY <2>19 DEF InstallClean
  <2>20. CASE CleanFailed(p)  BY <2>20 DEF CleanFailed
  <2>21. CASE LeaveStaging(p)  BY <2>21 DEF LeaveStaging
  <2>22. CASE Abort(p)  BY <2>22 DEF Abort
  <2>23. CASE CloseLock(p)  BY <2>23 DEF CloseLock
  <2>24. CASE ClearRecovery(p)  BY <2>24 DEF ClearRecovery
  <2>25. CASE ClearFailed(p)  BY <2>25 DEF ClearFailed
  <2>26. CASE RetryRead(p)  BY <2>26 DEF RetryRead
  <2>27. CASE RetryLock(p)  BY <2>27 DEF RetryLock
  <2>28. CASE RetryPublished(p)  BY <2>28 DEF RetryPublished
  <2>29. CASE RetryPublish(p)  BY <2>29 DEF RetryPublish
  <2>30. CASE Crash(p)  BY <2>30 DEF Crash
  <2> QED
    BY <1>1, <2>1, <2>2, <2>3, <2>4, <2>5, <2>6, <2>7, <2>8, <2>9, <2>10, <2>11, <2>12,
       <2>13, <2>14, <2>15, <2>16, <2>17, <2>18, <2>19, <2>20, <2>21, <2>22, <2>23,
       <2>24, <2>25, <2>26, <2>27, <2>28, <2>29, <2>30 DEF Request, Proceed, Fail
<1>2. ASSUME NEW carries \in BOOLEAN, Edit(carries)
      PROVE  TypeOK'
  BY <1>2 DEF Edit
<1> QED
  BY <1>1, <1>2 DEF Next

\* Leases.
LEMMA LeasesStep ==
    ASSUME IInv, Next
    PROVE  Leases'
<1> USE ProcAssumption, Fields, Functions DEF IInv, files, leases, local, history,
        Live, Goto, Leases, Programs, HoldsScratch, HoldsDocument, Publishing,
        HasTarget, NoWorkspace, NoTransport, Transport, NobodyRetrying, Reclaimable,
        Ready, Running, BaselineHolds, Release, CanRecord, Appended, Fault, Left,
        Spooled, Report, Torn, CanStage, HasRecovery, Fresh, Staged, CandidateHolds,
        Respooled, Unstaged, CutShort, InWindow
<1>1. ASSUME NEW p \in Proc, Request(p) \/ Proceed(p) \/ Fail(p) \/ Crash(p)
      PROVE  Leases'
  <2>1. CASE StartHost(p)  BY <2>1 DEF StartHost
  <2>2. CASE \E keep \in BOOLEAN : StopHost(p, keep)  BY <2>2 DEF StopHost
  <2>3. CASE BeginLock(p)  BY <2>3 DEF BeginLock
  <2>4. CASE BeginScratch(p)  BY <2>4 DEF BeginScratch
  <2>5. CASE BeginBusy(p)  BY <2>5 DEF BeginBusy
  <2>6. CASE BeginLoad(p)  BY <2>6 DEF BeginLoad
  <2>7. CASE BeginStale(p)  BY <2>7 DEF BeginStale
  <2>8. CASE Discard(p)  BY <2>8 DEF Discard
  <2>9. CASE WriteSnapshot(p)  BY <2>9 DEF WriteSnapshot
  <2>10. CASE RecordRecovery(p)  BY <2>10 DEF RecordRecovery
  <2>11. CASE RecordFailed(p)  BY <2>11 DEF RecordFailed
  <2>12. CASE Export(p)  BY <2>12 DEF Export
  <2>13. CASE EnterStaging(p)  BY <2>13 DEF EnterStaging
  <2>14. CASE ExportLock(p)  BY <2>14 DEF ExportLock
  <2>15. CASE WriteStage(p)  BY <2>15 DEF WriteStage
  <2>16. CASE RecheckBytes(p)  BY <2>16 DEF RecheckBytes
  <2>17. CASE Install(p)  BY <2>17 DEF Install
  <2>18. CASE StageClean(p)  BY <2>18 DEF StageClean
  <2>19. CASE InstallClean(p)  BY <2>19 DEF InstallClean
  <2>20. CASE CleanFailed(p)  BY <2>20 DEF CleanFailed
  <2>21. CASE LeaveStaging(p)  BY <2>21 DEF LeaveStaging
  <2>22. CASE Abort(p)  BY <2>22 DEF Abort
  <2>23. CASE CloseLock(p)  BY <2>23 DEF CloseLock
  <2>24. CASE ClearRecovery(p)  BY <2>24 DEF ClearRecovery
  <2>25. CASE ClearFailed(p)  BY <2>25 DEF ClearFailed
  <2>26. CASE RetryRead(p)  BY <2>26 DEF RetryRead
  <2>27. CASE RetryLock(p)  BY <2>27 DEF RetryLock
  <2>28. CASE RetryPublished(p)  BY <2>28 DEF RetryPublished
  <2>29. CASE RetryPublish(p)  BY <2>29 DEF RetryPublish
  <2>30. CASE Crash(p)  BY <2>30 DEF Crash
  <2> QED
    BY <1>1, <2>1, <2>2, <2>3, <2>4, <2>5, <2>6, <2>7, <2>8, <2>9, <2>10, <2>11, <2>12,
       <2>13, <2>14, <2>15, <2>16, <2>17, <2>18, <2>19, <2>20, <2>21, <2>22, <2>23,
       <2>24, <2>25, <2>26, <2>27, <2>28, <2>29, <2>30 DEF Request, Proceed, Fail
<1>2. ASSUME NEW carries \in BOOLEAN, Edit(carries)
      PROVE  Leases'
  BY <1>2 DEF Edit
<1> QED
  BY <1>1, <1>2 DEF Next

\* Commands.
LEMMA ProgramsStep ==
    ASSUME IInv, Next
    PROVE  Programs'
<1> USE ProcAssumption, Fields, Functions, Numbers DEF IInv, files, leases, local,
        history, Live, Goto, Leases, Programs, HoldsScratch, HoldsDocument,
        Publishing, HasTarget, NoWorkspace, NoTransport, Transport, NobodyRetrying,
        Reclaimable, Ready, Running, BaselineHolds, Release, CanRecord, Appended,
        Fault, Left, Spooled, Report, Torn, CanStage, HasRecovery, Fresh, Staged,
        CandidateHolds, Respooled, Unstaged, CutShort, InWindow
<1>1. ASSUME NEW p \in Proc, Request(p) \/ Proceed(p) \/ Fail(p) \/ Crash(p)
      PROVE  Programs'
  <2>1. CASE StartHost(p)  BY <2>1 DEF StartHost
  <2>2. CASE \E keep \in BOOLEAN : StopHost(p, keep)  BY <2>2 DEF StopHost
  <2>3. CASE BeginLock(p)  BY <2>3 DEF BeginLock
  <2>4. CASE BeginScratch(p)  BY <2>4 DEF BeginScratch
  <2>5. CASE BeginBusy(p)  BY <2>5 DEF BeginBusy
  <2>6. CASE BeginLoad(p)  BY <2>6 DEF BeginLoad
  <2>7. CASE BeginStale(p)  BY <2>7 DEF BeginStale
  <2>8. CASE Discard(p)  BY <2>8 DEF Discard
  <2>9. CASE WriteSnapshot(p)  BY <2>9 DEF WriteSnapshot
  <2>10. CASE RecordRecovery(p)  BY <2>10 DEF RecordRecovery
  <2>11. CASE RecordFailed(p)  BY <2>11 DEF RecordFailed
  <2>12. CASE Export(p)  BY <2>12 DEF Export
  <2>13. CASE EnterStaging(p)  BY <2>13 DEF EnterStaging
  <2>14. CASE ExportLock(p)  BY <2>14 DEF ExportLock
  <2>15. CASE WriteStage(p)  BY <2>15 DEF WriteStage
  <2>16. CASE RecheckBytes(p)  BY <2>16 DEF RecheckBytes
  <2>17. CASE Install(p)  BY <2>17 DEF Install
  <2>18. CASE StageClean(p)  BY <2>18 DEF StageClean
  <2>19. CASE InstallClean(p)  BY <2>19 DEF InstallClean
  <2>20. CASE CleanFailed(p)  BY <2>20 DEF CleanFailed
  <2>21. CASE LeaveStaging(p)  BY <2>21 DEF LeaveStaging
  <2>22. CASE Abort(p)  BY <2>22 DEF Abort
  <2>23. CASE CloseLock(p)  BY <2>23 DEF CloseLock
  <2>24. CASE ClearRecovery(p)  BY <2>24 DEF ClearRecovery
  <2>25. CASE ClearFailed(p)  BY <2>25 DEF ClearFailed
  <2>26. CASE RetryRead(p)  BY <2>26 DEF RetryRead
  <2>27. CASE RetryLock(p)  BY <2>27 DEF RetryLock
  <2>28. CASE RetryPublished(p)  BY <2>28 DEF RetryPublished
  <2>29. CASE RetryPublish(p)  BY <2>29 DEF RetryPublish
  <2>30. CASE Crash(p)  BY <2>30 DEF Crash
  <2> QED
    BY <1>1, <2>1, <2>2, <2>3, <2>4, <2>5, <2>6, <2>7, <2>8, <2>9, <2>10, <2>11, <2>12,
       <2>13, <2>14, <2>15, <2>16, <2>17, <2>18, <2>19, <2>20, <2>21, <2>22, <2>23,
       <2>24, <2>25, <2>26, <2>27, <2>28, <2>29, <2>30 DEF Request, Proceed, Fail
<1>2. ASSUME NEW carries \in BOOLEAN, Edit(carries)
      PROVE  Programs'
  BY <1>2 DEF Edit
<1> QED
  BY <1>1, <1>2 DEF Next

\* The file behind a transport.
LEMMA ShapesStep ==
    ASSUME IInv, Next
    PROVE  Shapes'
<1> USE ProcAssumption, Fields, Functions, Numbers DEF IInv, files, leases, local,
        history, Live, Goto, Leases, Programs, Shapes, HoldsScratch, HoldsDocument,
        Publishing, HasTarget, NoWorkspace, NoTransport, Transport, File, Absent,
        Owned, Bare, WithTail, WithRecovery, NobodyRetrying, Reclaimable, Ready,
        Running, BaselineHolds, Release, CanRecord, Appended, Fault, Left, Spooled,
        Report, Torn, CanStage, HasRecovery, Fresh, Staged, CandidateHolds,
        Respooled, Unstaged, CutShort, InWindow
<1>1. ASSUME NEW p \in Proc, Request(p) \/ Proceed(p) \/ Fail(p) \/ Crash(p)
      PROVE  Shapes'
  <2>1. CASE StartHost(p)  BY <2>1 DEF StartHost
  <2>2. CASE \E keep \in BOOLEAN : StopHost(p, keep)  BY <2>2 DEF StopHost
  <2>3. CASE BeginLock(p)  BY <2>3 DEF BeginLock
  <2>4. CASE BeginScratch(p)  BY <2>4 DEF BeginScratch
  <2>5. CASE BeginBusy(p)  BY <2>5 DEF BeginBusy
  <2>6. CASE BeginLoad(p)  BY <2>6 DEF BeginLoad
  <2>7. CASE BeginStale(p)  BY <2>7 DEF BeginStale
  <2>8. CASE Discard(p)  BY <2>8 DEF Discard
  <2>9. CASE WriteSnapshot(p)  BY <2>9 DEF WriteSnapshot
  <2>10. CASE RecordRecovery(p)  BY <2>10 DEF RecordRecovery
  <2>11. CASE RecordFailed(p)  BY <2>11 DEF RecordFailed
  <2>12. CASE Export(p)  BY <2>12 DEF Export
  <2>13. CASE EnterStaging(p)  BY <2>13 DEF EnterStaging
  <2>14. CASE ExportLock(p)  BY <2>14 DEF ExportLock
  <2>15. CASE WriteStage(p)  BY <2>15 DEF WriteStage
  <2>16. CASE RecheckBytes(p)  BY <2>16 DEF RecheckBytes
  <2>17. CASE Install(p)  BY <2>17 DEF Install
  <2>18. CASE StageClean(p)  BY <2>18 DEF StageClean
  <2>19. CASE InstallClean(p)  BY <2>19 DEF InstallClean
  <2>20. CASE CleanFailed(p)  BY <2>20 DEF CleanFailed
  <2>21. CASE LeaveStaging(p)  BY <2>21 DEF LeaveStaging
  <2>22. CASE Abort(p)  BY <2>22 DEF Abort
  <2>23. CASE CloseLock(p)  BY <2>23 DEF CloseLock
  <2>24. CASE ClearRecovery(p)  BY <2>24 DEF ClearRecovery
  <2>25. CASE ClearFailed(p)  BY <2>25 DEF ClearFailed
  <2>26. CASE RetryRead(p)  BY <2>26 DEF RetryRead
  <2>27. CASE RetryLock(p)  BY <2>27 DEF RetryLock
  <2>28. CASE RetryPublished(p)  BY <2>28 DEF RetryPublished
  <2>29. CASE RetryPublish(p)  BY <2>29 DEF RetryPublish
  <2>30. CASE Crash(p)  BY <2>30 DEF Crash
  <2> QED
    BY <1>1, <2>1, <2>2, <2>3, <2>4, <2>5, <2>6, <2>7, <2>8, <2>9, <2>10, <2>11, <2>12,
       <2>13, <2>14, <2>15, <2>16, <2>17, <2>18, <2>19, <2>20, <2>21, <2>22, <2>23,
       <2>24, <2>25, <2>26, <2>27, <2>28, <2>29, <2>30 DEF Request, Proceed, Fail
<1>2. ASSUME NEW carries \in BOOLEAN, Edit(carries)
      PROVE  Shapes'
  BY <1>2 DEF Edit
<1> QED
  BY <1>1, <1>2 DEF Next

LEMMA InvStep == IInv /\ [Next]_vars => IInv'
<1> SUFFICES ASSUME IInv, [Next]_vars PROVE IInv'
  OBVIOUS
<1>1. CASE Next
  BY <1>1, TypeStep, LeasesStep, ProgramsStep, ShapesStep DEF IInv
<1>2. CASE UNCHANGED vars
  BY <1>2 DEF vars, files, leases, local, history, IInv, TypeOK, Leases, Programs, Shapes, Live
<1> QED
  BY <1>1, <1>2

LEMMA InvHolds == Spec => []IInv
<1> QED
  BY InvInit, InvStep, PTL DEF Spec

\* Every variable keeps its type; in particular a scratch file without a header
\* never holds a recovery record, and a target is a content that was created.
THEOREM TypeCorrect == Spec => []TypeOK
<1>1. IInv => TypeOK
  BY DEF IInv
<1> QED
  BY <1>1, InvHolds, PTL

\* Two commands never publish, and no two workspaces are open, at the same time.
THEOREM Exclusion == Spec => []OneWriter
<1>1. IInv => OneWriter
  BY DEF IInv, Leases, OneWriter, Writing, HoldsDocument
<1> QED
  BY <1>1, InvHolds, PTL

\* Who changes the scratch file.
LEMMA ScratchStep ==
    ASSUME IInv, Next
    PROVE  HolderMoves
<1> USE ProcAssumption, Fields, Functions DEF IInv, files, leases, local, history,
        Live, Goto, Leases, Programs, HolderMoves, Moved, Unlinks, HoldsScratch,
        HoldsDocument, Publishing, HasTarget, NoWorkspace, NoTransport, Transport,
        NobodyRetrying, Reclaimable, Absent, Ready, Running, BaselineHolds, Release,
        CanRecord, Appended, Fault, Left, Spooled, Report, Torn, CanStage,
        HasRecovery, Fresh, Staged, CandidateHolds, Respooled, Unstaged, CutShort,
        InWindow
<1>1. ASSUME NEW p \in Proc, Request(p) \/ Proceed(p) \/ Fail(p) \/ Crash(p)
      PROVE  HolderMoves
  <2>1. CASE StartHost(p)  BY <2>1 DEF StartHost
  <2>2. CASE \E keep \in BOOLEAN : StopHost(p, keep)  BY <2>2 DEF StopHost
  <2>3. CASE BeginLock(p)  BY <2>3 DEF BeginLock
  <2>4. CASE BeginScratch(p)  BY <2>4 DEF BeginScratch
  <2>5. CASE BeginBusy(p)  BY <2>5 DEF BeginBusy
  <2>6. CASE BeginLoad(p)  BY <2>6 DEF BeginLoad
  <2>7. CASE BeginStale(p)  BY <2>7 DEF BeginStale
  <2>8. CASE Discard(p)  BY <2>8 DEF Discard
  <2>9. CASE WriteSnapshot(p)  BY <2>9 DEF WriteSnapshot
  <2>10. CASE RecordRecovery(p)  BY <2>10 DEF RecordRecovery
  <2>11. CASE RecordFailed(p)  BY <2>11 DEF RecordFailed
  <2>12. CASE Export(p)  BY <2>12 DEF Export
  <2>13. CASE EnterStaging(p)  BY <2>13 DEF EnterStaging
  <2>14. CASE ExportLock(p)  BY <2>14 DEF ExportLock
  <2>15. CASE WriteStage(p)  BY <2>15 DEF WriteStage
  <2>16. CASE RecheckBytes(p)  BY <2>16 DEF RecheckBytes
  <2>17. CASE Install(p)  BY <2>17 DEF Install
  <2>18. CASE StageClean(p)  BY <2>18 DEF StageClean
  <2>19. CASE InstallClean(p)  BY <2>19 DEF InstallClean
  <2>20. CASE CleanFailed(p)  BY <2>20 DEF CleanFailed
  <2>21. CASE LeaveStaging(p)  BY <2>21 DEF LeaveStaging
  <2>22. CASE Abort(p)  BY <2>22 DEF Abort
  <2>23. CASE CloseLock(p)  BY <2>23 DEF CloseLock
  <2>24. CASE ClearRecovery(p)  BY <2>24 DEF ClearRecovery
  <2>25. CASE ClearFailed(p)  BY <2>25 DEF ClearFailed
  <2>26. CASE RetryRead(p)  BY <2>26 DEF RetryRead
  <2>27. CASE RetryLock(p)  BY <2>27 DEF RetryLock
  <2>28. CASE RetryPublished(p)  BY <2>28 DEF RetryPublished
  <2>29. CASE RetryPublish(p)  BY <2>29 DEF RetryPublish
  <2>30. CASE Crash(p)  BY <2>30 DEF Crash
  <2> QED
    BY <1>1, <2>1, <2>2, <2>3, <2>4, <2>5, <2>6, <2>7, <2>8, <2>9, <2>10, <2>11, <2>12,
       <2>13, <2>14, <2>15, <2>16, <2>17, <2>18, <2>19, <2>20, <2>21, <2>22, <2>23,
       <2>24, <2>25, <2>26, <2>27, <2>28, <2>29, <2>30 DEF Request, Proceed, Fail
<1>2. ASSUME NEW carries \in BOOLEAN, Edit(carries)
      PROVE  HolderMoves
  BY <1>2 DEF Edit
<1> QED
  BY <1>1, <1>2 DEF Next

\* Nobody but its holder changes the scratch file while the lease is held, and
\* only the unlink of a published recovery takes and frees the lease in one step.
THEOREM ScratchExclusive == Spec => ScratchOnlyByHolder
<1>1. IInv /\ [Next]_vars => [HolderMoves]_vars
  BY ScratchStep
<1> QED
  BY <1>1, InvHolds, PTL DEF Spec, ScratchOnlyByHolder

-------------------------------------------------------------------------------
(* No reviewed snapshot is lost.                                             *)

\* Contents and what the history remembers of them.
LEMMA HistoriesStep ==
    ASSUME IInv, Histories, Next
    PROVE  Histories'
<1> USE ProcAssumption, Fields, Functions, Numbers DEF IInv, files, leases, local,
        history, Live, Goto, Leases, Programs, Histories, HoldsScratch,
        HoldsDocument, Publishing, HasTarget, NoWorkspace, NoTransport, Transport,
        NobodyRetrying, Reclaimable, Ready, Running, BaselineHolds, Release,
        CanRecord, Appended, Fault, Left, Spooled, Report, Torn, CanStage,
        HasRecovery, Fresh, Staged, CandidateHolds, Respooled, Unstaged, CutShort,
        InWindow
<1>1. ASSUME NEW p \in Proc, Request(p) \/ Proceed(p) \/ Fail(p) \/ Crash(p)
      PROVE  Histories'
  <2>1. CASE StartHost(p)  BY <2>1 DEF StartHost
  <2>2. CASE \E keep \in BOOLEAN : StopHost(p, keep)  BY <2>2 DEF StopHost
  <2>3. CASE BeginLock(p)  BY <2>3 DEF BeginLock
  <2>4. CASE BeginScratch(p)  BY <2>4 DEF BeginScratch
  <2>5. CASE BeginBusy(p)  BY <2>5 DEF BeginBusy
  <2>6. CASE BeginLoad(p)  BY <2>6 DEF BeginLoad
  <2>7. CASE BeginStale(p)  BY <2>7 DEF BeginStale
  <2>8. CASE Discard(p)  BY <2>8 DEF Discard
  <2>9. CASE WriteSnapshot(p)  BY <2>9 DEF WriteSnapshot
  <2>10. CASE RecordRecovery(p)  BY <2>10 DEF RecordRecovery
  <2>11. CASE RecordFailed(p)  BY <2>11 DEF RecordFailed
  <2>12. CASE Export(p)  BY <2>12 DEF Export
  <2>13. CASE EnterStaging(p)  BY <2>13 DEF EnterStaging
  <2>14. CASE ExportLock(p)  BY <2>14 DEF ExportLock
  <2>15. CASE WriteStage(p)  BY <2>15 DEF WriteStage
  <2>16. CASE RecheckBytes(p)  BY <2>16 DEF RecheckBytes
  <2>17. CASE Install(p)  BY <2>17 DEF Install
  <2>18. CASE StageClean(p)  BY <2>18 DEF StageClean
  <2>19. CASE InstallClean(p)  BY <2>19 DEF InstallClean
  <2>20. CASE CleanFailed(p)  BY <2>20 DEF CleanFailed
  <2>21. CASE LeaveStaging(p)  BY <2>21 DEF LeaveStaging
  <2>22. CASE Abort(p)  BY <2>22 DEF Abort
  <2>23. CASE CloseLock(p)  BY <2>23 DEF CloseLock
  <2>24. CASE ClearRecovery(p)  BY <2>24 DEF ClearRecovery
  <2>25. CASE ClearFailed(p)  BY <2>25 DEF ClearFailed
  <2>26. CASE RetryRead(p)  BY <2>26 DEF RetryRead
  <2>27. CASE RetryLock(p)  BY <2>27 DEF RetryLock
  <2>28. CASE RetryPublished(p)  BY <2>28 DEF RetryPublished
  <2>29. CASE RetryPublish(p)  BY <2>29 DEF RetryPublish
  <2>30. CASE Crash(p)  BY <2>30 DEF Crash
  <2> QED
    BY <1>1, <2>1, <2>2, <2>3, <2>4, <2>5, <2>6, <2>7, <2>8, <2>9, <2>10, <2>11, <2>12,
       <2>13, <2>14, <2>15, <2>16, <2>17, <2>18, <2>19, <2>20, <2>21, <2>22, <2>23,
       <2>24, <2>25, <2>26, <2>27, <2>28, <2>29, <2>30 DEF Request, Proceed, Fail
<1>2. ASSUME NEW carries \in BOOLEAN, Edit(carries)
      PROVE  Histories'
  BY <1>2 DEF Edit
<1> QED
  BY <1>1, <1>2 DEF Next

\* The record of what is owed.
LEMMA NoReviewedLossStep ==
    ASSUME IInv, RInv, RetryRaces = FALSE, Next
    PROVE  NoReviewedLoss'
<1>o. /\ Owed \subseteq {scratch.recovery} /\ (scratch.recovery = 0 => Owed = {})
      /\ committed' = committed /\ published' = published => Owed' = Owed
  BY Functions, Numbers DEF IInv, RInv, NoReviewedLoss, Owed
<1>k. scratch.kind \in {"absent", "bare"} => scratch.recovery = 0
  BY DEF IInv, TypeOK, Scratch, Absent, File
<1> USE <1>o, <1>k, ProcAssumption, Fields, Functions, Numbers DEF IInv, files,
        leases, local, history, Live, Goto, RInv, Leases, Programs, NoReviewedLoss,
        Owing, Histories, OwesNothing, Owed, HoldsScratch, HoldsDocument,
        Publishing, HasTarget, NoWorkspace, NoTransport, Transport, File, Absent,
        Owned, Bare, WithTail, WithRecovery, NobodyRetrying, Reclaimable, Ready,
        Running, BaselineHolds, Release, CanRecord, Appended, Fault, Left, Spooled,
        Report, Torn, CanStage, HasRecovery, Fresh, Staged, CandidateHolds,
        Respooled, Unstaged, CutShort, InWindow
<1>1. ASSUME NEW p \in Proc, Request(p) \/ Proceed(p) \/ Fail(p) \/ Crash(p)
      PROVE  NoReviewedLoss'
  <2>1. CASE StartHost(p)  BY <2>1 DEF StartHost
  <2>2. CASE \E keep \in BOOLEAN : StopHost(p, keep)  BY <2>2 DEF StopHost
  <2>3. CASE BeginLock(p)  BY <2>3 DEF BeginLock
  <2>4. CASE BeginScratch(p)  BY <2>4 DEF BeginScratch
  <2>5. CASE BeginBusy(p)  BY <2>5 DEF BeginBusy
  <2>6. CASE BeginLoad(p)  BY <2>6 DEF BeginLoad
  <2>7. CASE BeginStale(p)  BY <2>7 DEF BeginStale
  <2>8. CASE Discard(p)  BY <2>8 DEF Discard
  <2>9. CASE WriteSnapshot(p)  BY <2>9 DEF WriteSnapshot
  <2>10. CASE RecordRecovery(p)  BY <2>10 DEF RecordRecovery
  <2>11. CASE RecordFailed(p)  BY <2>11 DEF RecordFailed
  <2>12. CASE Export(p)  BY <2>12 DEF Export
  <2>13. CASE EnterStaging(p)  BY <2>13 DEF EnterStaging
  <2>14. CASE ExportLock(p)  BY <2>14 DEF ExportLock
  <2>15. CASE WriteStage(p)  BY <2>15 DEF WriteStage
  <2>16. CASE RecheckBytes(p)  BY <2>16 DEF RecheckBytes
  <2>17. CASE Install(p)
    <3>1. Owed \subseteq {target[p]}
      BY <2>17 DEF Install, Commands
    <3>2. Owed' = {}
      BY <2>17, <3>1 DEF Install, Owed
    <3> QED
      BY <2>17, <3>2, ProcAssumption, Fields, Functions DEF Install
  <2>18. CASE StageClean(p)  BY <2>18 DEF StageClean
  <2>19. CASE InstallClean(p)  BY <2>19 DEF InstallClean
  <2>20. CASE CleanFailed(p)  BY <2>20 DEF CleanFailed
  <2>21. CASE LeaveStaging(p)  BY <2>21 DEF LeaveStaging
  <2>22. CASE Abort(p)  BY <2>22 DEF Abort
  <2>23. CASE CloseLock(p)  BY <2>23 DEF CloseLock
  <2>24. CASE ClearRecovery(p)  BY <2>24 DEF ClearRecovery
  <2>25. CASE ClearFailed(p)  BY <2>25 DEF ClearFailed
  <2>26. CASE RetryRead(p)  BY <2>26 DEF RetryRead
  <2>27. CASE RetryLock(p)  BY <2>27 DEF RetryLock
  <2>28. CASE RetryPublished(p)  BY <2>28 DEF RetryPublished
  <2>29. CASE RetryPublish(p)  BY <2>29 DEF RetryPublish
  <2>30. CASE Crash(p)  BY <2>30 DEF Crash
  <2> QED
    BY <1>1, <2>1, <2>2, <2>3, <2>4, <2>5, <2>6, <2>7, <2>8, <2>9, <2>10, <2>11, <2>12,
       <2>13, <2>14, <2>15, <2>16, <2>17, <2>18, <2>19, <2>20, <2>21, <2>22, <2>23,
       <2>24, <2>25, <2>26, <2>27, <2>28, <2>29, <2>30 DEF Request, Proceed, Fail
<1>2. ASSUME NEW carries \in BOOLEAN, Edit(carries)
      PROVE  NoReviewedLoss'
  BY <1>2 DEF Edit
<1> QED
  BY <1>1, <1>2 DEF Next

\* Where nothing, or only the snapshot being published, is owed.
LEMMA OwingStep ==
    ASSUME IInv, RInv, ReuseUnpublished = FALSE, RetryRaces = FALSE, Next
    PROVE  Owing'
<1>o. /\ Owed \subseteq {scratch.recovery} /\ (scratch.recovery = 0 => Owed = {})
      /\ committed' = committed /\ published' = published => Owed' = Owed
  BY Functions, Numbers DEF IInv, RInv, NoReviewedLoss, Owed
<1>k. scratch.kind \in {"absent", "bare"} => scratch.recovery = 0
  BY DEF IInv, TypeOK, Scratch, Absent, File
<1> USE <1>o, <1>k, ProcAssumption, Fields, Functions, Numbers DEF IInv, files,
        leases, local, history, Live, Goto, RInv, Leases, Programs, NoReviewedLoss,
        Owing, Histories, OwesNothing, Owed, HoldsScratch, HoldsDocument,
        Publishing, HasTarget, NoWorkspace, NoTransport, Transport, File, Absent,
        Owned, Bare, WithTail, WithRecovery, NobodyRetrying, Reclaimable, Ready,
        Running, BaselineHolds, Release, CanRecord, Appended, Fault, Left, Spooled,
        Report, Torn, CanStage, HasRecovery, Fresh, Staged, CandidateHolds,
        Respooled, Unstaged, CutShort, InWindow
<1>1. ASSUME NEW p \in Proc, Request(p) \/ Proceed(p) \/ Fail(p) \/ Crash(p)
      PROVE  Owing'
  <2>1. CASE StartHost(p)  BY <2>1 DEF StartHost
  <2>2. CASE \E keep \in BOOLEAN : StopHost(p, keep)  BY <2>2 DEF StopHost
  <2>3. CASE BeginLock(p)  BY <2>3 DEF BeginLock
  <2>4. CASE BeginScratch(p)  BY <2>4 DEF BeginScratch
  <2>5. CASE BeginBusy(p)  BY <2>5 DEF BeginBusy
  <2>6. CASE BeginLoad(p)  BY <2>6 DEF BeginLoad
  <2>7. CASE BeginStale(p)  BY <2>7 DEF BeginStale
  <2>8. CASE Discard(p)  BY <2>8 DEF Discard
  <2>9. CASE WriteSnapshot(p)  BY <2>9 DEF WriteSnapshot
  <2>10. CASE RecordRecovery(p)  BY <2>10 DEF RecordRecovery
  <2>11. CASE RecordFailed(p)  BY <2>11 DEF RecordFailed
  <2>12. CASE Export(p)  BY <2>12 DEF Export
  <2>13. CASE EnterStaging(p)  BY <2>13 DEF EnterStaging
  <2>14. CASE ExportLock(p)  BY <2>14 DEF ExportLock
  <2>15. CASE WriteStage(p)  BY <2>15 DEF WriteStage
  <2>16. CASE RecheckBytes(p)  BY <2>16 DEF RecheckBytes
  <2>17. CASE Install(p)
    <3>1. Owed \subseteq {target[p]}
      BY <2>17 DEF Install, Commands
    <3>2. Owed' = {}
      BY <2>17, <3>1 DEF Install, Owed
    <3> QED
      BY <2>17, <3>2, ProcAssumption, Fields, Functions DEF Install
  <2>18. CASE StageClean(p)  BY <2>18 DEF StageClean
  <2>19. CASE InstallClean(p)  BY <2>19 DEF InstallClean
  <2>20. CASE CleanFailed(p)  BY <2>20 DEF CleanFailed
  <2>21. CASE LeaveStaging(p)  BY <2>21 DEF LeaveStaging
  <2>22. CASE Abort(p)  BY <2>22 DEF Abort
  <2>23. CASE CloseLock(p)  BY <2>23 DEF CloseLock
  <2>24. CASE ClearRecovery(p)  BY <2>24 DEF ClearRecovery
  <2>25. CASE ClearFailed(p)  BY <2>25 DEF ClearFailed
  <2>26. CASE RetryRead(p)  BY <2>26 DEF RetryRead
  <2>27. CASE RetryLock(p)  BY <2>27 DEF RetryLock
  <2>28. CASE RetryPublished(p)  BY <2>28 DEF RetryPublished
  <2>29. CASE RetryPublish(p)  BY <2>29 DEF RetryPublish
  <2>30. CASE Crash(p)  BY <2>30 DEF Crash
  <2> QED
    BY <1>1, <2>1, <2>2, <2>3, <2>4, <2>5, <2>6, <2>7, <2>8, <2>9, <2>10, <2>11, <2>12,
       <2>13, <2>14, <2>15, <2>16, <2>17, <2>18, <2>19, <2>20, <2>21, <2>22, <2>23,
       <2>24, <2>25, <2>26, <2>27, <2>28, <2>29, <2>30 DEF Request, Proceed, Fail
<1>2. ASSUME NEW carries \in BOOLEAN, Edit(carries)
      PROVE  Owing'
  BY <1>2 DEF Edit
<1> QED
  BY <1>1, <1>2 DEF Next

LEMMA RInvInit == Init => RInv
<1> SUFFICES ASSUME Init PROVE RInv
  OBVIOUS
<1> QED
  BY DEF Init, RInv, NoReviewedLoss, Owing, Histories, Owed

LEMMA RInvStep ==
    ASSUME ReuseUnpublished = FALSE, RetryRaces = FALSE
    PROVE  IInv /\ RInv /\ [Next]_vars => RInv'
<1> SUFFICES ASSUME IInv, RInv, [Next]_vars PROVE RInv'
  OBVIOUS
<1>1. CASE Next
  BY <1>1, HistoriesStep, NoReviewedLossStep, OwingStep DEF RInv
<1>2. CASE UNCHANGED vars
  BY <1>2 DEF vars, files, leases, local, history, RInv, NoReviewedLoss, Owing, Histories, Owed,
              OwesNothing, Live
<1> QED
  BY <1>1, <1>2

\* A snapshot whose recovery record was made durable is in the scratch file until
\* the document has held it, through every crash, I/O error, outside edit and
\* interleaving, when no host is reused while it keeps an unpublished snapshot
\* and no other command races a retry's unlocked read.
THEOREM ReviewedWorkSurvives ==
    ASSUME ReuseUnpublished = FALSE, RetryRaces = FALSE
    PROVE  Spec => []NoReviewedLoss
<1>1. RInv => NoReviewedLoss
  BY DEF RInv
<1> QED
  BY <1>1, RInvInit, RInvStep, InvHolds, PTL DEF Spec

-------------------------------------------------------------------------------
(* No update is lost.                                                        *)

\* The baseline a snapshot was reviewed against.
LEMMA BaselinesStep ==
    ASSUME IInv, UInv, EditRaces = FALSE, Next
    PROVE  Baselines'
<1> USE ProcAssumption, Fields, Functions, Numbers DEF IInv, files, leases, local,
        history, Live, Goto, UInv, Leases, Programs, Baselines, Histories,
        HoldsScratch, HoldsDocument, Publishing, HasTarget, NoWorkspace,
        NoTransport, Transport, NobodyRetrying, Reclaimable, Ready, Running,
        BaselineHolds, Release, CanRecord, Appended, Fault, Left, Spooled, Report,
        Torn, CanStage, HasRecovery, Fresh, Staged, CandidateHolds, Respooled,
        Unstaged, CutShort, InWindow
<1>1. ASSUME NEW p \in Proc, Request(p) \/ Proceed(p) \/ Fail(p) \/ Crash(p)
      PROVE  Baselines'
  <2>1. CASE StartHost(p)  BY <2>1 DEF StartHost
  <2>2. CASE \E keep \in BOOLEAN : StopHost(p, keep)  BY <2>2 DEF StopHost
  <2>3. CASE BeginLock(p)  BY <2>3 DEF BeginLock
  <2>4. CASE BeginScratch(p)  BY <2>4 DEF BeginScratch
  <2>5. CASE BeginBusy(p)  BY <2>5 DEF BeginBusy
  <2>6. CASE BeginLoad(p)  BY <2>6 DEF BeginLoad
  <2>7. CASE BeginStale(p)  BY <2>7 DEF BeginStale
  <2>8. CASE Discard(p)  BY <2>8 DEF Discard
  <2>9. CASE WriteSnapshot(p)  BY <2>9 DEF WriteSnapshot
  <2>10. CASE RecordRecovery(p)  BY <2>10 DEF RecordRecovery
  <2>11. CASE RecordFailed(p)  BY <2>11 DEF RecordFailed
  <2>12. CASE Export(p)  BY <2>12 DEF Export
  <2>13. CASE EnterStaging(p)  BY <2>13 DEF EnterStaging
  <2>14. CASE ExportLock(p)  BY <2>14 DEF ExportLock
  <2>15. CASE WriteStage(p)  BY <2>15 DEF WriteStage
  <2>16. CASE RecheckBytes(p)  BY <2>16 DEF RecheckBytes
  <2>17. CASE Install(p)  BY <2>17 DEF Install
  <2>18. CASE StageClean(p)  BY <2>18 DEF StageClean
  <2>19. CASE InstallClean(p)  BY <2>19 DEF InstallClean
  <2>20. CASE CleanFailed(p)  BY <2>20 DEF CleanFailed
  <2>21. CASE LeaveStaging(p)  BY <2>21 DEF LeaveStaging
  <2>22. CASE Abort(p)  BY <2>22 DEF Abort
  <2>23. CASE CloseLock(p)  BY <2>23 DEF CloseLock
  <2>24. CASE ClearRecovery(p)  BY <2>24 DEF ClearRecovery
  <2>25. CASE ClearFailed(p)  BY <2>25 DEF ClearFailed
  <2>26. CASE RetryRead(p)  BY <2>26 DEF RetryRead
  <2>27. CASE RetryLock(p)  BY <2>27 DEF RetryLock
  <2>28. CASE RetryPublished(p)  BY <2>28 DEF RetryPublished
  <2>29. CASE RetryPublish(p)  BY <2>29 DEF RetryPublish
  <2>30. CASE Crash(p)  BY <2>30 DEF Crash
  <2> QED
    BY <1>1, <2>1, <2>2, <2>3, <2>4, <2>5, <2>6, <2>7, <2>8, <2>9, <2>10, <2>11, <2>12,
       <2>13, <2>14, <2>15, <2>16, <2>17, <2>18, <2>19, <2>20, <2>21, <2>22, <2>23,
       <2>24, <2>25, <2>26, <2>27, <2>28, <2>29, <2>30 DEF Request, Proceed, Fail
<1>2. ASSUME NEW carries \in BOOLEAN, Edit(carries)
      PROVE  Baselines'
  BY <1>2 DEF Edit
<1> QED
  BY <1>1, <1>2 DEF Next

LEMMA UInvInit == Init => UInv
<1> SUFFICES ASSUME Init PROVE UInv
  OBVIOUS
<1> QED
  BY DEF Init, UInv, Baselines, Histories, NoWorkspace, Publishing

LEMMA UInvStep ==
    ASSUME EditRaces = FALSE
    PROVE  IInv /\ UInv /\ [Next]_vars => UInv'
<1> SUFFICES ASSUME IInv, UInv, [Next]_vars PROVE UInv'
  OBVIOUS
<1>1. CASE Next
  BY <1>1, HistoriesStep, BaselinesStep DEF UInv
<1>2. CASE UNCHANGED vars
  BY <1>2 DEF vars, files, leases, local, history, UInv, Baselines, Histories
<1> QED
  BY <1>1, <1>2


\* Which steps put a reviewed snapshot into the document.
LEMMA ReplaceStep ==
    ASSUME IInv, UInv, EditRaces = FALSE, Next
    PROVE  ReplacesReviewed
<1> USE ProcAssumption, Fields, Functions, Numbers DEF IInv, files, leases, local,
        history, Live, Goto, ReplacesReviewed, UInv, Leases, Programs, Baselines,
        Histories, HoldsScratch, HoldsDocument, Publishing, HasTarget,
        NobodyRetrying, Reclaimable, Ready, Running, BaselineHolds, Release,
        CanRecord, Appended, Fault, Left, Spooled, Report, Torn, CanStage,
        HasRecovery, Fresh, Staged, CandidateHolds, Respooled, Unstaged, CutShort,
        InWindow
<1>1. ASSUME NEW p \in Proc, Request(p) \/ Proceed(p) \/ Fail(p) \/ Crash(p)
      PROVE  ReplacesReviewed
  <2>1. CASE StartHost(p)  BY <2>1 DEF StartHost
  <2>2. CASE \E keep \in BOOLEAN : StopHost(p, keep)  BY <2>2 DEF StopHost
  <2>3. CASE BeginLock(p)  BY <2>3 DEF BeginLock
  <2>4. CASE BeginScratch(p)  BY <2>4 DEF BeginScratch
  <2>5. CASE BeginBusy(p)  BY <2>5 DEF BeginBusy
  <2>6. CASE BeginLoad(p)  BY <2>6 DEF BeginLoad
  <2>7. CASE BeginStale(p)  BY <2>7 DEF BeginStale
  <2>8. CASE Discard(p)  BY <2>8 DEF Discard
  <2>9. CASE WriteSnapshot(p)  BY <2>9 DEF WriteSnapshot
  <2>10. CASE RecordRecovery(p)  BY <2>10 DEF RecordRecovery
  <2>11. CASE RecordFailed(p)  BY <2>11 DEF RecordFailed
  <2>12. CASE Export(p)  BY <2>12 DEF Export
  <2>13. CASE EnterStaging(p)  BY <2>13 DEF EnterStaging
  <2>14. CASE ExportLock(p)  BY <2>14 DEF ExportLock
  <2>15. CASE WriteStage(p)  BY <2>15 DEF WriteStage
  <2>16. CASE RecheckBytes(p)  BY <2>16 DEF RecheckBytes
  <2>17. CASE Install(p)  BY <2>17 DEF Install
  <2>18. CASE StageClean(p)  BY <2>18 DEF StageClean
  <2>19. CASE InstallClean(p)  BY <2>19 DEF InstallClean
  <2>20. CASE CleanFailed(p)  BY <2>20 DEF CleanFailed
  <2>21. CASE LeaveStaging(p)  BY <2>21 DEF LeaveStaging
  <2>22. CASE Abort(p)  BY <2>22 DEF Abort
  <2>23. CASE CloseLock(p)  BY <2>23 DEF CloseLock
  <2>24. CASE ClearRecovery(p)  BY <2>24 DEF ClearRecovery
  <2>25. CASE ClearFailed(p)  BY <2>25 DEF ClearFailed
  <2>26. CASE RetryRead(p)  BY <2>26 DEF RetryRead
  <2>27. CASE RetryLock(p)  BY <2>27 DEF RetryLock
  <2>28. CASE RetryPublished(p)  BY <2>28 DEF RetryPublished
  <2>29. CASE RetryPublish(p)  BY <2>29 DEF RetryPublish
  <2>30. CASE Crash(p)  BY <2>30 DEF Crash
  <2> QED
    BY <1>1, <2>1, <2>2, <2>3, <2>4, <2>5, <2>6, <2>7, <2>8, <2>9, <2>10, <2>11, <2>12,
       <2>13, <2>14, <2>15, <2>16, <2>17, <2>18, <2>19, <2>20, <2>21, <2>22, <2>23,
       <2>24, <2>25, <2>26, <2>27, <2>28, <2>29, <2>30 DEF Request, Proceed, Fail
<1>2. ASSUME NEW carries \in BOOLEAN, Edit(carries)
      PROVE  ReplacesReviewed
  BY <1>2 DEF Edit
<1> QED
  BY <1>1, <1>2 DEF Next

\* A reviewed snapshot replaces only the version it was reviewed against, when no
\* editor saves between the last comparison of the bytes and the last replacement.
THEOREM NoUpdateLost ==
    ASSUME EditRaces = FALSE
    PROVE  Spec => NoLostUpdate
<1>1. IInv /\ UInv /\ [Next]_vars => [ReplacesReviewed]_vars
  BY ReplaceStep
<1> QED
  BY <1>1, UInvInit, UInvStep, InvHolds, PTL DEF Spec, NoLostUpdate

-------------------------------------------------------------------------------
(* Reports and the promise: the invariants.                                  *)

\* A snapshot whose record is being made is nowhere else yet.
Unrecorded == \A p \in Proc : pc[p] = "recording" =>
    /\ target[p] \notin committed \cup published
    /\ document.version # target[p] /\ scratch.recovery # target[p]
    /\ \A q \in Proc : host[q].spool # target[p]
    /\ \A q \in Proc \ {p} : pc[q] \in HasTarget => target[q] # target[p]

\* A save that is not installed yet is in the scratch file, and no other command
\* publishes it; what is installed was published.
Retained == \A p \in Proc :
    /\ op[p] = "save" /\ pc[p] \in {"staging", "checking", "staged", "verified"}
       => target[p] \notin published /\ scratch.recovery = target[p]
    /\ pc[p] \in {"installed", "stripping", "leaving", "closing", "clearing"}
       => target[p] \in published

\* A document that is a snapshot some record or retry names was published as it.
Recorded ==
    /\ document.version # 0 /\ document.version = scratch.recovery => document.version \in published
    /\ \A v \in committed \cup published : v < fresh
    /\ \A p \in Proc :
        /\ document.version # 0 /\ document.version = host[p].spool => document.version \in published
        /\ pc[p] \in {"retrying", "comparing"} /\ document.version = target[p]
           => document.version \in published

HInv == Unrecorded /\ Retained /\ Recorded

\* Without an append that is written but not synced, every snapshot that a
\* record or a retry names is committed, and a failed one never is.
Failures ==
    /\ \A v \in Version : outcome[v] # "none" => v < fresh
    /\ \A v \in committed \cup published : outcome[v] # "failed"
    /\ scratch.recovery # 0 => scratch.recovery \in committed
    /\ \A p \in Proc :
        /\ host[p].spool # 0 => host[p].spool \in committed
        /\ pc[p] \in HasTarget /\ op[p] # "export" /\ pc[p] # "recording" => target[p] \in committed
        /\ pc[p] \in Publishing \cup {"recording"} => outcome[target[p]] # "failed"

FInv == HInv /\ Failures

-------------------------------------------------------------------------------
\* A file without records holds no recovery record.
LEMMA BareOwesNothing ==
    ASSUME TypeOK
    PROVE  scratch.kind \notin {"owned", "torn"} => scratch.recovery = 0
BY DEF TypeOK, Scratch, Absent, File

LEMMA UnrecordedStep ==
    ASSUME IInv, HInv, Next
    PROVE  Unrecorded'
<1> USE ProcAssumption, Fields, Functions, Numbers, BareOwesNothing DEF IInv,
        HInv, Unrecorded, Retained, Recorded, files, leases, local, history, Live,
        Goto, Leases, Programs, HoldsScratch, HoldsDocument, Publishing,
        HasTarget, NoWorkspace, NoTransport, Transport, NobodyRetrying,
        Reclaimable, Absent, Ready, Running, BaselineHolds, Release, CanRecord,
        Appended, Fault, Left, Spooled, Report, Torn, CanStage, HasRecovery,
        Fresh, Staged, CandidateHolds, Respooled, Unstaged, CutShort, InWindow,
        File, Owned, Bare, WithRecovery, WithTail
<1>1. ASSUME NEW p \in Proc, Request(p) \/ Proceed(p) \/ Fail(p) \/ Crash(p)
      PROVE  Unrecorded'
  <2>1. CASE StartHost(p)  BY <2>1 DEF StartHost
  <2>2. CASE \E keep \in BOOLEAN : StopHost(p, keep)  BY <2>2 DEF StopHost
  <2>3. CASE BeginLock(p)  BY <2>3 DEF BeginLock
  <2>4. CASE BeginScratch(p)  BY <2>4 DEF BeginScratch
  <2>5. CASE BeginBusy(p)  BY <2>5 DEF BeginBusy
  <2>6. CASE BeginLoad(p)  BY <2>6 DEF BeginLoad
  <2>7. CASE BeginStale(p)  BY <2>7 DEF BeginStale
  <2>8. CASE Discard(p)  BY <2>8 DEF Discard
  <2>9. CASE WriteSnapshot(p)  BY <2>9 DEF WriteSnapshot, Shapes
  <2>10. CASE RecordRecovery(p)  BY <2>10 DEF RecordRecovery
  <2>11. CASE RecordFailed(p)  BY <2>11 DEF RecordFailed
  <2>12. CASE Export(p)  BY <2>12 DEF Export
  <2>13. CASE EnterStaging(p)  BY <2>13 DEF EnterStaging
  <2>14. CASE ExportLock(p)  BY <2>14 DEF ExportLock
  <2>15. CASE WriteStage(p)  BY <2>15 DEF WriteStage
  <2>16. CASE RecheckBytes(p)  BY <2>16 DEF RecheckBytes
  <2>17. CASE Install(p)  BY <2>17 DEF Install
  <2>18. CASE StageClean(p)  BY <2>18 DEF StageClean
  <2>19. CASE InstallClean(p)  BY <2>19 DEF InstallClean
  <2>20. CASE CleanFailed(p)  BY <2>20 DEF CleanFailed
  <2>21. CASE LeaveStaging(p)  BY <2>21 DEF LeaveStaging
  <2>22. CASE Abort(p)  BY <2>22 DEF Abort
  <2>23. CASE CloseLock(p)  BY <2>23 DEF CloseLock
  <2>24. CASE ClearRecovery(p)  BY <2>24 DEF ClearRecovery
  <2>25. CASE ClearFailed(p)  BY <2>25 DEF ClearFailed
  <2>26. CASE RetryRead(p)  BY <2>26 DEF RetryRead
  <2>27. CASE RetryLock(p)  BY <2>27 DEF RetryLock
  <2>28. CASE RetryPublished(p)  BY <2>28 DEF RetryPublished
  <2>29. CASE RetryPublish(p)  BY <2>29 DEF RetryPublish
  <2>30. CASE Crash(p)  BY <2>30 DEF Crash
  <2> QED
    BY <1>1, <2>1, <2>2, <2>3, <2>4, <2>5, <2>6, <2>7, <2>8, <2>9, <2>10, <2>11, <2>12,
       <2>13, <2>14, <2>15, <2>16, <2>17, <2>18, <2>19, <2>20, <2>21, <2>22, <2>23,
       <2>24, <2>25, <2>26, <2>27, <2>28, <2>29, <2>30 DEF Request, Proceed, Fail
<1>2. ASSUME NEW carries \in BOOLEAN, Edit(carries)
      PROVE  Unrecorded'
  BY <1>2 DEF Edit
<1> QED
  BY <1>1, <1>2 DEF Next

LEMMA RetainedStep ==
    ASSUME IInv, HInv, Next
    PROVE  Retained'
<1> USE ProcAssumption, Fields, Functions, Numbers, BareOwesNothing DEF IInv,
        HInv, Unrecorded, Retained, Recorded, files, leases, local, history, Live,
        Goto, Leases, Programs, HoldsScratch, HoldsDocument, Publishing,
        HasTarget, NoWorkspace, NoTransport, Transport, NobodyRetrying,
        Reclaimable, Absent, Ready, Running, BaselineHolds, Release, CanRecord,
        Appended, Fault, Left, Spooled, Report, Torn, CanStage, HasRecovery,
        Fresh, Staged, CandidateHolds, Respooled, Unstaged, CutShort, InWindow,
        File, Owned, Bare, WithRecovery, WithTail
<1>1. ASSUME NEW p \in Proc, Request(p) \/ Proceed(p) \/ Fail(p) \/ Crash(p)
      PROVE  Retained'
  <2>1. CASE StartHost(p)  BY <2>1 DEF StartHost
  <2>2. CASE \E keep \in BOOLEAN : StopHost(p, keep)  BY <2>2 DEF StopHost
  <2>3. CASE BeginLock(p)  BY <2>3 DEF BeginLock
  <2>4. CASE BeginScratch(p)  BY <2>4 DEF BeginScratch
  <2>5. CASE BeginBusy(p)  BY <2>5 DEF BeginBusy
  <2>6. CASE BeginLoad(p)  BY <2>6 DEF BeginLoad
  <2>7. CASE BeginStale(p)  BY <2>7 DEF BeginStale
  <2>8. CASE Discard(p)  BY <2>8 DEF Discard
  <2>9. CASE WriteSnapshot(p)  BY <2>9 DEF WriteSnapshot
  <2>10. CASE RecordRecovery(p)  BY <2>10 DEF RecordRecovery
  <2>11. CASE RecordFailed(p)  BY <2>11 DEF RecordFailed
  <2>12. CASE Export(p)  BY <2>12 DEF Export
  <2>13. CASE EnterStaging(p)  BY <2>13 DEF EnterStaging
  <2>14. CASE ExportLock(p)  BY <2>14 DEF ExportLock
  <2>15. CASE WriteStage(p)  BY <2>15 DEF WriteStage
  <2>16. CASE RecheckBytes(p)  BY <2>16 DEF RecheckBytes
  <2>17. CASE Install(p)  BY <2>17 DEF Install
  <2>18. CASE StageClean(p)  BY <2>18 DEF StageClean
  <2>19. CASE InstallClean(p)  BY <2>19 DEF InstallClean
  <2>20. CASE CleanFailed(p)  BY <2>20 DEF CleanFailed
  <2>21. CASE LeaveStaging(p)  BY <2>21 DEF LeaveStaging
  <2>22. CASE Abort(p)  BY <2>22 DEF Abort
  <2>23. CASE CloseLock(p)  BY <2>23 DEF CloseLock
  <2>24. CASE ClearRecovery(p)  BY <2>24 DEF ClearRecovery
  <2>25. CASE ClearFailed(p)  BY <2>25 DEF ClearFailed
  <2>26. CASE RetryRead(p)  BY <2>26 DEF RetryRead
  <2>27. CASE RetryLock(p)  BY <2>27 DEF RetryLock
  <2>28. CASE RetryPublished(p)  BY <2>28 DEF RetryPublished
  <2>29. CASE RetryPublish(p)  BY <2>29 DEF RetryPublish
  <2>30. CASE Crash(p)  BY <2>30 DEF Crash
  <2> QED
    BY <1>1, <2>1, <2>2, <2>3, <2>4, <2>5, <2>6, <2>7, <2>8, <2>9, <2>10, <2>11, <2>12,
       <2>13, <2>14, <2>15, <2>16, <2>17, <2>18, <2>19, <2>20, <2>21, <2>22, <2>23,
       <2>24, <2>25, <2>26, <2>27, <2>28, <2>29, <2>30 DEF Request, Proceed, Fail
<1>2. ASSUME NEW carries \in BOOLEAN, Edit(carries)
      PROVE  Retained'
  BY <1>2 DEF Edit
<1> QED
  BY <1>1, <1>2 DEF Next

LEMMA RecordedStep ==
    ASSUME IInv, HInv, Next
    PROVE  Recorded'
<1> USE ProcAssumption, Fields, Functions, Numbers, BareOwesNothing DEF IInv,
        HInv, Unrecorded, Retained, Recorded, files, leases, local, history, Live,
        Goto, Leases, Programs, HoldsScratch, HoldsDocument, Publishing,
        HasTarget, NoWorkspace, NoTransport, Transport, NobodyRetrying,
        Reclaimable, Absent, Ready, Running, BaselineHolds, Release, CanRecord,
        Appended, Fault, Left, Spooled, Report, Torn, CanStage, HasRecovery,
        Fresh, Staged, CandidateHolds, Respooled, Unstaged, CutShort, InWindow,
        File, Owned, Bare, WithRecovery, WithTail
<1>1. ASSUME NEW p \in Proc, Request(p) \/ Proceed(p) \/ Fail(p) \/ Crash(p)
      PROVE  Recorded'
  <2>1. CASE StartHost(p)  BY <2>1 DEF StartHost
  <2>2. CASE \E keep \in BOOLEAN : StopHost(p, keep)  BY <2>2 DEF StopHost
  <2>3. CASE BeginLock(p)  BY <2>3 DEF BeginLock
  <2>4. CASE BeginScratch(p)  BY <2>4 DEF BeginScratch
  <2>5. CASE BeginBusy(p)  BY <2>5 DEF BeginBusy
  <2>6. CASE BeginLoad(p)  BY <2>6 DEF BeginLoad
  <2>7. CASE BeginStale(p)  BY <2>7 DEF BeginStale
  <2>8. CASE Discard(p)  BY <2>8 DEF Discard
  <2>9. CASE WriteSnapshot(p)  BY <2>9 DEF WriteSnapshot
  <2>10. CASE RecordRecovery(p)  BY <2>10 DEF RecordRecovery
  <2>11. CASE RecordFailed(p)  BY <2>11 DEF RecordFailed
  <2>12. CASE Export(p)  BY <2>12 DEF Export
  <2>13. CASE EnterStaging(p)  BY <2>13 DEF EnterStaging
  <2>14. CASE ExportLock(p)  BY <2>14 DEF ExportLock
  <2>15. CASE WriteStage(p)  BY <2>15 DEF WriteStage
  <2>16. CASE RecheckBytes(p)  BY <2>16 DEF RecheckBytes
  <2>17. CASE Install(p)  BY <2>17 DEF Install
  <2>18. CASE StageClean(p)  BY <2>18 DEF StageClean
  <2>19. CASE InstallClean(p)  BY <2>19 DEF InstallClean
  <2>20. CASE CleanFailed(p)  BY <2>20 DEF CleanFailed
  <2>21. CASE LeaveStaging(p)  BY <2>21 DEF LeaveStaging
  <2>22. CASE Abort(p)  BY <2>22 DEF Abort
  <2>23. CASE CloseLock(p)  BY <2>23 DEF CloseLock
  <2>24. CASE ClearRecovery(p)  BY <2>24 DEF ClearRecovery
  <2>25. CASE ClearFailed(p)  BY <2>25 DEF ClearFailed
  <2>26. CASE RetryRead(p)  BY <2>26 DEF RetryRead
  <2>27. CASE RetryLock(p)  BY <2>27 DEF RetryLock
  <2>28. CASE RetryPublished(p)  BY <2>28 DEF RetryPublished
  <2>29. CASE RetryPublish(p)  BY <2>29 DEF RetryPublish
  <2>30. CASE Crash(p)  BY <2>30 DEF Crash
  <2> QED
    BY <1>1, <2>1, <2>2, <2>3, <2>4, <2>5, <2>6, <2>7, <2>8, <2>9, <2>10, <2>11, <2>12,
       <2>13, <2>14, <2>15, <2>16, <2>17, <2>18, <2>19, <2>20, <2>21, <2>22, <2>23,
       <2>24, <2>25, <2>26, <2>27, <2>28, <2>29, <2>30 DEF Request, Proceed, Fail
<1>2. ASSUME NEW carries \in BOOLEAN, Edit(carries)
      PROVE  Recorded'
  BY <1>2 DEF Edit, Shapes
<1> QED
  BY <1>1, <1>2 DEF Next

LEMMA HInvInit == Init => HInv
<1> SUFFICES ASSUME Init PROVE HInv
  OBVIOUS
<1> QED
  BY DEF Init, HInv, Unrecorded, Retained, Recorded, HasTarget, Publishing, Absent, File, NoTransport

LEMMA HInvStep == IInv /\ HInv /\ [Next]_vars => HInv'
<1> SUFFICES ASSUME IInv, HInv, [Next]_vars PROVE HInv'
  OBVIOUS
<1>1. CASE Next
  BY <1>1, UnrecordedStep, RetainedStep, RecordedStep DEF HInv
<1>2. CASE UNCHANGED vars
  BY <1>2 DEF vars, files, leases, local, history, HInv, Unrecorded, Retained, Recorded
<1> QED
  BY <1>1, <1>2

-------------------------------------------------------------------------------
(* Reports.                                                                  *)

\* What a step reports of a snapshot.
ReportsOf(v) == outcome'[v] # outcome[v] =>
    /\ outcome'[v] = "written" => v \in published
    /\ outcome'[v] # "written" => v \notin published
    /\ outcome'[v] = "unpublished" =>
          /\ scratch'.recovery = v
          /\ scratch.kind # "torn" => HasRecovery'

LEMMA ReportStep ==
    ASSUME IInv, HInv, NEW v \in Version, Next
    PROVE  ReportsOf(v)
<1> USE ProcAssumption, Fields, Functions, Numbers, BareOwesNothing DEF IInv,
        TypeOK, ReportsOf, HInv, Unrecorded, Retained, Recorded, files, leases,
        local, history, Live, Goto, Leases, Programs, HoldsScratch, HoldsDocument,
        Publishing, HasTarget, NoWorkspace, NoTransport, Transport,
        NobodyRetrying, Reclaimable, Absent, Ready, Running, BaselineHolds,
        Release, CanRecord, Appended, Fault, Left, Spooled, Report, Torn,
        CanStage, HasRecovery, Fresh, Staged, CandidateHolds, Respooled, Unstaged,
        CutShort, InWindow, File, Owned, Bare, WithRecovery, WithTail
<1>1. ASSUME NEW p \in Proc, Request(p) \/ Proceed(p) \/ Fail(p) \/ Crash(p)
      PROVE  ReportsOf(v)
  <2>1. CASE StartHost(p)  BY <2>1 DEF StartHost
  <2>2. CASE \E keep \in BOOLEAN : StopHost(p, keep)  BY <2>2 DEF StopHost
  <2>3. CASE BeginLock(p)  BY <2>3 DEF BeginLock
  <2>4. CASE BeginScratch(p)  BY <2>4 DEF BeginScratch
  <2>5. CASE BeginBusy(p)  BY <2>5 DEF BeginBusy
  <2>6. CASE BeginLoad(p)  BY <2>6 DEF BeginLoad
  <2>7. CASE BeginStale(p)  BY <2>7 DEF BeginStale
  <2>8. CASE Discard(p)  BY <2>8 DEF Discard
  <2>9. CASE WriteSnapshot(p)  BY <2>9 DEF WriteSnapshot
  <2>10. CASE RecordRecovery(p)  BY <2>10 DEF RecordRecovery
  <2>11. CASE RecordFailed(p)  BY <2>11 DEF RecordFailed
  <2>12. CASE Export(p)  BY <2>12 DEF Export
  <2>13. CASE EnterStaging(p)  BY <2>13 DEF EnterStaging
  <2>14. CASE ExportLock(p)  BY <2>14 DEF ExportLock
  <2>15. CASE WriteStage(p)  BY <2>15 DEF WriteStage
  <2>16. CASE RecheckBytes(p)  BY <2>16 DEF RecheckBytes
  <2>17. CASE Install(p)  BY <2>17 DEF Install
  <2>18. CASE StageClean(p)  BY <2>18 DEF StageClean
  <2>19. CASE InstallClean(p)  BY <2>19 DEF InstallClean
  <2>20. CASE CleanFailed(p)  BY <2>20 DEF CleanFailed
  <2>21. CASE LeaveStaging(p)  BY <2>21 DEF LeaveStaging
  <2>22. CASE Abort(p)  BY <2>22 DEF Abort
  <2>23. CASE CloseLock(p)  BY <2>23 DEF CloseLock
  <2>24. CASE ClearRecovery(p)  BY <2>24 DEF ClearRecovery
  <2>25. CASE ClearFailed(p)  BY <2>25 DEF ClearFailed
  <2>26. CASE RetryRead(p)  BY <2>26 DEF RetryRead
  <2>27. CASE RetryLock(p)  BY <2>27 DEF RetryLock
  <2>28. CASE RetryPublished(p)  BY <2>28 DEF RetryPublished
  <2>29. CASE RetryPublish(p)  BY <2>29 DEF RetryPublish
  <2>30. CASE Crash(p)  BY <2>30 DEF Crash
  <2> QED
    BY <1>1, <2>1, <2>2, <2>3, <2>4, <2>5, <2>6, <2>7, <2>8, <2>9, <2>10, <2>11, <2>12,
       <2>13, <2>14, <2>15, <2>16, <2>17, <2>18, <2>19, <2>20, <2>21, <2>22, <2>23,
       <2>24, <2>25, <2>26, <2>27, <2>28, <2>29, <2>30 DEF Request, Proceed, Fail
<1>2. ASSUME NEW carries \in BOOLEAN, Edit(carries)
      PROVE  ReportsOf(v)
  BY <1>2 DEF Edit
<1> QED
  BY <1>1, <1>2 DEF Next

\* A save is reported unpublished only while the document has never held the
\* snapshot and the scratch file ends on its record, readable unless a record in it was
\* cut short before, and written only when the document has held it: in every
\* interleaving, with every fault, race and reuse.
THEOREM ReportsHold == Spec => ReportsTrue
<1>1. IInv /\ HInv /\ [Next]_vars => [\A v \in Version : ReportsOf(v)]_vars
  BY ReportStep
<1> QED
  BY <1>1, HInvInit, HInvStep, InvHolds, PTL DEF Spec, ReportsTrue, ReportsOf

-------------------------------------------------------------------------------
(* Failed saves.                                                             *)

LEMMA FailuresStep ==
    ASSUME IInv, FInv, "unsynced" \notin IOFaults, Next
    PROVE  Failures'
<1> USE ProcAssumption, Fields, Functions, Numbers, BareOwesNothing DEF IInv,
        TypeOK, FInv, Failures, HInv, Unrecorded, Retained, Recorded, files,
        leases, local, history, Live, Goto, Leases, Programs, HoldsScratch,
        HoldsDocument, Publishing, HasTarget, NoWorkspace, NoTransport, Transport,
        NobodyRetrying, Reclaimable, Absent, Ready, Running, BaselineHolds,
        Release, CanRecord, Appended, Fault, Left, Spooled, Report, Torn,
        CanStage, HasRecovery, Fresh, Staged, CandidateHolds, Respooled, Unstaged,
        CutShort, InWindow, File, Owned, Bare, WithRecovery, WithTail
<1>1. ASSUME NEW p \in Proc, Request(p) \/ Proceed(p) \/ Fail(p) \/ Crash(p)
      PROVE  Failures'
  <2>1. CASE StartHost(p)  BY <2>1 DEF StartHost
  <2>2. CASE \E keep \in BOOLEAN : StopHost(p, keep)  BY <2>2 DEF StopHost
  <2>3. CASE BeginLock(p)  BY <2>3 DEF BeginLock
  <2>4. CASE BeginScratch(p)  BY <2>4 DEF BeginScratch
  <2>5. CASE BeginBusy(p)  BY <2>5 DEF BeginBusy
  <2>6. CASE BeginLoad(p)  BY <2>6 DEF BeginLoad
  <2>7. CASE BeginStale(p)  BY <2>7 DEF BeginStale
  <2>8. CASE Discard(p)  BY <2>8 DEF Discard
  <2>9. CASE WriteSnapshot(p)  BY <2>9 DEF WriteSnapshot, Shapes
  <2>10. CASE RecordRecovery(p)  BY <2>10 DEF RecordRecovery
  <2>11. CASE RecordFailed(p)  BY <2>11, FaultAssumption DEF RecordFailed
  <2>12. CASE Export(p)  BY <2>12 DEF Export, Shapes
  <2>13. CASE EnterStaging(p)  BY <2>13 DEF EnterStaging
  <2>14. CASE ExportLock(p)  BY <2>14 DEF ExportLock
  <2>15. CASE WriteStage(p)  BY <2>15 DEF WriteStage
  <2>16. CASE RecheckBytes(p)  BY <2>16 DEF RecheckBytes
  <2>17. CASE Install(p)  BY <2>17 DEF Install
  <2>18. CASE StageClean(p)  BY <2>18 DEF StageClean
  <2>19. CASE InstallClean(p)  BY <2>19 DEF InstallClean
  <2>20. CASE CleanFailed(p)  BY <2>20 DEF CleanFailed
  <2>21. CASE LeaveStaging(p)  BY <2>21 DEF LeaveStaging
  <2>22. CASE Abort(p)  BY <2>22 DEF Abort
  <2>23. CASE CloseLock(p)  BY <2>23 DEF CloseLock
  <2>24. CASE ClearRecovery(p)  BY <2>24 DEF ClearRecovery
  <2>25. CASE ClearFailed(p)  BY <2>25 DEF ClearFailed
  <2>26. CASE RetryRead(p)  BY <2>26 DEF RetryRead
  <2>27. CASE RetryLock(p)  BY <2>27 DEF RetryLock
  <2>28. CASE RetryPublished(p)  BY <2>28 DEF RetryPublished
  <2>29. CASE RetryPublish(p)  BY <2>29 DEF RetryPublish
  <2>30. CASE Crash(p)  BY <2>30 DEF Crash
  <2> QED
    BY <1>1, <2>1, <2>2, <2>3, <2>4, <2>5, <2>6, <2>7, <2>8, <2>9, <2>10, <2>11, <2>12,
       <2>13, <2>14, <2>15, <2>16, <2>17, <2>18, <2>19, <2>20, <2>21, <2>22, <2>23,
       <2>24, <2>25, <2>26, <2>27, <2>28, <2>29, <2>30 DEF Request, Proceed, Fail
<1>2. ASSUME NEW carries \in BOOLEAN, Edit(carries)
      PROVE  Failures'
  BY <1>2 DEF Edit
<1> QED
  BY <1>1, <1>2 DEF Next

LEMMA FInvInit == Init => FInv
<1> SUFFICES ASSUME Init PROVE FInv
  OBVIOUS
<1> QED
  BY HInvInit DEF Init, FInv, Failures, HasTarget, Publishing, Absent, File, NoTransport

LEMMA FInvStep ==
    ASSUME "unsynced" \notin IOFaults
    PROVE  IInv /\ FInv /\ [Next]_vars => FInv'
<1> SUFFICES ASSUME IInv, FInv, [Next]_vars PROVE FInv'
  OBVIOUS
<1>1. CASE Next
  BY <1>1, HInvStep, FailuresStep DEF FInv
<1>2. CASE UNCHANGED vars
  BY <1>2, HInvStep DEF vars, files, leases, local, history, FInv, Failures
<1> QED
  BY <1>1, <1>2

\* A snapshot whose save was reported failed never becomes the document, neither
\* by that save nor by any retry, host or export, when no append is written
\* whole and then refused by fsync.
THEOREM FailedStaysOut ==
    ASSUME "unsynced" \notin IOFaults
    PROVE  Spec => []FailedNeverPublished
<1>1. FInv => FailedNeverPublished
  BY DEF FInv, Failures, FailedNeverPublished
<1> QED
  BY <1>1, FInvInit, FInvStep, InvHolds, PTL DEF Spec

-------------------------------------------------------------------------------
(* A candidate without records.                                              *)

\* A candidate left without any header is never the only copy of a reviewed
\* snapshot, when no host is reused while it keeps an unpublished snapshot and no
\* other command races a retry's unlocked read.
THEOREM CandidateIsNoOnlyCopy ==
    ASSUME ReuseUnpublished = FALSE, RetryRaces = FALSE
    PROVE  Spec => []BareCandidateIsPublished
<1>1. IInv /\ RInv => BareCandidateIsPublished
  <2> SUFFICES ASSUME IInv, RInv, scratch.kind = "bare", scratch.tail \in committed,
                      scratch.tail \notin published
               PROVE  FALSE
    BY DEF BareCandidateIsPublished
  <2>1. scratch.recovery = 0 /\ 0 \notin Version
    BY BareOwesNothing, Numbers DEF IInv
  <2>2. scratch.tail \in Version /\ scratch.recovery = scratch.tail
    BY Functions DEF IInv, RInv, NoReviewedLoss, Owed
  <2> QED
    BY <2>1, <2>2
<1> QED
  BY <1>1, RInvInit, RInvStep, InvHolds, PTL DEF Spec

-------------------------------------------------------------------------------
(* The refinement.  What the promise sees changes in three kinds of steps.   *)

Quiet == /\ document'.version = document.version
         /\ committed' = committed /\ published' = published
         /\ \A v \in committed : reviewed'[v].parent = reviewed[v].parent
Notable == \/ \E p \in Proc : RecordRecovery(p) \/ Install(p)
           \/ \E carries \in BOOLEAN : Edit(carries)

LEMMA QuietStep ==
    ASSUME IInv, UInv, Next
    PROVE  Quiet \/ Notable
<1> USE Functions, Numbers DEF IInv, UInv, Baselines, Histories, Quiet, Notable,
        files, leases, local, history, Report
<1>1. ASSUME NEW p \in Proc, Request(p) \/ Proceed(p) \/ Fail(p) \/ Crash(p)
      PROVE  Quiet \/ Notable
  <2>1. CASE StartHost(p)  BY <2>1 DEF StartHost
  <2>2. CASE \E keep \in BOOLEAN : StopHost(p, keep)  BY <2>2 DEF StopHost
  <2>3. CASE BeginLock(p)  BY <2>3 DEF BeginLock
  <2>4. CASE BeginScratch(p)  BY <2>4 DEF BeginScratch
  <2>5. CASE BeginBusy(p)  BY <2>5 DEF BeginBusy
  <2>6. CASE BeginLoad(p)  BY <2>6 DEF BeginLoad
  <2>7. CASE BeginStale(p)  BY <2>7 DEF BeginStale
  <2>8. CASE Discard(p)  BY <2>8 DEF Discard
  <2>9. CASE WriteSnapshot(p)  BY <2>9 DEF WriteSnapshot
  <2>10. CASE RecordRecovery(p)  BY <2>10 DEF RecordRecovery
  <2>11. CASE RecordFailed(p)  BY <2>11 DEF RecordFailed
  <2>12. CASE Export(p)  BY <2>12 DEF Export
  <2>13. CASE EnterStaging(p)  BY <2>13 DEF EnterStaging
  <2>14. CASE ExportLock(p)  BY <2>14 DEF ExportLock
  <2>15. CASE WriteStage(p)  BY <2>15 DEF WriteStage
  <2>16. CASE RecheckBytes(p)  BY <2>16 DEF RecheckBytes
  <2>17. CASE Install(p)  BY <2>17 DEF Install
  <2>18. CASE StageClean(p)  BY <2>18 DEF StageClean
  <2>19. CASE InstallClean(p)  BY <2>19 DEF InstallClean
  <2>20. CASE CleanFailed(p)  BY <2>20 DEF CleanFailed
  <2>21. CASE LeaveStaging(p)  BY <2>21 DEF LeaveStaging
  <2>22. CASE Abort(p)  BY <2>22 DEF Abort
  <2>23. CASE CloseLock(p)  BY <2>23 DEF CloseLock
  <2>24. CASE ClearRecovery(p)  BY <2>24 DEF ClearRecovery
  <2>25. CASE ClearFailed(p)  BY <2>25 DEF ClearFailed
  <2>26. CASE RetryRead(p)  BY <2>26 DEF RetryRead
  <2>27. CASE RetryLock(p)  BY <2>27 DEF RetryLock
  <2>28. CASE RetryPublished(p)  BY <2>28 DEF RetryPublished
  <2>29. CASE RetryPublish(p)  BY <2>29 DEF RetryPublish
  <2>30. CASE Crash(p)  BY <2>30 DEF Crash
  <2> QED
    BY <1>1, <2>1, <2>2, <2>3, <2>4, <2>5, <2>6, <2>7, <2>8, <2>9, <2>10, <2>11, <2>12,
       <2>13, <2>14, <2>15, <2>16, <2>17, <2>18, <2>19, <2>20, <2>21, <2>22, <2>23,
       <2>24, <2>25, <2>26, <2>27, <2>28, <2>29, <2>30 DEF Request, Proceed, Fail
<1>2. ASSUME NEW carries \in BOOLEAN, Edit(carries)
      PROVE  Quiet \/ Notable
  BY <1>2 DEF Edit
<1> QED
  BY <1>1, <1>2 DEF Next

\* The snapshots the promise is said to owe are all that are owed, and parents.
LEMMA Mapping ==
    ASSUME NoReviewedLoss
    PROVE  {v \in Owed : scratch.recovery = v} = Owed
BY DEF NoReviewedLoss

Parents == [v \in Version |-> IF v \in committed THEN reviewed[v].parent ELSE 0]

\* Every step is a step of the promise, or one the promise does not see.
LEMMA PromiseStep ==
    ASSUME ReuseUnpublished = FALSE, RetryRaces = FALSE, EditRaces = FALSE,
           IInv, RInv, UInv, HInv, RInv', Next
    PROVE  Promise!Next \/ UNCHANGED Promise!vars
<1>o. /\ {v \in Owed : scratch.recovery = v} = Owed
      /\ {v \in Owed : scratch.recovery = v}' = Owed'
  BY Mapping DEF RInv, NoReviewedLoss
<1>c. committed \subseteq Version /\ published \subseteq Version
  BY Functions DEF IInv
<1>1. CASE Quiet
  <2>1. Owed' = Owed /\ Parents' = Parents
    BY <1>1 DEF Quiet, Owed, Parents
  <2> QED
    BY <1>1, <1>o, <2>1 DEF Quiet, Promise!vars, Parents
<1>2. ASSUME NEW p \in Proc, RecordRecovery(p)
      PROVE  Promise!Next
  <2>1. /\ target[p] \in Version /\ target[p] \notin published
        /\ committed' = committed \cup {target[p]} /\ published' = published
        /\ document' = document /\ reviewed' = reviewed
    BY <1>2 DEF RecordRecovery, IInv, Programs, HasTarget, HInv, Unrecorded
  <2>2. Owed = {}
    BY <1>2 DEF RecordRecovery, RInv, Owing, OwesNothing
  <2>3. Owed' = {target[p]}
    BY <2>1, <2>2 DEF Owed
  <2>4. Parents' = [Parents EXCEPT ![target[p]] = reviewed[target[p]].parent]
    BY <2>1 DEF Parents
  <2>5. reviewed[target[p]].parent \in Version \cup {0}
    BY <2>1, Fields, Numbers DEF IInv
  <2>6. Promise!Accept(target[p], reviewed[target[p]].parent)
    BY <1>o, <2>1, <2>2, <2>3, <2>4 DEF Promise!Accept, Parents
  <2> QED
    BY <2>1, <2>5, <2>6 DEF Promise!Next, Promise!Accept
<1>3. ASSUME NEW p \in Proc, Install(p)
      PROVE  Promise!Next
  <2>1. /\ target[p] \in Version /\ document'.version = target[p]
        /\ committed' = committed /\ published' = published \cup {target[p]}
        /\ reviewed' = reviewed
    BY <1>3 DEF Install, IInv, Programs, HasTarget, Publishing, history
  <2>2. Parents' = Parents /\ Owed' = Owed \ {target[p]}
    BY <2>1 DEF Parents, Owed
  <2>3. CASE target[p] \in Owed
    <3>1. document.version = reviewed[target[p]].parent /\ target[p] \in committed
      BY <1>3, <2>1, <2>3 DEF Install, UInv, Baselines, Publishing, Owed
    <3>2. Promise!Publish(target[p])
      BY <1>o, <2>1, <2>2, <2>3, <3>1 DEF Promise!Publish, Parents
    <3> QED
      BY <2>1, <3>2 DEF Promise!Next, Promise!Publish
  <2>4. CASE target[p] \notin Owed
    <3>1. Promise!Replace(target[p])
      BY <1>o, <2>1, <2>2, <2>4 DEF Promise!Replace, Parents
    <3> QED
      BY <2>1, <3>1 DEF Promise!Next
  <2> QED
    BY <2>3, <2>4
<1>4. ASSUME NEW carries \in BOOLEAN, Edit(carries)
      PROVE  Promise!Next
  <2>1. /\ fresh \in Version /\ fresh \notin committed /\ document'.version = fresh
        /\ committed' = committed /\ published' = published /\ reviewed' = reviewed
    BY <1>4, Numbers DEF Edit, IInv, RInv, Histories, history
  <2>2. Owed' = Owed /\ Parents' = Parents /\ fresh \notin Owed
    BY <2>1 DEF Owed, Parents
  <2>3. Promise!Replace(fresh)
    BY <1>o, <2>1, <2>2 DEF Promise!Replace, Parents
  <2> QED
    BY <2>1, <2>3 DEF Promise!Next
<1> QED
  BY <1>1, <1>2, <1>3, <1>4, QuietStep DEF Notable

LEMMA PromiseInit == Init => Promise!Init
BY DEF Init, Promise!Init, Owed

\* Files, leases, crashes and retries implement the promise of one document: a
\* durable snapshot is owed until the document becomes it, which it does only
\* from the version the snapshot was reviewed against.
THEOREM PublicationKeepsPromise ==
    ASSUME ReuseUnpublished = FALSE, RetryRaces = FALSE, EditRaces = FALSE
    PROVE  Spec => PromiseKept
<1>1. /\ IInv /\ RInv /\ [Next]_vars => RInv'
      /\ IInv /\ UInv /\ [Next]_vars => UInv'
      /\ IInv /\ HInv /\ [Next]_vars => HInv'
  BY RInvStep, UInvStep, HInvStep
<1>2. IInv /\ RInv /\ UInv /\ HInv /\ [Next]_vars => [Promise!Next]_(Promise!vars)
  <2> SUFFICES ASSUME IInv, RInv, UInv, HInv, [Next]_vars
               PROVE  Promise!Next \/ UNCHANGED Promise!vars
    OBVIOUS
  <2>1. CASE Next
    BY <1>1, <2>1, PromiseStep
  <2>2. CASE UNCHANGED vars
    BY <2>2 DEF vars, files, leases, local, history, Promise!vars, Owed
  <2> QED
    BY <2>1, <2>2
<1> QED
  BY <1>1, <1>2, InvHolds, RInvInit, UInvInit, HInvInit, PromiseInit, PTL
     DEF Spec, PromiseKept, Promise!Spec
===============================================================================
