------------------------------ MODULE FramedLog ------------------------------
(***************************************************************************)
(* How requests reach the NDJSON engine and how its answers come back, when*)
(* the host works through ndjson_log.py: a request goes in short frames    *)
(* with a checksum of it (FramedInput); records go to a hidden file that a *)
(* publication moves away and writes anew (ResponseTransport), and another *)
(* process polls that file (read_responses).                               *)
(*                                                                         *)
(* A checksum is what it is the checksum of.  A record is two pieces, of   *)
(* which the second ends the line, so that a reader may find one piece.    *)
(***************************************************************************)
EXTENDS Naturals, Sequences, FiniteSets, SequencesExt

CONSTANTS
    Request,         \* requests, as the sequences of fragments that are sent of them
    Saves,           \* the requests that publish the document
    MaxSent,         \* bound on the requests that are sent
    MaxFaults        \* bound on the frames that are lost, repeated or damaged

\* A checksum that is damaged is the checksum of nothing: "no digest" stands for it.
ASSUME RequestAssumption ==
    \A r \in Request : /\ Len(r) \in Nat /\ r = [i \in 1 .. Len(r) |-> r[i]]
                       /\ \A i \in 1 .. Len(r) : r[i] # "no digest"

VARIABLES
    wire,            \* frames on their way
    faults,          \* how many frames have been tampered with
    parts,           \* FramedInput: the fragments since the begin frame, if there was one
    todo,            \* what the engine still does for a request or an error, as steps
    file,            \* the pieces in the response file, if it is there
    spool,           \* the records in the transport's spool
    window,          \* the scratch-io lease is held by a publication
    offset, received,\* of the reader: the next offset, and the responses it was given
    (* History, never read by an action's guard, except for the bound on sent. *)
    sent, dispatched

host   == <<parts, todo, file, spool, window, dispatched>>
reader == <<offset, received>>
vars   == <<wire, faults, host, reader, sent>>

Header    == [kind |-> "header"]
Recovery  == [kind |-> "recovery"]
Error     == [kind |-> "response", of |-> <<>>]
Answer(r) == [kind |-> "response", of |-> r]
Pieces(records) == [i \in 1 .. 2 * Len(records) |-> [record |-> records[(i + 1) \div 2], ends |-> i % 2 = 0]]

Init == /\ wire = <<>> /\ faults = 0 /\ parts = {} /\ todo = <<>>
        /\ file = {Pieces(<<Header>>)} /\ spool = <<Header>> /\ window = FALSE
        /\ offset = 0 /\ received = <<>> /\ sent = <<>> /\ dispatched = <<>>

-----------------------------------------------------------------------------
(* The client and the wire. *)

Frames(r) == <<[kind |-> "begin"]>> \o [i \in DOMAIN r |-> [kind |-> "part", text |-> r[i]]]
                 \o <<[kind |-> "end", digest |-> r]>>

\* It may send again before it knows of an answer, and cancel what it sent before.
Send(r, cancel) ==
    /\ Len(sent) < MaxSent /\ wire = <<>>
    /\ sent' = Append(sent, r)
    /\ wire' = (IF cancel THEN <<[kind |-> "cancel"]>> ELSE <<>>) \o Frames(r)
    /\ UNCHANGED <<faults, host, reader>>

Damages(f) == {[kind |-> "unknown"], [kind |-> "line"]}
                  \cup IF f.kind = "part" THEN {[f EXCEPT !.text = "damaged"]}
                       ELSE IF f.kind = "end" THEN {[f EXCEPT !.digest = <<"no digest">>]} ELSE {}

\* A frame is lost, repeated or damaged.
Fault ==
    /\ faults < MaxFaults /\ wire # <<>>
    /\ faults' = faults + 1
    /\ \/ wire' = Tail(wire)
       \/ wire' = <<Head(wire)>> \o wire
       \/ \E f \in Damages(Head(wire)) : wire' = <<f>> \o Tail(wire)
    /\ UNCHANGED <<host, reader, sent>>

-----------------------------------------------------------------------------
(* The host takes a frame when it has done with the one before. *)

\* Mutant: what there is of a request is dispatched.
AcceptsAny(text, digest) == text # <<>>
Accepts(text, digest)    == text # <<>> /\ text = digest

\* Each step is a record that is appended, or the start or end of a publication.
\* A save publishes between the record of its snapshot and the withdrawal of that record.
Saving(r) == <<Recovery, [kind |-> "open"], [kind |-> "close"], Recovery, Answer(r)>>
Steps(r)  == IF r \in Saves THEN Saving(r) ELSE <<Answer(r)>>

Dispatches(r) == todo' = Steps(r) /\ dispatched' = Append(dispatched, r) /\ parts' = {}
Refuses       == todo' = <<Error>> /\ parts' = {} /\ UNCHANGED dispatched
Collects(ps)  == parts' = ps /\ UNCHANGED <<todo, dispatched>>

Begins(f)   == f.kind = "begin" /\ parts = {}
Continues(f) == f.kind = "part" /\ parts # {}
Ends(f)     == f.kind = "end" /\ parts # {}

\* FramedInput.__iter__.  A line outside of a request goes to the engine as it is; a damaged one
\* is no request.
Take ==
    /\ wire # <<>> /\ todo = <<>>
    /\ wire' = Tail(wire)
    /\ LET f == Head(wire)
       IN  \/ f.kind = "cancel" /\ Collects({})
           \/ Begins(f) /\ Collects({<<>>})
           \/ Continues(f) /\ Collects({Append(text, f.text) : text \in parts})
           \/ \E text \in parts : Ends(f) /\ Accepts(text, f.digest) /\ Dispatches(text)
           \/ \E text \in parts : Ends(f) /\ ~Accepts(text, f.digest) /\ Refuses
           \/ ~(f.kind = "cancel" \/ Begins(f) \/ Continues(f) \/ Ends(f)) /\ Refuses
    /\ UNCHANGED <<faults, file, spool, window, reader, sent>>

\* _record: the line, in two pieces, and then the spool.
AppendPiece ==
    /\ todo # <<>> /\ Head(todo).kind \notin {"open", "close"}
    /\ \E pieces \in file :
         LET ends == pieces # <<>> /\ ~Last(pieces).ends
         IN  /\ file' = {Append(pieces, [record |-> Head(todo), ends |-> ends])}
             /\ IF ends THEN todo' = Tail(todo) /\ spool' = Append(spool, Head(todo)) ELSE UNCHANGED <<todo, spool>>
    /\ UNCHANGED <<wire, faults, parts, window, dispatched, reader, sent>>

\* staging: the candidate is written after the records, under the lease.
Open ==
    /\ todo # <<>> /\ Head(todo).kind = "open"
    /\ todo' = Tail(todo) /\ window' = TRUE
    /\ file' = {Append(pieces, [record |-> [kind |-> "candidate"], ends |-> TRUE]) : pieces \in file}
    /\ UNCHANGED <<wire, faults, parts, spool, dispatched, reader, sent>>

\* The file becomes the document.
Move ==
    /\ window /\ file # {} /\ file' = {}
    /\ UNCHANGED <<wire, faults, parts, todo, spool, window, dispatched, reader, sent>>

\* Mutant: the file starts empty again.
Emptied(records) == Pieces(<<Header>>)
Respooled(records) == Pieces(records)

\* What follows the records is cut off, or a new file is made of the spool.
Close ==
    /\ todo # <<>> /\ Head(todo).kind = "close"
    /\ todo' = Tail(todo) /\ window' = FALSE
    /\ file' = IF file = {} THEN {Respooled(spool)} ELSE {SubSeq(pieces, 1, 2 * Len(spool)) : pieces \in file}
    /\ UNCHANGED <<wire, faults, parts, spool, dispatched, reader, sent>>

-----------------------------------------------------------------------------
(* The reader. *)

\* Mutant: all of the file counts as read.
AllRead(pieces) == Len(pieces)
\* The end of the last whole line.
WholeLines(pieces) == IF pieces = <<>> \/ Last(pieces).ends THEN Len(pieces) ELSE Len(pieces) - 1

Responds(record) == record.kind = "response"
Given(responses, record) == IF Responds(record) THEN Append(responses, record) ELSE responses

\* The responses a reader has that had some before it goes on from an offset, line by line.
Reading(pieces, from, before) ==
    LET at[i \in from .. Len(pieces)] ==
            IF i = from THEN before
            ELSE IF pieces[i].ends THEN Given(at[i - 1], pieces[i].record) ELSE at[i - 1]
    IN  at

\* read_responses, unless the lease is taken, the offset is beyond the file, or it reads what is
\* no record.
Poll ==
    /\ ~window
    /\ \E pieces \in file :
         /\ offset <= Len(pieces) /\ \A i \in {offset} \cap DOMAIN pieces : pieces[i].ends
         /\ offset' = WholeLines(pieces)
         /\ received' = Reading(pieces, offset, received)[WholeLines(pieces)]
    /\ UNCHANGED <<wire, faults, host, sent>>

Engine == Take \/ AppendPiece \/ Open \/ Move \/ Close
Next == Fault \/ Engine \/ Poll \/ \E r \in Request, cancel \in BOOLEAN : Send(r, cancel)

\* The engine goes on with what it has begun and has been given; the reader polls again.
Spec == Init /\ [][Next]_vars /\ WF_vars(Engine) /\ WF_vars(Poll)

-----------------------------------------------------------------------------
(* Properties. *)

\* Requests run exactly as they were sent, each at most once for each time it was sent and in
\* that order, whatever becomes of the frames: the rest is refused (FramedInput).
RunAsSent ==
    \E at \in [DOMAIN dispatched -> DOMAIN sent] :
        /\ \A i, j \in DOMAIN dispatched : i < j => at[i] < at[j]
        /\ \A i \in DOMAIN dispatched : dispatched[i] = sent[at[i]]

\* The responses among the first n records.
Responses(records) ==
    LET among[n \in 0 .. Len(records)] == IF n = 0 THEN <<>> ELSE Given(among[n - 1], records[n])
    IN  among

\* A publication takes the file from under a reader that is at some offset: the reader is given
\* what was answered, each response once and in order (_staging, read_responses).
ReadInOrder == \E n \in 0 .. Len(spool) : received = Responses(spool)[n]

\* Every response that was written, those to damaged frames too, is given to the reader that
\* polls, after publications that kept it busy or moved the file: again and again it has been
\* given all there are. Responses stay, so each is given in the end.
ResponsesArrive == []<>(received = Responses(spool)[Len(spool)])
=============================================================================
