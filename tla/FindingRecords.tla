--------------------------- MODULE FindingRecords ---------------------------
(***************************************************************************)
(* Stages 1 and 2: the records of one run directory, runs/<run_id>/.       *)
(*                                                                         *)
(* Every finding owns a directory with the stage-1 files, the session file *)
(* (stage-2.session.json) and the receipt (stage-2.verified.json); all     *)
(* findings share index.json.  A single file is replaced atomically        *)
(* (temporary file, fsync, rename), so a tool that writes one file is one  *)
(* action.  extract_finding, refine_finding and finalize_verification      *)
(* write several: each write is an action, and between two of them the     *)
(* process can die or the next write can fail.                             *)
(***************************************************************************)
EXTENDS Naturals, Sequences

CONSTANTS Findings,     \* finding ids of the run
          Contents,     \* what a turn can say
          MaxTurns,     \* bound: turns in one session
          MaxFaults     \* bound: calls cut short between two writes

ASSUME BoundsAssumption == MaxTurns \in Nat /\ MaxFaults \in Nat

VARIABLES files,        \* finding -> the stage-1 files in its directory
          session,      \* finding -> stage-2.session.json
          receipt,      \* finding -> stage-2.verified.json
          index,        \* index.json: finding -> its entry
          call,         \* the tool call in progress
          faults        \* calls cut short so far

vars == <<files, session, receipt, index, call, faults>>

-----------------------------------------------------------------------------
(* The files.                                                              *)

Kinds == {"agent_question", "user_answer"}
Turn == [kind : Kinds, content : Contents]

Stage1Files == {"source", "extracted", "refined"}

\* "Absent" is no session file: read_session returns None.
SessionState ==
    {"Absent", "Open", "WaitingForUser", "WaitingForAgent", "Finalized", "Aborted"}
SessionFile ==
    [state : SessionState, schema_ok : BOOLEAN, transcript : Seq(Turn)]
NoSession == [state |-> "Absent", schema_ok |-> FALSE, transcript |-> <<>>]

\* The digest is modelled by what is digested: SHA-256 tells any two
\* transcripts of the model apart.
VerifiedArtifact ==
    [exists : BOOLEAN, verified : BOOLEAN, digest : Seq(Turn)]
NoReceipt == [exists |-> FALSE, verified |-> FALSE, digest |-> <<>>]

\* artifact is "none" when there is no entry, "blank" for the empty path;
\* refined and stage2 say whether refined_at and stage2_path are set.
IndexEntry ==
    [artifact : {"none", "blank", "extracted", "refined"},
     refined : BOOLEAN, verified : BOOLEAN, stage2 : BOOLEAN]
NoEntry ==
    [artifact |-> "none", refined |-> FALSE, verified |-> FALSE, stage2 |-> FALSE]
Entry(path, isRefined) ==
    [artifact |-> path, refined |-> isRefined, verified |-> FALSE, stage2 |-> FALSE]

\* What a call still has to write; sess is the session that finalize read.
Steps == {"idle", "extract_file", "extract_index", "refine_index",
          "finalize_session", "finalize_index"}
Call == [step : Steps, f : Findings, sess : SessionFile]
Idle == call.step = "idle"
At(step, f, s) == [step |-> step, f |-> f, sess |-> s]
Done == At("idle", call.f, NoSession)

-----------------------------------------------------------------------------
(* The session state machine.                                              *)

\* can_transition: the events a state accepts and the state each leads to.
transition(s, e) ==
    CASE e = "Start" /\ s = "Aborted"                              -> "Open"
      [] e = "agent_question" /\ s \in {"Open", "WaitingForAgent"} -> "WaitingForUser"
      [] e = "user_answer" /\ s = "WaitingForUser"                 -> "WaitingForAgent"
      [] e = "Finalize" /\ s = "WaitingForAgent"                   -> "Finalized"
      [] e = "Abort"                                               -> "Aborted"
      [] OTHER                                                     -> "error"
can_transition_not_terminal(s, e) ==
    IF s = "Aborted" /\ e # "Start" THEN "error" ELSE transition(s, e)
can_transition(s, e) ==
    IF s = "Finalized" \/ (s = "Aborted" /\ e # "Start") THEN "error" ELSE transition(s, e)

Has(t, kind) == \E i \in 1 .. Len(t) : t[i].kind = kind
compute_completeness(t) == Has(t, "agent_question") /\ Has(t, "user_answer")

build_verified_artifact(s) ==
    [exists |-> TRUE,
     verified |-> s.schema_ok /\ compute_completeness(s.transcript),
     digest |-> s.transcript]

-----------------------------------------------------------------------------
(* index.json: each stage owns its fields and keeps those of later stages. *)

merge_preserve_downstream(old, new) ==
    [old EXCEPT !.artifact = IF old.refined THEN old.artifact ELSE new.artifact]
merge_preserve_stage2_dropped(old, new) == new
merge_preserve_stage2(old, new) ==
    [new EXCEPT !.verified = old.verified, !.stage2 = old.stage2]
merge_preserve_refined_only(old, new) ==
    [old EXCEPT !.verified = new.verified, !.stage2 = new.stage2]

\* merge_index_entry: with no existing entry the new one is written as it is.
merge_index_entry(old, new, merged) == IF old = NoEntry THEN new ELSE merged
upsert_index_entry(f, new, merged) ==
    index' = [index EXCEPT ![f] = merge_index_entry(@, new, merged)]

-----------------------------------------------------------------------------
(* Stage 1.                                                                *)

\* extract_finding: source file, extracted file, index entry.
extract_source(f) ==
    /\ Idle
    /\ files' = [files EXCEPT ![f] = @ \cup {"source"}]
    /\ call' = At("extract_file", f, NoSession)
    /\ UNCHANGED <<session, receipt, index, faults>>

extract_file ==
    /\ call.step = "extract_file"
    /\ files' = [files EXCEPT ![call.f] = @ \cup {"extracted"}]
    /\ call' = [call EXCEPT !.step = "extract_index"]
    /\ UNCHANGED <<session, receipt, index, faults>>

extract_index ==
    /\ call.step = "extract_index"
    /\ LET new == Entry("extracted", FALSE)
       IN  upsert_index_entry(call.f, new, merge_preserve_downstream(index[call.f], new))
    /\ call' = Done
    /\ UNCHANGED <<files, session, receipt, faults>>

\* refine_finding: needs the extraction; refined file, index entry.
refine_file(f) ==
    /\ Idle
    /\ "extracted" \in files[f]
    /\ files' = [files EXCEPT ![f] = @ \cup {"refined"}]
    /\ call' = At("refine_index", f, NoSession)
    /\ UNCHANGED <<session, receipt, index, faults>>

refine_index ==
    /\ call.step = "refine_index"
    /\ LET new == Entry("refined", TRUE)
       IN  upsert_index_entry(call.f, new, merge_preserve_stage2(index[call.f], new))
    /\ call' = Done
    /\ UNCHANGED <<files, session, receipt, faults>>

-----------------------------------------------------------------------------
(* Stage 2.                                                                *)

build_new_session == [state |-> "Open", schema_ok |-> TRUE, transcript |-> <<>>]

do_start_verification(f) ==
    /\ Idle
    /\ "refined" \in files[f]                            \* check_stage1_refined
    /\ \/ session[f].state = "Absent"
       \/ can_transition(session[f].state, "Start") # "error"
    /\ session' = [session EXCEPT ![f] = build_new_session]
    /\ UNCHANGED <<files, receipt, index, call, faults>>

do_append_clarification(f, kind, content) ==
    /\ Idle
    /\ session[f].state # "Absent"
    /\ can_transition(session[f].state, kind) # "error"
    /\ Len(session[f].transcript) < MaxTurns
    /\ session' = [session EXCEPT
          ![f].state = can_transition(session[f].state, kind),
          ![f].transcript = Append(@, [kind |-> kind, content |-> content])]
    /\ UNCHANGED <<files, receipt, index, call, faults>>

do_abort_verification(f) ==
    /\ Idle
    /\ session[f].state # "Absent"
    /\ can_transition(session[f].state, "Abort") # "error"
    /\ session' = [session EXCEPT ![f].state = "Aborted"]
    /\ UNCHANGED <<files, receipt, index, call, faults>>

\* finalize_verification reads and checks the session, then persist_finalize
\* writes the receipt, the session and the index entry, in this order.
finalize_receipt(f) ==
    /\ Idle
    /\ session[f].state # "Absent"
    /\ session[f].schema_ok
    /\ can_transition(session[f].state, "Finalize") # "error"
    /\ receipt' = [receipt EXCEPT ![f] = build_verified_artifact(session[f])]
    /\ call' = At("finalize_session", f, session[f])
    /\ UNCHANGED <<files, session, index, faults>>

finalize_session_skipped ==
    /\ call.step = "finalize_session"
    /\ call' = [call EXCEPT !.step = "finalize_index"]
    /\ UNCHANGED <<files, session, receipt, index, faults>>
finalize_session ==
    /\ call.step = "finalize_session"
    /\ session' = [session EXCEPT ![call.f] = [call.sess EXCEPT !.state = "Finalized"]]
    /\ call' = [call EXCEPT !.step = "finalize_index"]
    /\ UNCHANGED <<files, receipt, index, faults>>

upsert_verified_index ==
    /\ call.step = "finalize_index"
    /\ LET new == [artifact |-> "blank", refined |-> FALSE,
                   verified |-> receipt[call.f].verified, stage2 |-> TRUE]
       IN  upsert_index_entry(call.f, new, merge_preserve_refined_only(index[call.f], new))
    /\ call' = Done
    /\ UNCHANGED <<files, session, receipt, faults>>

-----------------------------------------------------------------------------
\* The process dies, or the next write fails and the handler returns its
\* error: what was written stays, the rest of the call is forgotten.
cut_short ==
    /\ ~Idle
    /\ faults < MaxFaults
    /\ call' = Done
    /\ faults' = faults + 1
    /\ UNCHANGED <<files, session, receipt, index>>

Init ==
    /\ files = [f \in Findings |-> {}]
    /\ session = [f \in Findings |-> NoSession]
    /\ receipt = [f \in Findings |-> NoReceipt]
    /\ index = [f \in Findings |-> NoEntry]
    /\ call \in {At("idle", f, NoSession) : f \in Findings}
    /\ faults = 0

Next ==
    \/ \E f \in Findings :
          \/ extract_source(f)
          \/ refine_file(f)
          \/ do_start_verification(f)
          \/ \E kind \in Kinds, c \in Contents : do_append_clarification(f, kind, c)
          \/ do_abort_verification(f)
          \/ finalize_receipt(f)
    \/ extract_file
    \/ extract_index
    \/ refine_index
    \/ finalize_session
    \/ upsert_verified_index
    \/ cut_short

Spec == Init /\ [][Next]_vars
-----------------------------------------------------------------------------
(* Properties.                                                             *)

\* Every variable keeps its type.
TypeOK ==
    /\ files \in [Findings -> SUBSET Stage1Files]
    /\ session \in [Findings -> SessionFile]
    /\ receipt \in [Findings -> VerifiedArtifact]
    /\ index \in [Findings -> IndexEntry]
    /\ call \in Call
    /\ faults \in 0 .. MaxFaults

\* Whatever call was cut short wherever, an index entry that says
\* `verified: true` (the entries the next stage picks up) has a receipt, the
\* receipt says verified, it was computed over exactly the transcript that is
\* in the session file, that conversation is complete, and the session is
\* finalized, so that none of this can change any more.
VerifiedEntryIsBacked ==
    \A f \in Findings :
        index[f].verified =>
            /\ receipt[f].exists /\ receipt[f].verified
            /\ receipt[f].digest = session[f].transcript
            /\ compute_completeness(session[f].transcript)
            /\ session[f].state = "Finalized"
            /\ "refined" \in files[f]

\* The inductive invariant behind it.  A session waits for the agent only after
\* a question and an answer; a finalized session has the receipt computed from
\* it; and a finalize in progress still holds the session it read, because no
\* other call runs until it returns.
SessionInv(f) ==
    /\ Len(session[f].transcript) <= MaxTurns
    /\ session[f].state # "Absent" => "refined" \in files[f] /\ session[f].schema_ok
    /\ session[f].state = "Absent" => session[f] = NoSession
    /\ session[f].state = "WaitingForUser" => Has(session[f].transcript, "agent_question")
    /\ session[f].state \in {"WaitingForAgent", "Finalized"} =>
          compute_completeness(session[f].transcript)
    /\ session[f].state = "Finalized" => receipt[f] = build_verified_artifact(session[f])
CallInv ==
    /\ call.step = "finalize_session" =>
          /\ call.sess = session[call.f]
          /\ call.sess.state = "WaitingForAgent"
          /\ receipt[call.f] = build_verified_artifact(call.sess)
    /\ call.step = "finalize_index" => session[call.f].state = "Finalized"
IInv ==
    /\ TypeOK
    /\ \A f \in Findings : SessionInv(f)
    /\ CallInv
    /\ VerifiedEntryIsBacked

\* What was recorded stays recorded: a finalized session and its receipt never
\* change again, and a transcript is only ever extended, except that
\* start_verification replaces an aborted one by an empty one.
Extends(new, old) ==
    /\ Len(old) <= Len(new)
    /\ \A i \in 1 .. Len(old) : new[i] = old[i]
HistoryStep(f) ==
    /\ session[f].state = "Finalized" => session'[f] = session[f] /\ receipt'[f] = receipt[f]
    /\ \/ session[f].state = "Aborted" /\ session'[f] = build_new_session
       \/ Extends(session'[f].transcript, session[f].transcript)
HistoryKept == [][\A f \in Findings : HistoryStep(f)]_vars

\* Running an earlier stage again never takes away what a later stage wrote to
\* the index entry (the preservation rules of MergeMode).
DownstreamStep(f) ==
    /\ index[f].verified => index'[f].verified /\ index'[f].stage2
    /\ index[f].refined => index'[f].refined /\ index'[f].artifact = "refined"
DownstreamFieldsKept == [][\A f \in Findings : DownstreamStep(f)]_vars

\* The two facts about single entries that make it inductive.
IndexInv ==
    \A f \in Findings :
        /\ index[f].refined => index[f].artifact = "refined"
        /\ index[f].verified => index[f].stage2

\* As long as no call was cut short the three records of a verification agree
\* between calls: a session is finalized exactly if it has a receipt and
\* exactly if the index publishes it, under the path of the refined artifact.
RecordsAgree ==
    Idle /\ faults = 0 =>
        \A f \in Findings :
            /\ receipt[f].exists <=> session[f].state = "Finalized"
            /\ index[f].verified <=> session[f].state = "Finalized"
            /\ index[f].verified => index[f].artifact = "refined"

\* What makes it inductive: where the call in progress stands, and that a refined
\* file is in the index as soon as its call returns.
AgreeInv ==
    faults = 0 =>
        \A f \in Findings :
            /\ receipt[f].exists <=>
                  session[f].state = "Finalized" \/ (call.step = "finalize_session" /\ call.f = f)
            /\ index[f].verified <=>
                  session[f].state = "Finalized" /\ ~(call.step = "finalize_index" /\ call.f = f)
            /\ "refined" \in files[f] => index[f].refined \/ (call.step = "refine_index" /\ call.f = f)

\* The records implement the write-once ledger the next stage reads.
published == [f \in Findings |-> IF index[f].verified THEN receipt[f].digest ELSE <<>>]
Ledger == INSTANCE VerifiedLedger WITH ledger <- published
ImplementsLedger == Ledger!Spec

\* What the comment on persist_finalize takes for granted: finalizing can be
\* completed by calling it again, so that between calls a finalized session is
\* one the next stage can find in the index.
FinalizedIsPublished ==
    Idle => \A f \in Findings : session[f].state = "Finalized" => index[f].verified
=============================================================================
