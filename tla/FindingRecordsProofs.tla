------------------------ MODULE FindingRecordsProofs ------------------------
(***************************************************************************)
(* For every set of findings, every bound on the conversation and every    *)
(* number of interrupted calls: the records keep their types, a published  *)
(* entry is backed by its receipt and its session, recorded history is     *)
(* kept, and the records implement the write-once ledger.                  *)
(***************************************************************************)
EXTENDS FindingRecords, TLAPS

\* A turn that is pushed leaves the turns before it in place and adds its kind.
LEMMA AppendHas ==
    ASSUME NEW t \in Seq(Turn), NEW x \in Turn
    PROVE  /\ Append(t, x) \in Seq(Turn)
           /\ Len(Append(t, x)) = Len(t) + 1
           /\ \A k : Has(t, k) => Has(Append(t, x), k)
           /\ Has(Append(t, x), x.kind)
  <1>1. /\ Append(t, x) \in Seq(Turn)
        /\ Len(Append(t, x)) = Len(t) + 1
        /\ \A i \in 1 .. Len(t) : Append(t, x)[i] = t[i]
        /\ Append(t, x)[Len(t) + 1] = x
    OBVIOUS
  <1>2. Len(t) \in Nat
    OBVIOUS
  <1> QED
    BY <1>1, <1>2 DEF Has

LEMMA InitIInv == Init => IInv
  <1> SUFFICES ASSUME Init PROVE IInv
    OBVIOUS
  <1>1. /\ NoSession \in SessionFile /\ NoReceipt \in VerifiedArtifact
        /\ NoEntry \in IndexEntry
    BY DEF NoSession, SessionFile, SessionState, NoReceipt, VerifiedArtifact,
           NoEntry, IndexEntry
  <1>2. TypeOK
    BY <1>1, BoundsAssumption DEF BoundsAssumption, Init, TypeOK, Call, At, Steps
  <1>3. \A f \in Findings : SessionInv(f)
    <2>1. NoSession.transcript = <<>> /\ NoSession.state = "Absent"
      BY DEF NoSession
    <2>2. Len(<<>>) <= MaxTurns
      BY BoundsAssumption DEF BoundsAssumption
    <2> QED
      BY <2>1, <2>2 DEF Init, SessionInv
  <1>4. CallInv
    BY DEF Init, CallInv, At
  <1>5. VerifiedEntryIsBacked
    BY DEF Init, VerifiedEntryIsBacked, NoEntry
  <1> QED
    BY <1>2, <1>3, <1>4, <1>5 DEF IInv

-----------------------------------------------------------------------------
\* The merges of extract_finding and refine_finding return an index entry with
\* the stage-2 fields it had.
LEMMA Stage1Merge ==
    ASSUME NEW e \in IndexEntry
    PROVE  LET nx == Entry("extracted", FALSE)
               nr == Entry("refined", TRUE)
               x == merge_index_entry(e, nx, merge_preserve_downstream(e, nx))
               r == merge_index_entry(e, nr, merge_preserve_stage2(e, nr))
           IN  /\ x \in IndexEntry /\ r \in IndexEntry
               /\ x.verified = e.verified /\ r.verified = e.verified
               /\ x.stage2 = e.stage2 /\ r.stage2 = e.stage2
               /\ x.refined = e.refined
               /\ e.refined /\ e.artifact = "refined" => x.refined /\ x.artifact = "refined"
               /\ r.refined /\ r.artifact = "refined"
  <1>1. CASE e = NoEntry
    BY <1>1 DEF merge_index_entry, Entry, IndexEntry, NoEntry
  <1>2. CASE e # NoEntry
    BY <1>2 DEF merge_index_entry, Entry, IndexEntry, merge_preserve_downstream,
                merge_preserve_stage2
  <1> QED
    BY <1>1, <1>2

\* The stage-1 tools touch neither sessions nor receipts, and their merges keep
\* the stage-2 fields of an index entry.
LEMMA Stage1Step ==
    ASSUME IInv,
           \/ \E f \in Findings : extract_source(f) \/ refine_file(f)
           \/ extract_file \/ extract_index \/ refine_index
    PROVE  IInv'
  <1> USE DEF IInv, Call, At, Done, Steps, Stage1Files
  <1>0. NoSession \in SessionFile
    BY DEF NoSession, SessionFile, SessionState
  <1>1. /\ session' = session /\ receipt' = receipt /\ faults' = faults
        /\ call'.step \in {"idle", "extract_file", "extract_index", "refine_index"}
        /\ call' \in Call
        /\ files' \in [Findings -> SUBSET Stage1Files]
        /\ \A f \in Findings : files[f] \subseteq files'[f]
    <2>1. CASE \E f \in Findings : extract_source(f)
      BY <1>0, <2>1 DEF TypeOK, extract_source
    <2>2. CASE \E f \in Findings : refine_file(f)
      BY <1>0, <2>2 DEF TypeOK, refine_file
    <2>3. CASE extract_file
      BY <2>3 DEF TypeOK, extract_file
    <2>4. CASE extract_index \/ refine_index
      <3>1. call' = At("idle", call.f, NoSession) /\ UNCHANGED <<files, session, receipt, faults>>
        BY <2>4 DEF extract_index, refine_index
      <3> QED
        BY <1>0, <3>1 DEF TypeOK
    <2> QED
      BY <2>1, <2>2, <2>3, <2>4
  <1>2. /\ index' \in [Findings -> IndexEntry]
        /\ \A f \in Findings : index'[f].verified = index[f].verified
    <2>0. call.f \in Findings /\ index \in [Findings -> IndexEntry]
      BY DEF TypeOK
    <2>1. CASE index' = index
      BY <2>0, <2>1
    <2>2. CASE extract_index \/ refine_index
      <3>1. PICK e \in IndexEntry : /\ index' = [index EXCEPT ![call.f] = e]
                                    /\ e.verified = index[call.f].verified
        BY <2>0, <2>2, Stage1Merge DEF extract_index, refine_index, upsert_index_entry
      <3> QED
        BY <2>0, <3>1
    <2> QED
      BY <2>1, <2>2 DEF extract_source, refine_file, extract_file
  <1>3. TypeOK'
    BY <1>1, <1>2 DEF TypeOK
  <1>4. \A f \in Findings : SessionInv(f)'
    BY <1>1 DEF SessionInv
  <1>5. CallInv'
    BY <1>1 DEF CallInv
  <1>6. VerifiedEntryIsBacked'
    BY <1>1, <1>2 DEF VerifiedEntryIsBacked
  <1> QED
    BY <1>3, <1>4, <1>5, <1>6

\* Starting, continuing and aborting a session happen between calls and leave
\* finalized sessions alone.
LEMMA SessionStep ==
    ASSUME IInv, NEW f \in Findings,
           \/ do_start_verification(f)
           \/ \E kind \in Kinds, c \in Contents : do_append_clarification(f, kind, c)
           \/ do_abort_verification(f)
    PROVE  IInv'
  <1> USE DEF IInv
  <1>1. /\ files' = files /\ receipt' = receipt /\ index' = index
        /\ call' = call /\ faults' = faults /\ call.step = "idle"
    <2>1. CASE do_start_verification(f)
      BY <2>1 DEF do_start_verification, Idle
    <2>2. ASSUME NEW kind \in Kinds, NEW c \in Contents, do_append_clarification(f, kind, c)
          PROVE  /\ files' = files /\ receipt' = receipt /\ index' = index
                 /\ call' = call /\ faults' = faults /\ call.step = "idle"
      BY <2>2 DEF do_append_clarification, Idle
    <2>3. CASE do_abort_verification(f)
      BY <2>3 DEF do_abort_verification, Idle
    <2> QED
      BY <2>1, <2>2, <2>3
  <1>2. session[f].state # "Finalized"
    <2>1. \A e : can_transition("Finalized", e) = "error"
      BY DEF can_transition
    <2>2. CASE do_start_verification(f)
      BY <2>1, <2>2 DEF do_start_verification
    <2>3. ASSUME NEW kind \in Kinds, NEW c \in Contents, do_append_clarification(f, kind, c)
          PROVE  session[f].state # "Finalized"
      BY <2>1, <2>3 DEF do_append_clarification
    <2>4. CASE do_abort_verification(f)
      BY <2>1, <2>4 DEF do_abort_verification
    <2> QED
      BY <2>2, <2>3, <2>4
  <1>3. /\ session' \in [Findings -> SessionFile]
        /\ \A g \in Findings : g # f => session'[g] = session[g]
        /\ SessionInv(f)'
    <2>1. CASE do_start_verification(f)
      <3>1. build_new_session \in SessionFile
        BY DEF build_new_session, SessionFile, SessionState
      <3>2. Len(<<>>) <= MaxTurns
        BY BoundsAssumption DEF BoundsAssumption
      <3>3. session' = [session EXCEPT ![f] = build_new_session] /\ "refined" \in files[f]
        BY <2>1 DEF do_start_verification
      <3>4. session'[f] = build_new_session /\ build_new_session.state = "Open"
            /\ build_new_session.transcript = <<>> /\ build_new_session.schema_ok = TRUE
        BY <3>3 DEF TypeOK, build_new_session
      <3> QED
        BY <1>1, <3>1, <3>2, <3>3, <3>4 DEF TypeOK, SessionInv
    <2>2. CASE \E kind \in Kinds, c \in Contents : do_append_clarification(f, kind, c)
      <3> PICK kind \in Kinds, c \in Contents : do_append_clarification(f, kind, c)
        BY <2>2
      <3> DEFINE t == session[f].transcript
                 x == [kind |-> kind, content |-> c]
                 s == can_transition(session[f].state, kind)
      <3>1. session[f] \in SessionFile /\ t \in Seq(Turn) /\ x \in Turn
        BY DEF TypeOK, SessionFile, Turn
      <3>2. /\ session' = [session EXCEPT ![f] = [session[f] EXCEPT !.state = s,
                                                  !.transcript = Append(t, x)]]
            /\ Len(t) < MaxTurns
            /\ s # "error" /\ session[f].state # "Absent"
        BY DEF do_append_clarification
      <3>3. \/ kind = "agent_question" /\ s = "WaitingForUser"
            \/ kind = "user_answer" /\ s = "WaitingForAgent"
                 /\ session[f].state = "WaitingForUser"
        BY <3>2, <1>2 DEF can_transition, transition, Kinds
      <3>4. /\ Append(t, x) \in Seq(Turn) /\ Len(Append(t, x)) = Len(t) + 1
            /\ \A k : Has(t, k) => Has(Append(t, x), k)
            /\ Has(Append(t, x), kind)
        BY <3>1, AppendHas
      <3> HIDE DEF t, x, s
      <3>5. /\ session'[f].state = s /\ session'[f].transcript = Append(t, x)
            /\ session'[f].schema_ok = session[f].schema_ok
            /\ session' \in [Findings -> SessionFile]
        BY <3>1, <3>2, <3>3, <3>4 DEF TypeOK, SessionFile, SessionState
      <3>6. Len(Append(t, x)) <= MaxTurns
        BY <3>1, <3>2, <3>4, BoundsAssumption DEF BoundsAssumption
      <3>7. SessionInv(f)'
        BY <1>1, <3>2, <3>3, <3>4, <3>5, <3>6 DEF SessionInv, compute_completeness, t
      <3> QED
        BY <3>2, <3>5, <3>7
    <2>3. CASE do_abort_verification(f)
      BY <1>1, <2>3 DEF do_abort_verification, TypeOK, SessionFile, SessionState, SessionInv
    <2> QED
      BY <2>1, <2>2, <2>3
  <1>4. TypeOK'
    BY <1>1, <1>3 DEF TypeOK
  <1>5. \A g \in Findings : SessionInv(g)'
    BY <1>1, <1>3 DEF SessionInv
  <1>6. CallInv'
    BY <1>1 DEF CallInv
  <1>7. VerifiedEntryIsBacked'
    BY <1>1, <1>2, <1>3 DEF VerifiedEntryIsBacked
  <1> QED
    BY <1>4, <1>5, <1>6, <1>7

-----------------------------------------------------------------------------
\* finalize_verification, write by write.
LEMMA FinalizeStep ==
    ASSUME IInv,
           \/ \E f \in Findings : finalize_receipt(f)
           \/ finalize_session \/ upsert_verified_index
    PROVE  IInv'
  <1> USE DEF IInv
  <1>0. /\ call.f \in Findings /\ call.sess \in SessionFile
        /\ \A f \in Findings : /\ session[f] \in SessionFile
                               /\ receipt[f] \in VerifiedArtifact
                               /\ index[f] \in IndexEntry
    BY DEF TypeOK, Call
  <1>1. ASSUME NEW s \in SessionFile, s.schema_ok, compute_completeness(s.transcript)
        PROVE  /\ build_verified_artifact(s) \in VerifiedArtifact
               /\ build_verified_artifact(s).exists /\ build_verified_artifact(s).verified
               /\ build_verified_artifact(s).digest = s.transcript
    BY <1>1 DEF build_verified_artifact, VerifiedArtifact, SessionFile
  <1>2. ASSUME NEW f \in Findings, finalize_receipt(f)
        PROVE  IInv'
    <2>1. /\ session[f].state = "WaitingForAgent"
          /\ session[f].schema_ok /\ compute_completeness(session[f].transcript)
      BY <1>2 DEF finalize_receipt, can_transition, transition, SessionInv
    <2>2. /\ receipt' = [receipt EXCEPT ![f] = build_verified_artifact(session[f])]
          /\ call' = At("finalize_session", f, session[f])
          /\ UNCHANGED <<files, session, index, faults>>
      BY <1>2 DEF finalize_receipt
    <2>3. TypeOK'
      BY <1>0, <1>1, <2>1, <2>2 DEF TypeOK, Call, At, Steps
    <2>4. \A g \in Findings : SessionInv(g)'
      BY <2>1, <2>2 DEF SessionInv, TypeOK
    <2>5. CallInv'
      BY <1>0, <2>1, <2>2 DEF CallInv, At, TypeOK
    <2>6. VerifiedEntryIsBacked'
      BY <2>1, <2>2 DEF VerifiedEntryIsBacked, TypeOK
    <2> QED
      BY <2>3, <2>4, <2>5, <2>6
  <1>3. CASE finalize_session
    <2> DEFINE f == call.f
               s == [call.sess EXCEPT !.state = "Finalized"]
    <2>1. /\ call.sess = session[f] /\ session[f].state = "WaitingForAgent"
          /\ receipt[f] = build_verified_artifact(session[f])
      BY <1>3 DEF finalize_session, CallInv
    <2>2. /\ session' = [session EXCEPT ![f] = s]
          /\ call' = [call EXCEPT !.step = "finalize_index"]
          /\ UNCHANGED <<files, receipt, index, faults>>
      BY <1>3 DEF finalize_session
    <2>3. /\ s \in SessionFile /\ s.state = "Finalized"
          /\ s.schema_ok = session[f].schema_ok /\ s.transcript = session[f].transcript
      BY <1>0, <2>1 DEF SessionFile, SessionState
    <2>4. build_verified_artifact(s) = build_verified_artifact(session[f])
      BY <2>3 DEF build_verified_artifact
    <2> HIDE DEF s, f
    <2>5. /\ f \in Findings /\ session'[f] = s
          /\ \A g \in Findings : g # f => session'[g] = session[g]
      BY <1>0, <2>2 DEF f, TypeOK
    <2>6. call'.f = f /\ call'.step = "finalize_index" /\ call' \in Call
      BY <2>2 DEF TypeOK, Call, Steps, f
    <2>7. TypeOK'
      BY <2>2, <2>3, <2>5, <2>6 DEF TypeOK
    <2>8. \A g \in Findings : SessionInv(g)'
      BY <2>1, <2>2, <2>3, <2>4, <2>5 DEF SessionInv
    <2>9. CallInv'
      BY <2>3, <2>5, <2>6 DEF CallInv
    <2>10. VerifiedEntryIsBacked'
      BY <2>1, <2>2, <2>5 DEF VerifiedEntryIsBacked
    <2> QED
      BY <2>7, <2>8, <2>9, <2>10
  <1>4. CASE upsert_verified_index
    <2> DEFINE f == call.f
    <2>1. /\ f \in Findings /\ session[f].state = "Finalized"
          /\ session[f].schema_ok /\ compute_completeness(session[f].transcript)
          /\ "refined" \in files[f]
          /\ receipt[f] = build_verified_artifact(session[f])
      BY <1>0, <1>4 DEF upsert_verified_index, CallInv, SessionInv
    <2>2. PICK e \in IndexEntry : index' = [index EXCEPT ![f] = e]
      BY <1>0 , <1>4, <1>1, <2>1 DEF upsert_verified_index, upsert_index_entry,
          merge_index_entry, merge_preserve_refined_only, IndexEntry, NoEntry, VerifiedArtifact
    <2>3. call' = At("idle", f, NoSession) /\ UNCHANGED <<files, session, receipt, faults>>
      BY <1>4 DEF upsert_verified_index, Done
    <2>4. NoSession \in SessionFile
      BY DEF NoSession, SessionFile, SessionState
    <2> HIDE DEF f
    <2>5. TypeOK'
      BY <2>1, <2>2, <2>3, <2>4 DEF TypeOK, Call, At, Steps
    <2>6. \A g \in Findings : SessionInv(g)'
      BY <2>3 DEF SessionInv
    <2>7. CallInv'
      BY <2>3 DEF CallInv, At
    <2>8. VerifiedEntryIsBacked'
      BY <1>0, <1>1, <2>1, <2>2, <2>3 DEF VerifiedEntryIsBacked, TypeOK
    <2> QED
      BY <2>5, <2>6, <2>7, <2>8
  <1> QED
    BY <1>2, <1>3, <1>4

\* A call that is cut short only forgets what it still had to do.
LEMMA CutShortStep == ASSUME IInv, cut_short PROVE IInv'
  <1> USE DEF IInv
  <1>1. NoSession \in SessionFile
    BY DEF NoSession, SessionFile, SessionState
  <1>2. /\ UNCHANGED <<files, session, receipt, index>>
        /\ call' = At("idle", call.f, NoSession)
        /\ faults < MaxFaults /\ faults' = faults + 1
    BY DEF cut_short, Done
  <1>3. TypeOK'
    BY <1>1, <1>2, BoundsAssumption DEF BoundsAssumption, TypeOK, Call, At, Steps
  <1>4. (\A f \in Findings : SessionInv(f)') /\ CallInv' /\ VerifiedEntryIsBacked'
    BY <1>2 DEF SessionInv, CallInv, At, VerifiedEntryIsBacked
  <1> QED
    BY <1>3, <1>4

LEMMA StepIInv == IInv /\ [Next]_vars => IInv'
  <1> SUFFICES ASSUME IInv, [Next]_vars PROVE IInv'
    OBVIOUS
  <1>1. CASE UNCHANGED vars
    BY <1>1 DEF IInv, TypeOK, SessionInv, CallInv, VerifiedEntryIsBacked, vars
  <1> QED
    BY <1>1, Stage1Step, SessionStep, FinalizeStep, CutShortStep DEF Next

\* Every record keeps its type, in every behaviour.
THEOREM TypeCorrect == Spec => []TypeOK
  <1>1. IInv => TypeOK
    BY DEF IInv
  <1> QED
    BY <1>1, InitIInv, StepIInv, PTL DEF Spec

\* Whatever call was cut short between whichever writes, a finding the index
\* publishes as verified has its receipt, and the receipt is about the
\* finalized transcript beside it.
THEOREM PublishedIsBacked == Spec => []VerifiedEntryIsBacked
  <1>1. IInv => VerifiedEntryIsBacked
    BY DEF IInv
  <1> QED
    BY <1>1, InitIInv, StepIInv, PTL DEF Spec

-----------------------------------------------------------------------------
LEMMA HistoryOfStep ==
    ASSUME IInv, Next, NEW g \in Findings
    PROVE  HistoryStep(g)
  <1> USE DEF IInv, HistoryStep
  <1>0. /\ session[g] \in SessionFile /\ session[g].transcript \in Seq(Turn)
        /\ Extends(session[g].transcript, session[g].transcript)
    BY DEF TypeOK, SessionFile, Extends
  <1>1. CASE session' = session /\ receipt' = receipt
    BY <1>0, <1>1
  <1>2. ASSUME NEW f \in Findings, do_start_verification(f)
        PROVE  HistoryStep(g)
    <2>1. /\ session' = [session EXCEPT ![f] = build_new_session] /\ receipt' = receipt
          /\ session[f].state \in {"Absent", "Aborted"}
      BY <1>2 DEF do_start_verification, can_transition, transition
    <2>2. CASE f = g /\ session[g].state = "Absent"
      <3>1. session[g].transcript = <<>> /\ session'[g].transcript = <<>>
        BY <2>1, <2>2 DEF TypeOK, SessionInv, NoSession, build_new_session
      <3> QED
        BY <2>1, <2>2, <3>1 DEF Extends
    <2> QED
      BY <1>0, <2>1, <2>2 DEF TypeOK
  <1>3. ASSUME NEW f \in Findings, NEW kind \in Kinds, NEW c \in Contents,
               do_append_clarification(f, kind, c)
        PROVE  HistoryStep(g)
    <2> DEFINE x == [kind |-> kind, content |-> c]
               t == session[f].transcript
    <2>1. /\ receipt' = receipt /\ session[f].state # "Finalized"
          /\ \A h \in Findings : h # f => session'[h] = session[h]
          /\ session'[f].transcript = Append(t, x)
      BY <1>3 DEF do_append_clarification, can_transition, TypeOK, SessionFile
    <2>2. t \in Seq(Turn) /\ x \in Turn
      BY DEF TypeOK, SessionFile, Turn
    <2>3. Extends(Append(t, x), t)
      BY <2>2 DEF Extends
    <2> HIDE DEF t, x
    <2> QED
      BY <1>0, <2>1, <2>3 DEF t
  <1>4. ASSUME NEW f \in Findings, do_abort_verification(f)
        PROVE  HistoryStep(g)
    <2>1. /\ receipt' = receipt /\ session[f].state # "Finalized"
          /\ session' = [session EXCEPT ![f] = [session[f] EXCEPT !.state = "Aborted"]]
      BY <1>4 DEF do_abort_verification, can_transition
    <2>2. session'[g].transcript = session[g].transcript /\ (g # f => session'[g] = session[g])
      BY <2>1 DEF TypeOK, SessionFile
    <2> QED
      BY <1>0, <2>1, <2>2
  <1>5. ASSUME NEW f \in Findings, finalize_receipt(f)
        PROVE  HistoryStep(g)
    <2>1. /\ session' = session /\ session[f].state # "Finalized"
          /\ \A h \in Findings : h # f => receipt'[h] = receipt[h]
      BY <1>5 DEF finalize_receipt, can_transition, TypeOK
    <2> QED
      BY <1>0, <2>1
  <1>6. CASE finalize_session
    <2>1. /\ call.f \in Findings /\ session[call.f] = call.sess
          /\ session[call.f].state = "WaitingForAgent" /\ receipt' = receipt
          /\ session' = [session EXCEPT ![call.f] = [session[call.f] EXCEPT !.state = "Finalized"]]
      BY <1>6 DEF finalize_session, CallInv, TypeOK, Call
    <2>2. /\ session'[g].transcript = session[g].transcript
          /\ g # call.f => session'[g] = session[g]
      BY <2>1 DEF TypeOK, SessionFile
    <2> QED
      BY <1>0, <2>1, <2>2
  <1>7. CASE \/ \E f \in Findings : extract_source(f) \/ refine_file(f)
             \/ extract_file \/ extract_index \/ refine_index
             \/ upsert_verified_index \/ cut_short
    <2>1. session' = session /\ receipt' = receipt
      BY <1>7 DEF extract_source, refine_file, extract_file, extract_index, refine_index,
                  upsert_verified_index, cut_short
    <2> QED
      BY <1>1, <2>1
  <1> QED
    BY <1>2, <1>3, <1>4, <1>5, <1>6, <1>7 DEF Next

\* Finalized sessions and their receipts never change, and no turn that was
\* written is rewritten or dropped short of restarting an aborted session.
THEOREM HistoryIsKept == Spec => HistoryKept
  <1>1. IInv /\ [Next]_vars => [\A f \in Findings : HistoryStep(f)]_vars
    BY HistoryOfStep
  <1> QED
    BY <1>1, InitIInv, StepIInv, PTL DEF Spec, HistoryKept

-----------------------------------------------------------------------------
\* What one step does to one index entry.
LEMMA IndexOfStep ==
    ASSUME IInv, IndexInv, Next, NEW g \in Findings
    PROVE  /\ DownstreamStep(g)
           /\ index'[g].refined => index'[g].artifact = "refined"
           /\ index'[g].verified => index'[g].stage2
           /\ \/ index'[g].verified = index[g].verified
              \/ upsert_verified_index /\ g = call.f
  <1> USE DEF IInv, DownstreamStep
  <1>0. /\ call.f \in Findings /\ index[g] \in IndexEntry
        /\ index \in [Findings -> IndexEntry]
    BY DEF TypeOK, Call
  <1>1. index[g].refined => index[g].artifact = "refined"
    BY DEF IndexInv
  <1>2. index[g].verified => index[g].stage2
    BY DEF IndexInv
  <1>3. CASE index'[g] = index[g]
    BY <1>1, <1>2, <1>3
  <1>4. CASE (extract_index \/ refine_index) /\ g = call.f
    <2>1. PICK e \in IndexEntry :
             /\ index' = [index EXCEPT ![g] = e]
             /\ e.verified = index[g].verified /\ e.stage2 = index[g].stage2
             /\ index[g].refined => e.refined /\ e.artifact = "refined"
             /\ e.refined => e.artifact = "refined"
      <3>1. CASE extract_index
        BY <1>0, <1>1, <1>4, <3>1, Stage1Merge DEF extract_index, upsert_index_entry
      <3>2. CASE refine_index
        BY <1>0, <1>4, <3>2, Stage1Merge DEF refine_index, upsert_index_entry
      <3> QED
        BY <1>4, <3>1, <3>2
    <2> QED
      BY <1>0, <1>2, <2>1
  <1>5. CASE upsert_verified_index /\ g = call.f
    <2>1. /\ session[g].state = "Finalized" /\ session[g].schema_ok
          /\ compute_completeness(session[g].transcript)
          /\ receipt[g] = build_verified_artifact(session[g])
      BY <1>5 DEF upsert_verified_index, CallInv, SessionInv
    <2>2. receipt[g].verified /\ receipt[g].verified \in BOOLEAN
      BY <2>1 DEF build_verified_artifact, TypeOK, VerifiedArtifact
    <2>3. PICK e \in IndexEntry :
             /\ index' = [index EXCEPT ![g] = e]
             /\ e.verified /\ e.stage2
             /\ e.refined = index[g].refined
             /\ e.refined => e.artifact = index[g].artifact
      <3> DEFINE new == [artifact |-> "blank", refined |-> FALSE,
                         verified |-> receipt[g].verified, stage2 |-> TRUE]
                 e == merge_index_entry(index[g], new, merge_preserve_refined_only(index[g], new))
      <3>1. index' = [index EXCEPT ![g] = e]
        BY <1>5 DEF upsert_verified_index, upsert_index_entry
      <3>2. /\ e \in IndexEntry /\ e.verified /\ e.stage2 /\ e.refined = index[g].refined
            /\ e.refined => e.artifact = index[g].artifact
        <4>1. CASE index[g] = NoEntry
          BY <2>2, <4>1 DEF merge_index_entry, NoEntry, IndexEntry
        <4>2. CASE index[g] # NoEntry
          BY <1>0, <2>2, <4>2 DEF merge_index_entry, merge_preserve_refined_only, IndexEntry
        <4> QED
          BY <4>1, <4>2
      <3> QED
        BY <3>1, <3>2
    <2> QED
      BY <1>0, <1>1, <1>5, <2>3
  <1>6. \/ index'[g] = index[g]
        \/ (extract_index \/ refine_index \/ upsert_verified_index) /\ g = call.f
    <2>1. CASE extract_index \/ refine_index \/ upsert_verified_index
      <3>1. \E e : index' = [index EXCEPT ![call.f] = e]
        BY <2>1 DEF extract_index, refine_index, upsert_verified_index, upsert_index_entry
      <3> QED
        BY <1>0, <2>1, <3>1
    <2>2. CASE ~(extract_index \/ refine_index \/ upsert_verified_index)
      BY <2>2 DEF Next, extract_source, refine_file, do_start_verification,
           do_append_clarification, do_abort_verification, finalize_receipt, extract_file,
           finalize_session, cut_short
    <2> QED
      BY <2>1, <2>2
  <1> QED
    BY <1>3, <1>4, <1>5, <1>6

LEMMA IndexIsInvariant == Spec => [](IInv /\ IndexInv)
  <1>1. Init => IndexInv
    <2>1. NoEntry.refined = FALSE /\ NoEntry.verified = FALSE
      BY DEF NoEntry
    <2> QED
      BY <2>1 DEF Init, IndexInv
  <1>2. IInv /\ IndexInv /\ [Next]_vars => IndexInv'
    <2>1. ASSUME IInv, IndexInv, Next PROVE IndexInv'
      BY <2>1, IndexOfStep DEF IndexInv
    <2>2. ASSUME IndexInv, UNCHANGED vars PROVE IndexInv'
      BY <2>2 DEF IndexInv, vars
    <2> QED
      BY <2>1, <2>2
  <1> QED
    BY <1>1, <1>2, InitIInv, StepIInv, PTL DEF Spec

\* No run of an earlier stage takes away what a later stage wrote to the index.
THEOREM DownstreamIsKept == Spec => DownstreamFieldsKept
  <1>1. IInv /\ IndexInv /\ [Next]_vars => [\A f \in Findings : DownstreamStep(f)]_vars
    BY IndexOfStep
  <1> QED
    BY <1>1, IndexIsInvariant, PTL DEF Spec, DownstreamFieldsKept

-----------------------------------------------------------------------------
\* A step leaves what the index publishes alone, or publishes one finding,
\* once, with a complete transcript.
LEMMA LedgerStep ==
    ASSUME IInv, IndexInv, IInv', Next, published' # published
    PROVE  \E f \in Findings : Ledger!Publish(f)
  <1> USE DEF IInv
  <1>1. PICK f \in Findings : published'[f] # published[f]
    BY DEF published
  <1>2. ASSUME NEW g \in Findings, index[g].verified
        PROVE  index'[g].verified /\ published'[g] = published[g]
    <2>1. index'[g].verified
      BY <1>2, IndexOfStep DEF DownstreamStep
    <2>2. receipt'[g] = receipt[g]
      BY <1>2, HistoryOfStep DEF HistoryStep, VerifiedEntryIsBacked
    <2> QED
      BY <1>2, <2>1, <2>2 DEF published
  <1>3. ~index[f].verified /\ published[f] = <<>>
    BY <1>1, <1>2 DEF published
  <1>4. index'[f].verified
    BY <1>1, <1>3 DEF published
  <1>5. upsert_verified_index /\ f = call.f
    BY <1>3, <1>4, IndexOfStep
  <1>6. \A g \in Findings : g # f => published'[g] = published[g]
    BY <1>2, <1>5, IndexOfStep DEF published
  <1>7. published' = [published EXCEPT ![f] = published'[f]]
    BY <1>6 DEF published
  <1>8. published'[f] = session'[f].transcript /\ compute_completeness(published'[f])
    BY <1>4 DEF published, VerifiedEntryIsBacked
  <1>9. published'[f] \in Ledger!Transcripts
    <2>1. session'[f].transcript \in Seq(Turn) /\ Len(session'[f].transcript) <= MaxTurns
      BY DEF TypeOK, SessionFile, SessionInv
    <2>2. \A t \in Seq(Turn) : Len(t) <= MaxTurns => t \in Ledger!Transcripts
      <3>1. Ledger!Turn = Turn
        BY DEF Ledger!Turn, Turn, Ledger!Kinds, Kinds
      <3>2. ASSUME NEW t \in Seq(Turn), Len(t) <= MaxTurns
            PROVE  Len(t) \in 0 .. MaxTurns /\ t \in [1 .. Len(t) -> Turn]
        BY <3>2, BoundsAssumption DEF BoundsAssumption
      <3> QED
        BY <3>1, <3>2 DEF Ledger!Transcripts
    <2> QED
      BY <1>8, <2>1, <2>2
  <1>10. Ledger!Complete(published'[f])
    BY <1>8 DEF Ledger!Complete, Ledger!Has, compute_completeness, Has
  <1> QED
    BY <1>3, <1>7, <1>9, <1>10 DEF Ledger!Publish

\* The files on disk, with all their interruptions, implement the write-once
\* ledger that the next stage relies on.
THEOREM RecordsImplementLedger == Spec => ImplementsLedger
  <1>1. Init => Ledger!Init
    BY DEF Init, Ledger!Init, published, NoEntry
  <1>2. IInv /\ IndexInv /\ IInv' /\ [Next]_vars => [Ledger!Next]_published
    <2>1. ASSUME IInv, IndexInv, IInv', Next PROVE [Ledger!Next]_published
      BY <2>1, LedgerStep DEF Ledger!Next
    <2>2. ASSUME UNCHANGED vars PROVE UNCHANGED published
      BY <2>2 DEF vars, published
    <2> QED
      BY <2>1, <2>2
  <1> QED
    BY <1>1, <1>2, IndexIsInvariant, PTL DEF Spec, ImplementsLedger, Ledger!Spec

-----------------------------------------------------------------------------
\* What one step without a fault does to the three records of one finding.
LEMMA AgreeOfStep ==
    ASSUME IInv, IndexInv, AgreeInv, Next, faults' = 0
    PROVE  AgreeInv'
  <1> USE DEF IInv
  <1>0. /\ call.f \in Findings /\ faults \in Nat
        /\ index \in [Findings -> IndexEntry] /\ files \in [Findings -> SUBSET Stage1Files]
        /\ session \in [Findings -> SessionFile] /\ receipt \in [Findings -> VerifiedArtifact]
    BY BoundsAssumption DEF TypeOK, Call, BoundsAssumption
  <1>1. ~cut_short
    BY <1>0 DEF cut_short
  <1>2. faults = 0
    BY <1>1 DEF Next, extract_source, refine_file, do_start_verification, do_append_clarification,
         do_abort_verification, finalize_receipt, extract_file, extract_index, refine_index,
         finalize_session, upsert_verified_index
  <1> SUFFICES ASSUME NEW g \in Findings
               PROVE  /\ receipt'[g].exists <=>
                            session'[g].state = "Finalized" \/ (call'.step = "finalize_session" /\ call'.f = g)
                      /\ index'[g].verified <=>
                            session'[g].state = "Finalized" /\ ~(call'.step = "finalize_index" /\ call'.f = g)
                      /\ "refined" \in files'[g] =>
                            index'[g].refined \/ (call'.step = "refine_index" /\ call'.f = g)
    BY DEF AgreeInv
  <1>3. /\ receipt[g].exists <=>
              session[g].state = "Finalized" \/ (call.step = "finalize_session" /\ call.f = g)
        /\ index[g].verified <=>
              session[g].state = "Finalized" /\ ~(call.step = "finalize_index" /\ call.f = g)
        /\ "refined" \in files[g] => index[g].refined \/ (call.step = "refine_index" /\ call.f = g)
    BY <1>2 DEF AgreeInv
  <1>4. /\ index[g].refined => index'[g].refined
        /\ index'[g].verified = index[g].verified \/ (upsert_verified_index /\ g = call.f)
    BY IndexOfStep DEF DownstreamStep
  <1>5. CASE \E f \in Findings : extract_source(f)
    <2>1. PICK f \in Findings : extract_source(f)
      BY <1>5
    <2>2. /\ call.step = "idle" /\ call'.step = "extract_file" /\ UNCHANGED <<session, receipt, index>>
          /\ files' = [files EXCEPT ![f] = @ \cup {"source"}]
      BY <2>1 DEF extract_source, Idle, At
    <2>3. "refined" \in files'[g] => "refined" \in files[g]
      BY <1>0, <2>2
    <2> QED
      BY <1>3, <2>2, <2>3
  <1>6. CASE \E f \in Findings : refine_file(f)
    <2>1. PICK f \in Findings : refine_file(f)
      BY <1>6
    <2>2. /\ call.step = "idle" /\ call'.step = "refine_index" /\ call'.f = f
          /\ UNCHANGED <<session, receipt, index>>
          /\ files' = [files EXCEPT ![f] = @ \cup {"refined"}]
      BY <2>1 DEF refine_file, Idle, At
    <2>3. g # f => files'[g] = files[g]
      BY <1>0, <2>2
    <2> QED
      BY <1>3, <2>2, <2>3
  <1>7. CASE extract_file
    <2>1. /\ call.step = "extract_file" /\ call'.step = "extract_index"
          /\ UNCHANGED <<session, receipt, index>>
          /\ files' = [files EXCEPT ![call.f] = @ \cup {"extracted"}]
      BY <1>7 DEF extract_file, TypeOK, Call
    <2>2. "refined" \in files'[g] => "refined" \in files[g]
      BY <1>0, <2>1
    <2> QED
      BY <1>3, <2>1, <2>2
  <1>8. CASE extract_index
    <2>1. call.step = "extract_index" /\ call'.step = "idle" /\ UNCHANGED <<files, session, receipt>>
      BY <1>8 DEF extract_index, Done, At
    <2>2. ~upsert_verified_index
      BY <2>1 DEF upsert_verified_index
    <2> QED
      BY <1>3, <1>4, <2>1, <2>2
  <1>9. CASE refine_index
    <2>1. call.step = "refine_index" /\ call'.step = "idle" /\ UNCHANGED <<files, session, receipt>>
      BY <1>9 DEF refine_index, Done, At
    <2>2. ~upsert_verified_index
      BY <2>1 DEF upsert_verified_index
    <2>3. g = call.f => index'[g].refined
      <3> DEFINE new == Entry("refined", TRUE)
                 e == merge_index_entry(index[call.f], new, merge_preserve_stage2(index[call.f], new))
      <3>1. index' = [index EXCEPT ![call.f] = e]
        BY <1>9 DEF refine_index, upsert_index_entry
      <3>2. e.refined
        BY DEF merge_index_entry, merge_preserve_stage2, Entry
      <3> QED
        BY <1>0, <3>1, <3>2
    <2> QED
      BY <1>3, <1>4, <2>1, <2>2, <2>3
  <1>10. CASE \E f \in Findings :
                 \/ do_start_verification(f) \/ do_abort_verification(f)
                 \/ \E kind \in Kinds, c \in Contents : do_append_clarification(f, kind, c)
    <2>1. UNCHANGED <<files, receipt, index, call>> /\ call.step = "idle"
      BY <1>10 DEF do_start_verification, do_abort_verification, do_append_clarification, Idle
    <2>2. session'[g].state = "Finalized" <=> session[g].state = "Finalized"
      <3>1. PICK f \in Findings :
               \/ do_start_verification(f) \/ do_abort_verification(f)
               \/ \E kind \in Kinds, c \in Contents : do_append_clarification(f, kind, c)
        BY <1>10
      <3>2. CASE do_start_verification(f)
        BY <1>0, <3>2 DEF do_start_verification, build_new_session, can_transition
      <3>3. CASE do_abort_verification(f)
        BY <1>0, <3>3 DEF do_abort_verification, can_transition, SessionFile
      <3>4. CASE \E kind \in Kinds, c \in Contents : do_append_clarification(f, kind, c)
        <4>1. PICK kind \in Kinds, c \in Contents : do_append_clarification(f, kind, c)
          BY <3>4
        <4>2. session[f].state # "Finalized" /\ can_transition(session[f].state, kind) # "Finalized"
          BY <4>1 DEF do_append_clarification, can_transition, transition, Kinds
        <4>3. \A h \in Findings : h # f => session'[h] = session[h]
          BY <1>0, <4>1 DEF do_append_clarification
        <4>4. session'[f].state = can_transition(session[f].state, kind)
          BY <1>0, <4>1 DEF do_append_clarification, SessionFile
        <4> QED
          BY <4>2, <4>3, <4>4
      <3> QED
        BY <3>1, <3>2, <3>3, <3>4
    <2> QED
      BY <1>3, <2>1, <2>2
  <1>11. CASE \E f \in Findings : finalize_receipt(f)
    <2>1. PICK f \in Findings : finalize_receipt(f)
      BY <1>11
    <2>2. /\ call.step = "idle" /\ call'.step = "finalize_session" /\ call'.f = f
          /\ UNCHANGED <<files, session, index>>
          /\ receipt' = [receipt EXCEPT ![f] = build_verified_artifact(session[f])]
      BY <2>1 DEF finalize_receipt, Idle, At
    <2>3. build_verified_artifact(session[f]).exists
      BY DEF build_verified_artifact
    <2>4. receipt'[f].exists /\ (g # f => receipt'[g] = receipt[g])
      BY <1>0, <2>2, <2>3
    <2> QED
      BY <1>3, <2>2, <2>4
  <1>12. CASE finalize_session
    <2>1. /\ call.step = "finalize_session" /\ call'.step = "finalize_index" /\ call'.f = call.f
          /\ UNCHANGED <<files, receipt, index>>
          /\ session' = [session EXCEPT ![call.f] = [call.sess EXCEPT !.state = "Finalized"]]
      BY <1>12 DEF finalize_session, TypeOK, Call
    <2>2. call.sess \in SessionFile /\ session[call.f].state = "WaitingForAgent"
      BY <2>1 DEF CallInv, TypeOK, Call
    <2>3. session'[call.f].state = "Finalized" /\ (g # call.f => session'[g] = session[g])
      BY <1>0, <2>1, <2>2 DEF SessionFile
    <2> QED
      BY <1>3, <2>1, <2>2, <2>3
  <1>13. CASE upsert_verified_index
    <2>1. call.step = "finalize_index" /\ call'.step = "idle" /\ UNCHANGED <<files, session, receipt>>
      BY <1>13 DEF upsert_verified_index, Done, At
    <2>2. session[call.f].state = "Finalized" /\ receipt[call.f].verified
      <3>1. session[call.f].state = "Finalized"
        BY <2>1 DEF CallInv
      <3>2. /\ receipt[call.f] = build_verified_artifact(session[call.f])
            /\ session[call.f].schema_ok /\ compute_completeness(session[call.f].transcript)
        BY <1>0, <3>1 DEF SessionInv
      <3>3. build_verified_artifact(session[call.f]).verified
              = (session[call.f].schema_ok /\ compute_completeness(session[call.f].transcript))
        BY DEF build_verified_artifact
      <3> QED
        BY <3>1, <3>2, <3>3
    <2>3. g = call.f => index'[g].verified
      <3> DEFINE new == [artifact |-> "blank", refined |-> FALSE,
                         verified |-> receipt[call.f].verified, stage2 |-> TRUE]
                 e == merge_index_entry(index[call.f], new, merge_preserve_refined_only(index[call.f], new))
      <3>1. index' = [index EXCEPT ![call.f] = e]
        BY <1>13 DEF upsert_verified_index, upsert_index_entry
      <3>2. e.verified
        BY <1>0, <2>2 DEF merge_index_entry, merge_preserve_refined_only, IndexEntry
      <3> QED
        BY <1>0, <3>1, <3>2
    <2> QED
      BY <1>3, <1>4, <2>1, <2>2, <2>3
  <1> QED
    BY <1>1, <1>5, <1>6, <1>7, <1>8, <1>9, <1>10, <1>11, <1>12, <1>13 DEF Next

\* As long as no call is cut short, between calls a session is finalized
\* exactly if it has its receipt and exactly if the index publishes it, with
\* the path of the refined artifact (persist_finalize, upsert_index_entry).
THEOREM RecordsAlwaysAgree == Spec => []RecordsAgree
  <1>1. Init => AgreeInv
    <2>1. NoEntry.verified = FALSE /\ NoReceipt.exists = FALSE /\ NoSession.state = "Absent"
      BY DEF NoEntry, NoReceipt, NoSession
    <2>2. ASSUME Init PROVE call.step = "idle"
      BY <2>2 DEF Init, At
    <2>3. ASSUME Init, NEW f \in Findings
          PROVE  ~receipt[f].exists /\ ~index[f].verified /\ session[f].state # "Finalized" /\ files[f] = {}
      BY <2>1, <2>3 DEF Init
    <2> QED
      BY <2>2, <2>3 DEF AgreeInv
  <1>2. IInv /\ IndexInv /\ AgreeInv /\ [Next]_vars => AgreeInv'
    <2>1. ASSUME IInv, IndexInv, AgreeInv, Next PROVE AgreeInv'
      <3>1. CASE faults' = 0
        BY <2>1, <3>1, AgreeOfStep
      <3>2. CASE faults' # 0
        BY <3>2 DEF AgreeInv
      <3> QED
        BY <3>1, <3>2
    <2>2. ASSUME AgreeInv, UNCHANGED vars PROVE AgreeInv'
      BY <2>2 DEF AgreeInv, vars
    <2> QED
      BY <2>1, <2>2
  <1>3. IInv /\ IndexInv /\ AgreeInv => RecordsAgree
    <2> SUFFICES ASSUME IInv, IndexInv, AgreeInv, Idle, faults = 0, NEW f \in Findings
                 PROVE  /\ receipt[f].exists <=> session[f].state = "Finalized"
                        /\ index[f].verified <=> session[f].state = "Finalized"
                        /\ index[f].verified => index[f].artifact = "refined"
      BY DEF RecordsAgree
    <2>1. "refined" \in files[f] => index[f].refined
      BY DEF AgreeInv, Idle
    <2>2. index[f].verified => "refined" \in files[f]
      BY DEF IInv, VerifiedEntryIsBacked
    <2>3. index[f].refined => index[f].artifact = "refined"
      BY DEF IndexInv
    <2> QED
      BY <2>1, <2>2, <2>3 DEF AgreeInv, Idle
  <1> QED
    BY <1>1, <1>2, <1>3, IndexIsInvariant, PTL DEF Spec
=============================================================================
