--------------------------- MODULE VerifiedLedger ---------------------------
(***************************************************************************)
(* What stages 1 and 2 promise to the stages that follow them.  A reader   *)
(* that scans index.json for `verified: true` entries sees a ledger: for   *)
(* each finding either nothing, or the transcript that was verified.  An   *)
(* entry is written once, only for a complete conversation, and never      *)
(* changes or disappears afterwards.                                       *)
(***************************************************************************)
EXTENDS Naturals, Sequences

CONSTANTS Findings,     \* finding ids of one run
          Contents,     \* what a turn of the conversation can say
          MaxTurns      \* bound on the length of a conversation

VARIABLE ledger         \* finding -> the verified transcript, <<>> for none

Kinds == {"agent_question", "user_answer"}
Turn == [kind : Kinds, content : Contents]
Transcripts == UNION {[1 .. n -> Turn] : n \in 0 .. MaxTurns}

Has(t, kind) == \E i \in 1 .. Len(t) : t[i].kind = kind

\* A conversation that was asked and answered at least once.
Complete(t) == Has(t, "agent_question") /\ Has(t, "user_answer")

Publish(f) ==
    /\ ledger[f] = <<>>
    /\ \E t \in Transcripts :
          /\ Complete(t)
          /\ ledger' = [ledger EXCEPT ![f] = t]

Init == ledger = [f \in Findings |-> <<>>]
Next == \E f \in Findings : Publish(f)
Spec == Init /\ [][Next]_ledger
=============================================================================
