--------------------------- MODULE LspClientProofs ---------------------------
(***************************************************************************)
(* Proofs about LspClient: for queues and pipes of any depth, any number of *)
(* calls and any set of frames the server sends unasked.                    *)
(***************************************************************************)
EXTENDS LspClient, TLAPS

-----------------------------------------------------------------------------
(* Sequences as what is on its way.                                        *)

\* Taking the first element leaves the others.
LEMMA TailRange ==
    ASSUME NEW S, NEW q \in Seq(S), q # <<>>
    PROVE  /\ Tail(q) \in Seq(S) /\ Len(Tail(q)) = Len(q) - 1 /\ Head(q) \in S
           /\ Range(q) = {Head(q)} \cup Range(Tail(q))
  <1>1. /\ Tail(q) \in Seq(S) /\ Len(Tail(q)) = Len(q) - 1 /\ Head(q) = q[1]
        /\ Len(q) \in Nat \ {0} /\ Head(q) \in S
        /\ \A i \in 1 .. Len(q) - 1 : Tail(q)[i] = q[i + 1]
    OBVIOUS
  <1>2. Range(q) = {q[i] : i \in 1 .. Len(q)}
    BY DEF Range
  <1>3. Range(Tail(q)) = {Tail(q)[i] : i \in 1 .. Len(q) - 1}
    BY <1>1 DEF Range
  <1>4. ASSUME NEW i \in 1 .. Len(q)
        PROVE  q[i] \in {Head(q)} \cup Range(Tail(q))
    <2>1. CASE i = 1
      BY <2>1, <1>1
    <2>2. CASE i # 1
      <3>1. i - 1 \in 1 .. Len(q) - 1 /\ Tail(q)[i - 1] = q[i]
        BY <2>2, <1>1
      <3> QED  BY <3>1, <1>3
    <2> QED  BY <2>1, <2>2
  <1>5. ASSUME NEW i \in 1 .. Len(q) - 1
        PROVE  Tail(q)[i] \in Range(q)
    BY <1>1, <1>2
  <1>6. Head(q) \in Range(q)
    BY <1>1, <1>2
  <1> QED  BY <1>1, <1>2, <1>3, <1>4, <1>5, <1>6

\* Appending an element adds it.
LEMMA AppendRange ==
    ASSUME NEW S, NEW q \in Seq(S), NEW f \in S
    PROVE  /\ Append(q, f) \in Seq(S) /\ Len(Append(q, f)) = Len(q) + 1
           /\ Range(Append(q, f)) = Range(q) \cup {f}
  <1>1. /\ Append(q, f) \in Seq(S) /\ Len(Append(q, f)) = Len(q) + 1
        /\ Len(q) \in Nat
        /\ \A i \in 1 .. Len(q) : Append(q, f)[i] = q[i]
        /\ Append(q, f)[Len(q) + 1] = f
    OBVIOUS
  <1>2. Range(q) = {q[i] : i \in 1 .. Len(q)}
    BY DEF Range
  <1>3. Range(Append(q, f)) = {Append(q, f)[i] : i \in 1 .. Len(q) + 1}
    BY <1>1 DEF Range
  <1>4. ASSUME NEW i \in 1 .. Len(q) + 1
        PROVE  Append(q, f)[i] \in Range(q) \cup {f}
    <2>1. CASE i = Len(q) + 1
      BY <2>1, <1>1
    <2>2. CASE i # Len(q) + 1
      BY <2>2, <1>1, <1>2
    <2> QED  BY <2>1, <2>2
  <1>5. \A i \in 1 .. Len(q) : q[i] \in Range(Append(q, f))
    BY <1>1, <1>3
  <1>6. f \in Range(Append(q, f))
    BY <1>1, <1>3
  <1> QED  BY <1>1, <1>2, <1>3, <1>4, <1>5, <1>6

\* The empty sequence has nothing.
LEMMA EmptyRange == Range(<<>>) = {}
  BY DEF Range

-----------------------------------------------------------------------------
(* Types.                                                                  *)

\* What the model calls a frame is one.
LEMMA FrameTypes ==
    /\ NoFrame \in Frame /\ Fatal \in Frame /\ Unasked \subseteq Frame
    /\ \A id, serial \in Nat : frame("response", id, serial, "unknown") \in Frame
  BY LspAssumption DEF LspAssumption, NoFrame, Fatal, frame, Frame, FrameKinds, Health

\* The client leaves the state of the reader and of the server alone.
LEMMA ClientLeaves ==
    ASSUME ClientStep
    PROVE  UNCHANGED <<reader, stdout, answered, sent, loaded>>
  BY DEF ClientStep, get_definition, did_open, drain_pending, drain_done,
         write_lsp_message, write_failed, read_response, read_disconnected,
         read_expired, wait_for_ready, ready_checkpoint, respond_to_create,
         shutdown, kill, Dead, serverVars

\* Neither the reader nor the server touches the client's.
LEMMA OthersLeave ==
    ASSUME ReaderStep \/ ServerStep
    PROVE  UNCHANGED clientVars
  BY DEF ReaderStep, read_lsp_message, read_eof, send_frame, ServerStep,
         server_receive, server_answer, server_talk, send, server_write, server_exit

\* The part of the type invariant that the client's state needs.
LEMMA ClientTypes ==
    ASSUME TypeOK
    PROVE  /\ client \in [pc : ClientSteps, op : Requests \cup Notifications,
                          id : Nat, serial : Nat]
           /\ wait \in [health : Health, readiness : Outcomes]
           /\ next_id \in Nat /\ calls \in Nat /\ queue \in Seq(Frame)
  BY LspAssumption DEF LspAssumption, TypeOK, Client, Wait

\* The head of the queue is on its way.
LEMMA HeadIsOnItsWay ==
    ASSUME TypeOK, queue # <<>>
    PROVE  Head(queue) \in OnItsWay /\ Head(queue) \in Frame
  BY ClientTypes, TailRange DEF OnItsWay

\* A request takes the next id, everything else keeps it.
LEMMA IdStep ==
    ASSUME IInv, [Next]_vars
    PROVE  IdInv'
  <1>0. /\ client \in [pc : ClientSteps, op : Requests \cup Notifications,
                       id : Nat, serial : Nat]
        /\ next_id \in Nat /\ IdInv
    BY ClientTypes DEF IInv
  <1> USE <1>0 DEF IdInv
  <1>1. CASE get_definition \/ did_open
    <2>1. CASE get_definition
      BY <2>1 DEF get_definition, begin_request
    <2>2. CASE did_open
      BY <2>2 DEF did_open, begin_notification
    <2> QED  BY <1>1, <2>1, <2>2
  <1>2. CASE drain_pending \/ drain_done \/ write_lsp_message
    BY <1>2 DEF drain_pending, drain_done, write_lsp_message, At, clientVars
  <1>3. CASE write_failed \/ read_disconnected \/ read_expired
    BY <1>3 DEF write_failed, read_disconnected, read_expired, fail, At, begin_notification
  <1>4. CASE read_response
    BY <1>4 DEF read_response, succeed, fail, At, begin_notification
  <1>5. CASE wait_for_ready \/ ready_checkpoint \/ respond_to_create
    BY <1>5 DEF wait_for_ready, ready_checkpoint, respond_to_create, finish, health_gate, At
  <1>6. CASE shutdown \/ kill
    BY <1>6 DEF shutdown, kill, begin_request, At
  <1>7. CASE ReaderStep \/ ServerStep
    BY <1>7, OthersLeave DEF clientVars
  <1>8. CASE UNCHANGED vars
    BY <1>8 DEF vars
  <1> QED  BY <1>1, <1>2, <1>3, <1>4, <1>5, <1>6, <1>7, <1>8 DEF Next, ClientStep

\* The order of the pass: the gate before the calls, the calls before the
\* shutdown.
LEMMA GateStep ==
    ASSUME IInv, [Next]_vars
    PROVE  GateInv'
  <1>0. /\ client \in [pc : ClientSteps, op : Requests \cup Notifications,
                       id : Nat, serial : Nat]
        /\ wait \in [health : Health, readiness : Outcomes]
        /\ next_id \in Nat /\ calls \in Nat /\ GateInv
    BY ClientTypes DEF IInv
  <1> USE <1>0 DEF GateInv, Requests, Notifications
  <1>1. CASE get_definition \/ did_open
    <2>1. CASE get_definition
      BY <2>1 DEF get_definition, begin_request, serverVars
    <2>2. CASE did_open
      BY <2>2 DEF did_open, begin_notification, serverVars
    <2> QED  BY <1>1, <2>1, <2>2
  <1>2. CASE drain_pending \/ drain_done
    BY <1>2 DEF drain_pending, drain_done, At, clientVars, serverVars
  <1>3. CASE write_lsp_message
    BY <1>3 DEF write_lsp_message, written, At, serverVars
  <1>4. CASE write_failed \/ read_disconnected \/ read_expired
    BY <1>4 DEF write_failed, read_disconnected, read_expired, fail, failed, At,
         begin_notification, serverVars
  <1>5. CASE read_response
    BY <1>5 DEF read_response, succeed, fail, failed, At, begin_notification, serverVars
  <1>6. CASE wait_for_ready
    <2>1. Sound(Head(queue)) /\ Head(queue) \in Frame
      BY <1>6, HeadIsOnItsWay DEF IInv, FlightInv, wait_for_ready
    <2>2. client.pc = "ready" /\ UNCHANGED <<next_id, calls, loaded>>
      BY <1>6 DEF wait_for_ready, serverVars
    <2>3. CASE Head(queue).kind = "quiescent"
      <3>1. finish(record(wait, Head(queue)), "ServerReportedQuiescent")
        BY <1>6, <2>3 DEF wait_for_ready
      <3>2. /\ wait' = [health |-> Head(queue).health, readiness |-> "ServerReportedQuiescent"]
            /\ client' = [client EXCEPT
                  !.pc = IF Head(queue).health = "error" THEN "closing" ELSE "idle"]
        BY <3>1 DEF finish, health_gate, record, At
      <3>3. Head(queue).health # "error" => loaded
        BY <2>1, <2>3 DEF Sound
      <3> QED  BY <2>2, <3>2, <3>3
    <2>4. CASE Head(queue).kind = "garbage"
      <3>1. finish(wait, "give_up")
        BY <1>6, <2>4 DEF wait_for_ready
      <3>2. /\ wait' = [wait EXCEPT !.readiness = "give_up"]
            /\ client' = [client EXCEPT
                  !.pc = IF wait.health = "error" THEN "closing" ELSE "idle"]
        BY <3>1 DEF finish, health_gate, At
      <3> QED  BY <2>2, <3>2
    <2>5. CASE Head(queue).kind \notin {"quiescent", "garbage"}
      <3>1. /\ client' = client \/ client' = [client EXCEPT !.pc = "ack"]
            /\ wait' = wait \/ wait' = [wait EXCEPT !.health = Head(queue).health]
        BY <1>6, <2>5 DEF wait_for_ready, record, At
      <3>2. wait.readiness = "none"
        BY <2>2
      <3> QED  BY <2>2, <3>1, <3>2
    <2> QED  BY <2>3, <2>4, <2>5
  <1>7. CASE ready_checkpoint \/ respond_to_create
    BY <1>7 DEF ready_checkpoint, respond_to_create, finish, health_gate, At, serverVars
  <1>8. CASE shutdown
    BY <1>8 DEF shutdown, begin_request, serverVars
  <1>9. CASE kill
    BY <1>9 DEF kill, At, Dead
  <1>10. CASE ReaderStep \/ ServerStep
    <2>1. UNCHANGED clientVars
      BY <1>10, OthersLeave
    <2>2. loaded => loaded'
      BY <1>10 DEF ReaderStep, read_lsp_message, read_eof, send_frame, serverVars, ServerStep,
         server_receive, server_answer, server_talk, server_write, server_exit, Dead
    <2> QED  BY <2>1, <2>2 DEF clientVars
  <1>11. CASE UNCHANGED vars
    BY <1>11 DEF vars
  <1> QED  BY <1>1, <1>2, <1>3, <1>4, <1>5, <1>6, <1>7, <1>8, <1>9, <1>10, <1>11
           DEF Next, ClientStep

\* The client's state keeps its type: by the order of the pass, the ids given
\* out stay within the number of calls.
LEMMA ClientTypeStep ==
    ASSUME IInv, [Next]_vars
    PROVE  /\ client' \in Client /\ wait' \in Wait /\ answer' \in Frame
           /\ next_id' \in 1 .. MaxCalls + 3 /\ calls' \in 0 .. MaxCalls
  <1>0. /\ client \in [pc : ClientSteps, op : Requests \cup Notifications,
                       id : Nat, serial : Nat]
        /\ wait \in [health : Health, readiness : Outcomes]
        /\ next_id \in Nat /\ next_id >= 1 /\ calls \in Nat /\ calls <= MaxCalls
        /\ answer \in Frame /\ NoFrame \in Frame /\ MaxCalls \in Nat
    BY LspAssumption, ClientTypes, FrameTypes DEF LspAssumption, IInv, TypeOK
  <1>1. ASSUME calls' \in Nat, calls' <= MaxCalls, next_id' \in Nat, next_id' >= 1
        PROVE  next_id' \in 1 .. MaxCalls + 3 /\ calls' \in 0 .. MaxCalls
    <2>1. next_id' <= calls' + 3
      BY GateStep DEF GateInv
    <2>2. PICK n, c : n = next_id' /\ c = calls'
      OBVIOUS
    <2>3. n \in Nat /\ c \in Nat /\ n <= c + 3 /\ c <= MaxCalls /\ n >= 1 /\ MaxCalls \in Nat
      BY <1>0, <1>1, <2>1, <2>2
    <2>4. n \in 1 .. MaxCalls + 3 /\ c \in 0 .. MaxCalls
      BY <2>3
    <2> QED  BY <2>2, <2>4
  <1> USE <1>0 DEF Client, Wait, ClientSteps, Requests, Notifications, Outcomes
  <1>2. CASE get_definition
    BY <1>1, <1>2 DEF get_definition, begin_request
  <1>3. CASE did_open
    <2>1. calls' = calls + 1 /\ calls < MaxCalls /\ UNCHANGED <<wait, next_id>>
      BY <1>3 DEF did_open, begin_notification
    <2>2. client' \in Client /\ answer' \in Frame
      BY <1>3 DEF did_open, begin_notification
    <2> QED  BY <1>1, <2>1, <2>2
  <1>4. CASE drain_pending \/ drain_done
    BY <1>1, <1>4 DEF drain_pending, drain_done, At, clientVars
  <1>5. CASE write_lsp_message
    BY <1>1, <1>5 DEF write_lsp_message, written, At
  <1>6. CASE write_failed \/ read_disconnected \/ read_expired
    BY <1>1, <1>6 DEF write_failed, read_disconnected, read_expired, fail, failed, At,
         begin_notification
  <1>7. CASE read_response
    <2>1. Head(queue) \in Frame
      BY <1>7, HeadIsOnItsWay DEF IInv, read_response
    <2>2. CASE fail /\ UNCHANGED <<wait, calls>>
      BY <1>1, <2>2 DEF fail, failed, At, begin_notification
    <2>3. CASE succeed(Head(queue)) /\ UNCHANGED <<wait, calls>>
      BY <1>1, <2>1, <2>3 DEF succeed, At, begin_notification
    <2>4. CASE At("closing") /\ UNCHANGED <<answer, next_id, wait, calls>>
      BY <1>1, <2>4 DEF At
    <2>5. CASE UNCHANGED <<client, answer, next_id, wait, calls>>
      BY <1>1, <2>5
    <2> QED  BY <1>7, <2>2, <2>3, <2>4, <2>5 DEF read_response
  <1>8. CASE wait_for_ready
    <2>1. Head(queue).health \in Health
      BY <1>8, HeadIsOnItsWay DEF IInv, wait_for_ready, Frame
    <2>2. UNCHANGED <<answer, next_id, calls>>
      BY <1>8 DEF wait_for_ready
    <2>3. record(wait, Head(queue)) \in Wait
      BY <2>1 DEF record
    <2>4. ASSUME NEW w \in Wait, NEW r \in Outcomes, finish(w, r)
          PROVE  client' \in Client /\ wait' \in Wait
      BY <2>4 DEF finish, health_gate, At
    <2>5. \/ finish(record(wait, Head(queue)), "ServerReportedQuiescent")
          \/ finish(wait, "give_up")
          \/ client' = [client EXCEPT !.pc = "ack"] /\ wait' = wait
          \/ client' = client /\ wait' \in {wait, record(wait, Head(queue))}
      BY <1>8 DEF wait_for_ready, At
    <2>6. client' \in Client /\ wait' \in Wait
      BY <2>3, <2>4, <2>5
    <2> QED  BY <1>1, <2>2, <2>6
  <1>9. CASE ready_checkpoint \/ respond_to_create
    BY <1>1, <1>9 DEF ready_checkpoint, respond_to_create, finish, health_gate, At
  <1>10. CASE shutdown
    BY <1>1, <1>10 DEF shutdown, begin_request
  <1>11. CASE kill
    BY <1>1, <1>11 DEF kill, At
  <1>12. CASE ReaderStep \/ ServerStep
    BY <1>1, <1>12, OthersLeave DEF clientVars
  <1>13. CASE UNCHANGED vars
    BY <1>1, <1>13 DEF vars
  <1> QED  BY <1>2, <1>3, <1>4, <1>5, <1>6, <1>7, <1>8, <1>9, <1>10, <1>11, <1>12, <1>13
           DEF Next, ClientStep

\* The queues keep their type and their bounds.
LEMMA QueueTypeStep ==
    ASSUME IInv, [Next]_vars
    PROVE  /\ queue' \in Seq(Frame) /\ Len(queue') <= FRAME_QUEUE_DEPTH
           /\ stdin' \in Seq(Message) /\ Len(stdin') <= PipeDepth
           /\ stdout' \in Seq(Frame) /\ Len(stdout') <= PipeDepth
  <1>0. /\ queue \in Seq(Frame) /\ Len(queue) <= FRAME_QUEUE_DEPTH
        /\ stdin \in Seq(Message) /\ Len(stdin) <= PipeDepth
        /\ stdout \in Seq(Frame) /\ Len(stdout) <= PipeDepth
        /\ FRAME_QUEUE_DEPTH \in Nat \ {0} /\ PipeDepth \in Nat \ {0}
        /\ reader.frame \in Frame /\ server.writing \in Frame /\ asked \subseteq Message
        /\ client \in [pc : ClientSteps, op : Requests \cup Notifications,
                       id : Nat, serial : Nat]
    BY LspAssumption, ClientTypes DEF LspAssumption, IInv, TypeOK, Reader
  <1>1. \A S : <<>> \in Seq(S) /\ Len(<<>>) = 0
    OBVIOUS
  <1>2. ASSUME NEW S, NEW q \in Seq(S), q # <<>>
        PROVE  Tail(q) \in Seq(S) /\ Len(Tail(q)) <= Len(q)
    BY <1>2
  <1>3. ASSUME NEW S, NEW q \in Seq(S), NEW f \in S, NEW n \in Nat, Len(q) < n
        PROVE  Append(q, f) \in Seq(S) /\ Len(Append(q, f)) <= n
    BY <1>3
  <1>4. CASE ClientStep
    <2>1. UNCHANGED stdout
      BY <1>4, ClientLeaves
    <2>2. \/ queue' = queue
          \/ queue # <<>> /\ queue' = Tail(queue)
          \/ queue' = <<>>
      BY <1>4 DEF ClientStep, get_definition, did_open, drain_pending, drain_done,
         write_lsp_message, write_failed, read_response, read_disconnected,
         read_expired, wait_for_ready, ready_checkpoint, respond_to_create, shutdown, kill
    <2>3. \/ stdin' = stdin
          \/ stdin' = <<>>
          \/ /\ Room(stdin)
             /\ stdin' = Append(stdin, [op |-> client.op, id |-> client.id,
                                        serial |-> client.serial])
          \/ Room(stdin) /\ stdin' = Append(stdin, [op |-> "ack", id |-> 0, serial |-> 0])
      BY <1>4 DEF ClientStep, get_definition, did_open, drain_pending, drain_done,
         write_lsp_message, write_failed, read_response, read_disconnected,
         read_expired, wait_for_ready, ready_checkpoint, respond_to_create, shutdown, kill, Dead
    <2>4. /\ [op |-> client.op, id |-> client.id, serial |-> client.serial] \in Message
          /\ [op |-> "ack", id |-> 0, serial |-> 0] \in Message
      BY <1>0 DEF Message
    <2>5. queue' \in Seq(Frame) /\ Len(queue') <= FRAME_QUEUE_DEPTH
      <3>1. CASE queue # <<>> /\ queue' = Tail(queue)
        BY <1>0, <3>1
      <3>2. CASE queue' = <<>>
        BY <1>0, <3>2
      <3> QED  BY <1>0, <2>2, <3>1, <3>2
    <2>6. stdin' \in Seq(Message) /\ Len(stdin') <= PipeDepth
      <3>1. ASSUME NEW m \in Message, Room(stdin), stdin' = Append(stdin, m)
            PROVE  stdin' \in Seq(Message) /\ Len(stdin') <= PipeDepth
        BY <1>0, <3>1 DEF Room
      <3>2. CASE stdin' = <<>>
        BY <1>0, <3>2
      <3> QED  BY <1>0, <2>3, <2>4, <3>1, <3>2
    <2> QED  BY <1>0, <2>1, <2>5, <2>6
  <1>5. CASE read_lsp_message
    BY <1>0, <1>2, <1>5 DEF read_lsp_message
  <1>6. CASE read_eof
    BY <1>0, <1>6 DEF read_eof
  <1>7. CASE send_frame
    <2>1. UNCHANGED <<stdin, stdout>>
      BY <1>7 DEF send_frame
    <2>2. \/ queue' = queue
          \/ Len(queue) < FRAME_QUEUE_DEPTH /\ queue' = Append(queue, reader.frame)
      BY <1>7 DEF send_frame
    <2>3. CASE Len(queue) < FRAME_QUEUE_DEPTH /\ queue' = Append(queue, reader.frame)
      BY <1>0, <2>1, <2>3
    <2> QED  BY <1>0, <2>1, <2>2, <2>3
  <1>8. CASE server_receive
    BY <1>0, <1>2, <1>8 DEF server_receive
  <1>9. ASSUME NEW f \in Frame, send(f)
        PROVE  /\ UNCHANGED <<queue, stdin>>
               /\ stdout' \in Seq(Frame) /\ Len(stdout') <= PipeDepth
    BY <1>0, <1>3, <1>9 DEF send, Room
  <1>10. CASE \E m \in asked : server_answer(m)
    <2>1. PICK m \in asked : send(frame("response", m.id, m.serial, "unknown"))
      BY <1>10 DEF server_answer
    <2>2. m.id \in Nat /\ m.serial \in Nat
      BY <1>0 DEF Message
    <2> QED  BY <1>0, <1>9, <2>1, <2>2, FrameTypes
  <1>11. CASE \E f \in Unasked : server_talk(f)
    BY <1>0, <1>9, <1>11, FrameTypes DEF server_talk
  <1>12. CASE server_write
    BY <1>0, <1>3, <1>12 DEF server_write, Room
  <1>13. CASE server_exit
    BY <1>0, <1>1, <1>13 DEF server_exit, Dead
  <1>14. CASE UNCHANGED vars
    BY <1>0, <1>14 DEF vars
  <1> QED  BY <1>4, <1>5, <1>6, <1>7, <1>8, <1>10, <1>11, <1>12, <1>13, <1>14
           DEF Next, ReaderStep, ServerStep

\* The reader and the server keep their types.
LEMMA PeerTypeStep ==
    ASSUME IInv, [Next]_vars
    PROVE  /\ reader' \in Reader /\ server' \in [up : BOOLEAN, writing : Frame]
           /\ asked' \in SUBSET Message /\ answered' \in SUBSET Nat
           /\ sent' \in 0 .. MaxFrames /\ loaded' \in BOOLEAN
  <1>0. /\ reader \in Reader /\ server \in [up : BOOLEAN, writing : Frame]
        /\ asked \in SUBSET Message /\ answered \in SUBSET Nat
        /\ sent \in 0 .. MaxFrames /\ loaded \in BOOLEAN
        /\ stdin \in Seq(Message) /\ stdout \in Seq(Frame) /\ MaxFrames \in Nat
        /\ NoFrame \in Frame /\ Fatal \in Frame
    BY LspAssumption, FrameTypes DEF LspAssumption, IInv, TypeOK
  <1>1. Dead => /\ server' \in [up : BOOLEAN, writing : Frame] /\ asked' \in SUBSET Message
                /\ UNCHANGED <<answered, sent, loaded>>
    BY <1>0 DEF Dead
  <1>2. CASE ClientStep
    <2>1. \/ UNCHANGED serverVars
          \/ Dead
      BY <1>2 DEF ClientStep, get_definition, did_open, drain_pending, drain_done,
         write_lsp_message, write_failed, read_response, read_disconnected,
         read_expired, wait_for_ready, ready_checkpoint, respond_to_create, shutdown, kill
    <2> QED  BY <1>0, <1>1, <1>2, <2>1, ClientLeaves DEF serverVars
  <1>3. CASE read_lsp_message
    <2>1. Head(stdout) \in Frame
      BY <1>0, <1>3 DEF read_lsp_message
    <2> QED  BY <1>0, <1>3, <2>1 DEF read_lsp_message, Reader, serverVars
  <1>4. CASE read_eof
    BY <1>0, <1>4 DEF read_eof, Reader, serverVars
  <1>5. CASE send_frame
    BY <1>0, <1>5 DEF send_frame, Sent, Reader, serverVars
  <1>6. CASE server_receive
    <2>1. Head(stdin) \in Message
      BY <1>0, <1>6 DEF server_receive
    <2> QED  BY <1>0, <1>6, <2>1 DEF server_receive
  <1>7. ASSUME NEW f \in Frame, send(f)
        PROVE  /\ UNCHANGED reader /\ server' \in [up : BOOLEAN, writing : Frame]
               /\ sent' \in 0 .. MaxFrames
    BY <1>0, <1>7 DEF send
  <1>8. CASE \E m \in asked : server_answer(m)
    <2>1. PICK m \in asked : server_answer(m)
      BY <1>8
    <2>2. m.id \in Nat /\ m.serial \in Nat
      BY <1>0 DEF Message
    <2>3. frame("response", m.id, m.serial, "unknown") \in Frame
      BY <2>2, FrameTypes
    <2> QED  BY <1>0, <1>7, <2>1, <2>2, <2>3 DEF server_answer
  <1>9. CASE \E f \in Unasked : server_talk(f)
    <2>1. PICK f \in Unasked : server_talk(f)
      BY <1>9
    <2> QED  BY <1>0, <1>7, <2>1, FrameTypes DEF server_talk
  <1>10. CASE server_write
    BY <1>0, <1>10 DEF server_write
  <1>11. CASE server_exit
    BY <1>0, <1>1, <1>11 DEF server_exit
  <1>12. CASE UNCHANGED vars
    BY <1>0, <1>12 DEF vars
  <1> QED  BY <1>2, <1>3, <1>4, <1>5, <1>6, <1>8, <1>9, <1>10, <1>11, <1>12
           DEF Next, ReaderStep, ServerStep

-----------------------------------------------------------------------------
(* What is on its way.                                                     *)

\* A step puts on its way only what is true.
LEMMA FlightStep ==
    ASSUME IInv, [Next]_vars
    PROVE  FlightInv'
  <1>0. /\ queue \in Seq(Frame) /\ stdout \in Seq(Frame)
        /\ reader \in Reader /\ server \in [up : BOOLEAN, writing : Frame]
        /\ reader.frame \in Frame /\ server.writing \in Frame
        /\ asked \subseteq Message /\ FlightInv
    BY DEF IInv, TypeOK, Reader
  <1>1. Sound(NoFrame)' /\ Sound(Fatal)'
    BY FrameTypes DEF Sound, NoFrame, Fatal, frame
  <1>2. loaded => loaded'
    BY DEF Next, vars, ClientStep, get_definition, did_open, drain_pending, drain_done,
         write_lsp_message, write_failed, read_response, read_disconnected,
         read_expired, wait_for_ready, ready_checkpoint, respond_to_create, shutdown, kill,
         ReaderStep, read_lsp_message, read_eof, send_frame, serverVars, ServerStep,
         server_receive, server_answer, server_talk, server_write, server_exit, Dead
  <1>3. \A f : Sound(f) => Sound(f)'
    BY <1>2 DEF Sound
  <1>4. ASSUME NEW n, Sound(n)', OnItsWay' \subseteq OnItsWay \cup {n, NoFrame},
               reader'.pc = "reading" => reader'.frame = NoFrame
        PROVE  FlightInv'
    <2>1. \A f \in OnItsWay : Sound(f)'
      BY <1>0, <1>3 DEF FlightInv
    <2>2. \A f \in OnItsWay' : Sound(f)'
      BY <1>1, <1>4, <2>1
    <2> QED  BY <1>4, <2>2 DEF FlightInv
  <1>5. CASE ClientStep
    <2>1. Range(queue') \subseteq Range(queue)
      <3>1. \/ queue' = queue
            \/ queue # <<>> /\ queue' = Tail(queue)
            \/ queue' = <<>>
        BY <1>5 DEF ClientStep, get_definition, did_open, drain_pending, drain_done,
           write_lsp_message, write_failed, read_response, read_disconnected,
           read_expired, wait_for_ready, ready_checkpoint, respond_to_create, shutdown, kill
      <3> QED  BY <1>0, <3>1, TailRange, EmptyRange
    <2>2. server'.writing \in {server.writing, NoFrame}
      BY <1>5 DEF ClientStep, get_definition, did_open, drain_pending, drain_done,
         write_lsp_message, write_failed, read_response, read_disconnected,
         read_expired, wait_for_ready, ready_checkpoint, respond_to_create, shutdown, kill,
         Dead, serverVars
    <2>3. UNCHANGED <<reader, stdout>>
      BY <1>5, ClientLeaves
    <2>4. OnItsWay' \subseteq OnItsWay \cup {NoFrame}
      BY <2>1, <2>2, <2>3 DEF OnItsWay
    <2> QED  BY <1>0, <1>1, <1>4, <2>3, <2>4 DEF FlightInv
  <1>6. CASE read_lsp_message
    <2>1. stdout # <<>> /\ stdout' = Tail(stdout) /\ UNCHANGED <<queue, server>>
          /\ reader' = [pc |-> "sending", frame |-> Head(stdout)]
      BY <1>6 DEF read_lsp_message, serverVars
    <2>2. Range(stdout) = {Head(stdout)} \cup Range(stdout')
      BY <1>0, <2>1, TailRange
    <2>3. OnItsWay' \subseteq OnItsWay
      BY <2>1, <2>2 DEF OnItsWay
    <2> QED  BY <1>1, <1>4, <2>1, <2>3
  <1>7. CASE read_eof
    <2>1. reader' = [pc |-> "sending", frame |-> Fatal] /\ UNCHANGED <<queue, stdout, server>>
      BY <1>7 DEF read_eof, serverVars
    <2>2. OnItsWay' \subseteq OnItsWay \cup {Fatal}
      BY <2>1 DEF OnItsWay
    <2> QED  BY <1>1, <1>4, <2>1, <2>2
  <1>8. CASE send_frame
    <2>1. reader'.frame = NoFrame /\ UNCHANGED <<stdout, server>>
      BY <1>8 DEF send_frame, Sent, serverVars
    <2>2. queue' = queue \/ queue' = Append(queue, reader.frame)
      BY <1>8 DEF send_frame
    <2>3. Range(queue') \subseteq Range(queue) \cup {reader.frame}
      <3>1. Range(Append(queue, reader.frame)) = Range(queue) \cup {reader.frame}
        BY <1>0, AppendRange
      <3> QED  BY <2>2, <3>1
    <2>4. OnItsWay' \subseteq OnItsWay \cup {NoFrame}
      BY <2>1, <2>3 DEF OnItsWay
    <2> QED  BY <1>1, <1>4, <2>1, <2>4
  <1>9. CASE server_receive
    <2>1. UNCHANGED <<reader, queue, stdout, server>>
      BY <1>9 DEF server_receive
    <2>2. OnItsWay' = OnItsWay
      BY <2>1 DEF OnItsWay
    <2> QED  BY <1>0, <1>1, <1>4, <2>1, <2>2 DEF FlightInv
  <1>10. ASSUME NEW f \in Frame, send(f), Sound(f)'
         PROVE  FlightInv'
    <2>1. UNCHANGED <<reader, queue>>
      BY <1>10 DEF send
    <2>2. \/ stdout' = Append(stdout, f) /\ server' = server
          \/ stdout' = stdout /\ server' = [server EXCEPT !.writing = f]
          \/ UNCHANGED <<stdout, server>>
      BY <1>10 DEF send
    <2>3. Range(stdout') \subseteq Range(stdout) \cup {f}
      <3>1. Range(Append(stdout, f)) = Range(stdout) \cup {f}
        BY <1>0, AppendRange
      <3> QED  BY <2>2, <3>1
    <2>4. server'.writing \in {server.writing, f}
      BY <1>0, <2>2
    <2>5. OnItsWay' \subseteq OnItsWay \cup {f}
      BY <2>1, <2>3, <2>4 DEF OnItsWay
    <2> QED  BY <1>0, <1>4, <1>10, <2>1, <2>5 DEF FlightInv
  <1>11. CASE \E m \in asked : server_answer(m)
    <2>1. PICK m \in asked : server_answer(m)
      BY <1>11
    <2>2. m.id \in Nat /\ m.serial \in Nat /\ m.id = m.serial
      BY <1>0 DEF Message, IInv, WrittenInv
    <2>3. Sound(frame("response", m.id, m.serial, "unknown"))'
      BY <2>2, FrameTypes DEF Sound, frame
    <2>4. frame("response", m.id, m.serial, "unknown") \in Frame
      BY <2>2, FrameTypes
    <2> QED  BY <1>10, <2>1, <2>3, <2>4 DEF server_answer
  <1>12. CASE \E f \in Unasked : server_talk(f)
    <2>1. PICK f \in Unasked : server_talk(f)
      BY <1>12
    <2>2. f \in Frame /\ f.kind # "response"
      BY FrameTypes, LspAssumption DEF LspAssumption
    <2>3. Sound(f)'
      BY <2>1, <2>2 DEF Sound, server_talk
    <2> QED  BY <1>10, <2>1, <2>2, <2>3 DEF server_talk
  <1>13. CASE server_write
    <2>1. /\ UNCHANGED <<reader, queue>>
          /\ server' = [server EXCEPT !.writing = NoFrame]
          /\ stdout' = stdout \/ stdout' = Append(stdout, server.writing)
      BY <1>13 DEF server_write
    <2>2. Range(stdout') \subseteq Range(stdout) \cup {server.writing}
      <3>1. Range(Append(stdout, server.writing)) = Range(stdout) \cup {server.writing}
        BY <1>0, AppendRange
      <3> QED  BY <2>1, <3>1
    <2>3. server'.writing = NoFrame
      BY <1>0, <2>1
    <2>4. OnItsWay' \subseteq OnItsWay \cup {NoFrame}
      BY <2>1, <2>2, <2>3 DEF OnItsWay
    <2> QED  BY <1>0, <1>1, <1>4, <2>1, <2>4 DEF FlightInv
  <1>14. CASE server_exit
    <2>1. UNCHANGED <<reader, queue, stdout>> /\ server'.writing = NoFrame
      BY <1>14 DEF server_exit, Dead
    <2>2. OnItsWay' \subseteq OnItsWay \cup {NoFrame}
      BY <2>1 DEF OnItsWay
    <2> QED  BY <1>0, <1>1, <1>4, <2>1, <2>2 DEF FlightInv
  <1>15. CASE UNCHANGED vars
    BY <1>0, <1>15 DEF vars, FlightInv, OnItsWay, Sound
  <1> QED  BY <1>5, <1>6, <1>7, <1>8, <1>9, <1>11, <1>12, <1>13, <1>14, <1>15
           DEF Next, ReaderStep, ServerStep

-----------------------------------------------------------------------------
(* Requests and answers.                                                   *)

\* What has been written stays written.
LEMMA WrittenGrows ==
    ASSUME IInv, [Next]_vars
    PROVE  Written \in Int /\ Written' \in Int /\ Written <= Written'
  <1>0. /\ client \in [pc : ClientSteps, op : Requests \cup Notifications,
                       id : Nat, serial : Nat]
        /\ client.pc = "read" => client.op \in Requests
        /\ client.op \in {"shutdown", "exit"} => client.pc \notin {"idle", "closing"}
    BY ClientTypes DEF IInv, GateInv
  <1>1. Written \in Int
    BY <1>0 DEF Written
  <1> USE <1>0 DEF Written, Requests
  <1>3. ASSUME NEW op, client' = [client EXCEPT !.pc = "drain", !.op = op],
               op \in {"initialized", "did_open", "exit"}
        PROVE  Written' \in Int /\ Written <= Written'
    BY <1>3
  <1>4. ASSUME NEW op, client.pc \in {"idle", "closing"},
               client' = [pc |-> "drain", op |-> op, id |-> next_id, serial |-> client.serial + 1]
        PROVE  Written' \in Int /\ Written <= Written'
    BY <1>4
  <1>5. CASE get_definition \/ shutdown
    BY <1>4, <1>5 DEF get_definition, shutdown, begin_request
  <1>6. CASE did_open
    BY <1>3, <1>6 DEF did_open, begin_notification
  <1>7. CASE drain_done
    BY <1>7 DEF drain_done, At
  <1>8. CASE write_lsp_message
    BY <1>8 DEF write_lsp_message, written, At
  <1>9. ASSUME fail
        PROVE  Written' \in Int /\ Written <= Written'
    <2>1. CASE begin_notification("exit")
      BY <1>3, <2>1 DEF begin_notification
    <2>2. CASE At(failed(client.op)) /\ client.op # "shutdown"
      BY <2>2 DEF At, failed, Notifications
    <2> QED  BY <1>9, <2>1, <2>2 DEF fail
  <1>10. CASE write_failed \/ read_disconnected \/ read_expired
    BY <1>9, <1>10 DEF write_failed, read_disconnected, read_expired
  <1>11. CASE read_response
    <2>1. CASE succeed(Head(queue))
      <3>1. CASE begin_notification("initialized")
        BY <1>1, <1>3, <3>1 DEF begin_notification
      <3>2. CASE begin_notification("exit")
        BY <1>1, <1>3, <3>2 DEF begin_notification
      <3>3. CASE At("idle")
        BY <3>3 DEF At
      <3> QED  BY <2>1, <3>1, <3>2, <3>3 DEF succeed
    <2>2. CASE At("closing")
      BY <2>2 DEF At
    <2>3. CASE UNCHANGED client
      BY <1>1, <2>3
    <2> QED  BY <1>9, <1>11, <2>1, <2>2, <2>3 DEF read_response
  <1>12. CASE wait_for_ready \/ ready_checkpoint \/ respond_to_create \/ kill
    <2>1. \/ client' = client
          \/ client' = [client EXCEPT !.pc = "ack"]
          \/ client' = [client EXCEPT !.pc = "ready"]
          \/ client' = [client EXCEPT !.pc = "idle"]
          \/ client' = [client EXCEPT !.pc = "closing"]
          \/ client' = [client EXCEPT !.pc = "gone"]
      BY <1>12 DEF wait_for_ready, ready_checkpoint, respond_to_create, kill, finish,
           health_gate, At
    <2> QED  BY <1>1, <2>1
  <1>13. CASE drain_pending \/ ReaderStep \/ ServerStep \/ UNCHANGED vars
    <2>1. client' = client
      BY <1>13, OthersLeave DEF drain_pending, clientVars, vars
    <2> QED  BY <1>1, <2>1
  <1> QED  BY <1>1, <1>5, <1>6, <1>7, <1>8, <1>10, <1>11, <1>12, <1>13 DEF Next, ClientStep

\* The server knows of requests only what was written.
LEMMA WrittenStep ==
    ASSUME IInv, [Next]_vars
    PROVE  WrittenInv'
  <1>0. /\ stdin \in Seq(Message) /\ asked \subseteq Message /\ answered \subseteq Nat
        /\ WrittenInv /\ IdInv
        /\ client \in [pc : ClientSteps, op : Requests \cup Notifications,
                       id : Nat, serial : Nat]
    BY ClientTypes DEF IInv, TypeOK
  <1>1. Written \in Int /\ Written' \in Int /\ Written <= Written'
    BY WrittenGrows
  <1>a. \A i \in 1 .. Len(stdin) : stdin[i] \in Message
    BY <1>0
  <1>b. \A i \in 1 .. Len(stdin) : stdin[i].serial \in Nat
    BY <1>a DEF Message
  <1>2. ASSUME asked' \subseteq asked
        PROVE  \A m \in asked' : m.id = m.serial /\ m.serial <= Written'
    BY <1>0, <1>1, <1>2 DEF WrittenInv, Message
  <1>3. ASSUME UNCHANGED answered
        PROVE  \A s \in answered' : s <= Written'
    BY <1>0, <1>1, <1>3 DEF WrittenInv
  <1>4. ASSUME UNCHANGED stdin
        PROVE  \A i \in 1 .. Len(stdin') : stdin'[i].op \in Requests =>
                  stdin'[i].id = stdin'[i].serial /\ stdin'[i].serial <= Written'
    BY <1>0, <1>1, <1>4, <1>b DEF WrittenInv
  <1>5. ASSUME stdin' = <<>>
        PROVE  \A i \in 1 .. Len(stdin') : stdin'[i].op \in Requests =>
                  stdin'[i].id = stdin'[i].serial /\ stdin'[i].serial <= Written'
    BY <1>5
  <1>6. ASSUME NEW m \in Message, stdin' = Append(stdin, m),
               m.op \in Requests => m.id = m.serial /\ m.serial <= Written'
        PROVE  \A i \in 1 .. Len(stdin') : stdin'[i].op \in Requests =>
                  stdin'[i].id = stdin'[i].serial /\ stdin'[i].serial <= Written'
    <2>1. /\ Len(stdin') = Len(stdin) + 1 /\ stdin'[Len(stdin) + 1] = m /\ Len(stdin) \in Nat
          /\ \A i \in 1 .. Len(stdin) : stdin'[i] = stdin[i]
      BY <1>0, <1>6
    <2> SUFFICES ASSUME NEW i \in 1 .. Len(stdin'), stdin'[i].op \in Requests
                 PROVE  stdin'[i].id = stdin'[i].serial /\ stdin'[i].serial <= Written'
      OBVIOUS
    <2>2. CASE i = Len(stdin) + 1
      BY <1>6, <2>1, <2>2
    <2>3. CASE i # Len(stdin) + 1
      <3>1. i \in 1 .. Len(stdin)
        BY <2>1, <2>3
      <3> QED  BY <1>0, <1>1, <1>b, <2>1, <3>1 DEF WrittenInv
    <2> QED  BY <2>2, <2>3
  <1>7. CASE ClientStep
    <2>1. UNCHANGED answered
      BY <1>7, ClientLeaves
    <2>2. asked' \subseteq asked
      BY <1>7 DEF ClientStep, get_definition, did_open, drain_pending, drain_done,
         write_lsp_message, write_failed, read_response, read_disconnected,
         read_expired, wait_for_ready, ready_checkpoint, respond_to_create, shutdown, kill,
         Dead, serverVars
    <2>3. CASE write_lsp_message
      <3>1. PICK m : m = [op |-> client.op, id |-> client.id, serial |-> client.serial]
        OBVIOUS
      <3>2. m \in Message /\ m.id = m.serial /\ stdin' = Append(stdin, m)
        BY <1>0, <2>3, <3>1 DEF write_lsp_message, Message, IdInv
      <3>3. m.op \in Requests => Written' = client.serial
        BY <1>0, <2>3, <3>1 DEF write_lsp_message, Written, At, written
      <3>4. m.op \in Requests => m.serial <= Written'
        BY <1>0, <3>1, <3>3
      <3>5. \A i \in 1 .. Len(stdin') : stdin'[i].op \in Requests =>
                stdin'[i].id = stdin'[i].serial /\ stdin'[i].serial <= Written'
        BY <1>6, <3>2, <3>4
      <3> QED  BY <1>2, <1>3, <2>1, <2>2, <3>5 DEF WrittenInv
    <2>4. CASE respond_to_create
      <3>1. PICK m : m = [op |-> "ack", id |-> 0, serial |-> 0]
        OBVIOUS
      <3>2. m \in Message /\ m.op \notin Requests
        BY <3>1 DEF Message, Requests
      <3>3. stdin' = stdin \/ stdin' = Append(stdin, m)
        BY <2>4, <3>1 DEF respond_to_create
      <3>4. \A i \in 1 .. Len(stdin') : stdin'[i].op \in Requests =>
                stdin'[i].id = stdin'[i].serial /\ stdin'[i].serial <= Written'
        BY <1>4, <1>6, <3>2, <3>3
      <3> QED  BY <1>2, <1>3, <2>1, <2>2, <3>4 DEF WrittenInv
    <2>5. CASE ~write_lsp_message /\ ~respond_to_create
      <3>1. stdin' = stdin \/ stdin' = <<>>
        BY <1>7, <2>5 DEF ClientStep, get_definition, did_open, drain_pending, drain_done,
           write_failed, read_response, read_disconnected, read_expired, wait_for_ready,
           ready_checkpoint, shutdown, kill, Dead
      <3> QED  BY <1>2, <1>3, <1>4, <1>5, <2>1, <2>2, <3>1 DEF WrittenInv
    <2> QED  BY <2>3, <2>4, <2>5
  <1>8. CASE ReaderStep \/ server_write \/ UNCHANGED vars
    <2>1. UNCHANGED <<stdin, asked, answered>>
      BY <1>8 DEF ReaderStep, read_lsp_message, read_eof, send_frame, server_write, vars,
           serverVars
    <2> QED  BY <1>2, <1>3, <1>4, <2>1 DEF WrittenInv
  <1>9. CASE server_receive
    <2>1. /\ stdin # <<>> /\ stdin' = Tail(stdin) /\ UNCHANGED answered
          /\ asked' = IF Head(stdin).op \in Requests THEN asked \cup {Head(stdin)} ELSE asked
      BY <1>9 DEF server_receive
    <2>2. /\ Len(stdin) \in Nat \ {0} /\ Head(stdin) = stdin[1] /\ Len(stdin') = Len(stdin) - 1
          /\ \A i \in 1 .. Len(stdin) - 1 : stdin'[i] = stdin[i + 1]
      BY <1>0, <2>1
    <2>3. \A i \in 1 .. Len(stdin) : stdin[i].op \in Requests =>
              stdin[i].id = stdin[i].serial /\ stdin[i].serial <= Written'
      BY <1>0, <1>1, <1>b DEF WrittenInv
    <2>4. \A i \in 1 .. Len(stdin') : stdin'[i].op \in Requests =>
              stdin'[i].id = stdin'[i].serial /\ stdin'[i].serial <= Written'
      BY <2>2, <2>3
    <2>5. \A m \in asked : m.id = m.serial /\ m.serial <= Written'
      BY <1>0, <1>1 DEF WrittenInv, Message
    <2>6. \A m \in asked' : m.id = m.serial /\ m.serial <= Written'
      BY <2>1, <2>2, <2>3, <2>5
    <2> QED  BY <1>3, <2>1, <2>4, <2>6 DEF WrittenInv
  <1>10. CASE \E m \in asked : server_answer(m)
    <2>1. PICK m \in asked : server_answer(m)
      BY <1>10
    <2>2. asked' \subseteq asked /\ UNCHANGED stdin /\ answered' = answered \cup {m.serial}
      BY <2>1 DEF server_answer, send
    <2>3. m.serial <= Written'
      BY <1>0, <1>1 DEF WrittenInv, Message
    <2>4. \A s \in answered' : s <= Written'
      BY <1>0, <1>1, <2>2, <2>3 DEF WrittenInv
    <2> QED  BY <1>2, <1>4, <2>2, <2>4 DEF WrittenInv
  <1>11. CASE \E f \in Unasked : server_talk(f)
    <2>1. UNCHANGED <<stdin, asked, answered>>
      BY <1>11 DEF server_talk, send
    <2> QED  BY <1>2, <1>3, <1>4, <2>1 DEF WrittenInv
  <1>12. CASE server_exit
    <2>1. stdin' = <<>> /\ asked' \subseteq asked /\ UNCHANGED answered
      BY <1>12 DEF server_exit, Dead
    <2> QED  BY <1>2, <1>3, <1>5, <2>1 DEF WrittenInv
  <1> QED  BY <1>7, <1>8, <1>9, <1>10, <1>11, <1>12 DEF Next, ServerStep

\* A call returns what was sent for it: a response with its id has its serial.
LEMMA OursStep ==
    ASSUME IInv, [Next]_vars
    PROVE  AnswerIsOurs'
  <1>0. /\ client \in [pc : ClientSteps, op : Requests \cup Notifications,
                       id : Nat, serial : Nat]
        /\ AnswerIsOurs /\ IdInv
    BY ClientTypes DEF IInv
  <1> USE <1>0 DEF AnswerIsOurs
  <1>1. CASE get_definition \/ did_open \/ shutdown
    BY <1>1 DEF get_definition, did_open, shutdown, begin_request, begin_notification
  <1>2. CASE drain_pending \/ drain_done \/ write_lsp_message \/ respond_to_create \/ kill
    BY <1>2 DEF drain_pending, drain_done, write_lsp_message, respond_to_create, kill, At,
         clientVars
  <1>3. CASE fail
    BY <1>3 DEF fail, At, begin_notification
  <1>4. CASE write_failed \/ read_disconnected \/ read_expired
    BY <1>3, <1>4 DEF write_failed, read_disconnected, read_expired
  <1>5. CASE read_response
    <2>1. CASE succeed(Head(queue)) /\ is_response_to(Head(queue), client.id)
      <3>1. CASE answer' = NoFrame
        BY <3>1
      <3>2. CASE client.op = "definition" /\ At("idle") /\ answer' = Head(queue)
        <4>1. Sound(Head(queue))
          BY <1>5, HeadIsOnItsWay DEF IInv, FlightInv, read_response
        <4>2. Head(queue).kind = "response" /\ Head(queue).serial = client.serial
          BY <2>1, <4>1 DEF is_response_to, Sound, IdInv
        <4> QED  BY <3>2, <4>2 DEF At
      <3> QED  BY <2>1, <3>1, <3>2 DEF succeed, begin_notification
    <2>2. CASE At("closing") /\ UNCHANGED answer
      BY <2>2 DEF At
    <2>3. CASE UNCHANGED <<client, answer>>
      BY <2>3
    <2> QED  BY <1>3, <1>5, <2>1, <2>2, <2>3 DEF read_response
  <1>6. CASE wait_for_ready \/ ready_checkpoint
    <2>1. client'.serial = client.serial /\ answer' = answer
      BY <1>6 DEF wait_for_ready, ready_checkpoint, finish, health_gate, At
    <2> QED  BY <2>1
  <1>7. CASE ReaderStep \/ ServerStep
    BY <1>7, OthersLeave DEF clientVars
  <1>8. CASE UNCHANGED vars
    BY <1>8 DEF vars
  <1> QED  BY <1>1, <1>2, <1>4, <1>5, <1>6, <1>7, <1>8 DEF Next, ClientStep

\* An answer that was sent stays on its way while its call is waiting: the
\* client drops only frames that are not the answer, and the others pass every
\* frame on.
LEMMA NotLostStep ==
    ASSUME IInv, [Next]_vars
    PROVE  AnswerIsNotLost'
  <1>0. /\ client \in [pc : ClientSteps, op : Requests \cup Notifications,
                       id : Nat, serial : Nat]
        /\ queue \in Seq(Frame) /\ stdout \in Seq(Frame)
        /\ server \in [up : BOOLEAN, writing : Frame]
        /\ reader \in [pc : {"reading", "sending", "exited"}, frame : Frame]
        /\ asked \subseteq Message /\ answered \subseteq Nat
        /\ AnswerIsNotLost /\ FlightInv /\ IdInv /\ WrittenInv
    BY ClientTypes DEF IInv, TypeOK, Reader
  <1>1. ~Response(NoFrame)
    BY DEF Response, NoFrame, frame
  <1>2. ASSUME client' = client, client.serial \in answered' => client.serial \in answered,
               server'.up => server.up, reader'.pc # "exited" => reader.pc # "exited",
               client.pc = "read" /\ reader'.pc # "exited" =>
                  \A f \in OnItsWay : Response(f) => f \in OnItsWay'
        PROVE  AnswerIsNotLost'
    <2> SUFFICES ASSUME client.pc = "read", client.serial \in answered',
                        server'.up, reader'.pc # "exited"
                 PROVE  \E f \in OnItsWay' : Response(f)'
      BY <1>2 DEF AnswerIsNotLost
    <2>1. PICK f \in OnItsWay : Response(f)
      BY <1>0, <1>2 DEF AnswerIsNotLost
    <2>2. f \in OnItsWay' /\ Response(f)'
      BY <1>2, <2>1 DEF Response
    <2> QED  BY <2>2
  <1>3. CASE client'.pc # "read" \/ ~server'.up
    BY <1>3 DEF AnswerIsNotLost
  <1>4. CASE write_lsp_message
    <2>1. CASE client.op \in Requests
      <3>1. Written = client.serial - 1
        BY <1>4, <2>1 DEF write_lsp_message, Written
      <3>2. client.serial \notin answered
        BY <1>0, <3>1 DEF WrittenInv
      <3>3. client'.serial = client.serial /\ answered' = answered
        BY <1>0, <1>4 DEF write_lsp_message, At, serverVars
      <3> QED  BY <3>2, <3>3 DEF AnswerIsNotLost
    <2>2. CASE client.op \notin Requests
      <3>1. client'.pc # "read"
        BY <1>0, <1>4, <2>2 DEF write_lsp_message, At, written, Notifications, Requests
      <3> QED  BY <1>3, <3>1
    <2> QED  BY <2>1, <2>2
  <1>5. ASSUME fail
        PROVE  client'.pc # "read"
    BY <1>0, <1>5 DEF fail, failed, At, begin_notification, Requests, Notifications
  <1>6. CASE read_response
    <2>1. CASE /\ queue # <<>> /\ queue' = Tail(queue) /\ client' = client
               /\ ~is_response_to(Head(queue), client.id)
      <3>1. Sound(Head(queue))
        BY <2>1, HeadIsOnItsWay DEF IInv, FlightInv
      <3>2. ~Response(Head(queue))
        BY <1>0, <2>1, <3>1 DEF Response, Sound, is_response_to, IdInv
      <3>3. Range(queue) = {Head(queue)} \cup Range(queue')
        BY <1>0, <2>1, TailRange
      <3>4. UNCHANGED <<reader, stdout, server, answered>>
        BY <1>6 DEF read_response, serverVars
      <3>5. \A f \in OnItsWay : Response(f) => f \in OnItsWay'
        BY <3>2, <3>3, <3>4 DEF OnItsWay
      <3> QED  BY <1>2, <2>1, <3>4, <3>5
    <2>2. CASE At("closing")
      BY <1>0, <1>3, <2>2 DEF At
    <2>3. CASE succeed(Head(queue))
      <3>1. client'.pc # "read"
        BY <1>0, <2>3 DEF succeed, At, begin_notification
      <3> QED  BY <1>3, <3>1
    <2>4. CASE fail
      BY <1>3, <1>5, <2>4
    <2> QED  BY <1>6, <2>1, <2>2, <2>3, <2>4 DEF read_response
  <1>7. CASE get_definition \/ did_open \/ shutdown \/ drain_pending \/ drain_done \/ kill
    <2>1. CASE get_definition \/ shutdown
      BY <1>3, <2>1 DEF get_definition, shutdown, begin_request
    <2>2. CASE did_open
      BY <1>0, <1>3, <2>2 DEF did_open, begin_notification
    <2>3. CASE drain_pending
      BY <1>0, <1>3, <2>3 DEF drain_pending, clientVars
    <2>4. CASE drain_done \/ kill
      BY <1>0, <1>3, <2>4 DEF drain_done, kill, At
    <2> QED  BY <1>7, <2>1, <2>2, <2>3, <2>4
  <1>8. CASE write_failed \/ read_disconnected \/ read_expired
    <2>1. fail
      BY <1>8 DEF write_failed, read_disconnected, read_expired
    <2> QED  BY <1>3, <1>5, <2>1
  <1>9. CASE wait_for_ready \/ ready_checkpoint \/ respond_to_create
    <2>1. client'.pc # "read"
      BY <1>0, <1>9 DEF wait_for_ready, ready_checkpoint, respond_to_create, finish,
         health_gate, At
    <2> QED  BY <1>3, <2>1
  <1>10. CASE ReaderStep
    <2>1. client' = client /\ UNCHANGED <<server, answered>>
      BY <1>10, OthersLeave DEF clientVars, ReaderStep, read_lsp_message, read_eof, send_frame,
         serverVars
    <2>2. CASE read_lsp_message
      <3>1. /\ reader.frame = NoFrame /\ reader.pc = "reading"
            /\ stdout # <<>> /\ stdout' = Tail(stdout)
            /\ reader'.frame = Head(stdout) /\ queue' = queue
        BY <1>0, <2>2 DEF read_lsp_message, FlightInv
      <3>2. Range(stdout) = {Head(stdout)} \cup Range(stdout')
        BY <1>0, <3>1, TailRange
      <3>3. \A f \in OnItsWay : Response(f) => f \in OnItsWay'
        BY <1>1, <2>1, <3>1, <3>2 DEF OnItsWay
      <3> QED  BY <1>2, <2>1, <3>1, <3>3
    <2>3. CASE read_eof
      <3>1. reader.frame = NoFrame /\ reader.pc = "reading" /\ UNCHANGED <<stdout, queue>>
        BY <1>0, <2>3 DEF read_eof, FlightInv
      <3>2. \A f \in OnItsWay : Response(f) => f \in OnItsWay'
        BY <1>1, <2>1, <3>1 DEF OnItsWay
      <3> QED  BY <1>2, <2>1, <3>1, <3>2
    <2>4. CASE send_frame
      <3>1. reader.pc = "sending" /\ UNCHANGED stdout
        BY <2>4 DEF send_frame
      <3>2. CASE queue' = Append(queue, reader.frame)
        <4>1. Range(queue') = Range(queue) \cup {reader.frame}
          BY <1>0, <3>2, AppendRange
        <4>2. \A f \in OnItsWay : Response(f) => f \in OnItsWay'
          BY <2>1, <3>1, <4>1 DEF OnItsWay
        <4> QED  BY <1>2, <2>1, <3>1, <4>2
      <3>3. CASE client.pc = "gone"
        BY <1>3, <2>1, <3>3
      <3> QED  BY <2>4, <3>2, <3>3 DEF send_frame
    <2> QED  BY <1>10, <2>2, <2>3, <2>4 DEF ReaderStep
  <1>11. ASSUME NEW f \in Frame, send(f)
         PROVE  /\ client' = client /\ UNCHANGED reader /\ server'.up = server.up
                /\ OnItsWay \subseteq OnItsWay' \cup {NoFrame}
                /\ reader.pc # "exited" => f \in OnItsWay'
    <2>1. client' = client /\ UNCHANGED <<reader, queue>> /\ server.writing = NoFrame
      BY <1>11 DEF send, clientVars, Serving
    <2>2. Range(Append(stdout, f)) = Range(stdout) \cup {f}
      BY <1>0, AppendRange
    <2>3. CASE stdout' = Append(stdout, f) /\ server' = server
      BY <2>1, <2>2, <2>3 DEF OnItsWay
    <2>4. CASE server' = [server EXCEPT !.writing = f] /\ stdout' = stdout
      <3>1. server'.writing = f /\ server'.up = server.up
        BY <1>0, <2>4
      <3> QED  BY <2>1, <2>4, <3>1 DEF OnItsWay
    <2>5. CASE reader.pc = "exited" /\ UNCHANGED <<server, stdout>>
      BY <2>1, <2>5 DEF OnItsWay
    <2> QED  BY <1>11, <2>3, <2>4, <2>5 DEF send, Readable
  <1>12. CASE \E m \in asked : server_answer(m)
    <2>1. PICK m \in asked : server_answer(m)
      BY <1>12
    <2>2. PICK f : f = frame("response", m.id, m.serial, "unknown")
      OBVIOUS
    <2>3. f \in Frame /\ send(f) /\ answered' = answered \cup {m.serial}
      <3>1. m.id \in Nat /\ m.serial \in Nat
        BY <1>0 DEF Message
      <3> QED  BY <2>1, <2>2, <3>1, FrameTypes DEF server_answer
    <2>4. /\ client' = client /\ UNCHANGED reader /\ server'.up = server.up
          /\ OnItsWay \subseteq OnItsWay' \cup {NoFrame}
          /\ reader.pc # "exited" => f \in OnItsWay'
      BY <1>11, <2>3
    <2>5. CASE m.serial = client.serial
      <3>1. Response(f)'
        BY <2>2, <2>4, <2>5 DEF Response, frame
      <3> QED  BY <2>4, <3>1 DEF AnswerIsNotLost
    <2>6. CASE m.serial # client.serial
      BY <1>1, <1>2, <2>3, <2>4, <2>6
    <2> QED  BY <2>5, <2>6
  <1>13. CASE \E f \in Unasked : server_talk(f)
    <2>1. PICK f \in Unasked : server_talk(f)
      BY <1>13
    <2>2. f \in Frame /\ send(f) /\ UNCHANGED answered
      BY <2>1, FrameTypes DEF server_talk
    <2>3. /\ client' = client /\ UNCHANGED reader /\ server'.up = server.up
          /\ OnItsWay \subseteq OnItsWay' \cup {NoFrame}
      BY <1>11, <2>2
    <2> QED  BY <1>1, <1>2, <2>2, <2>3
  <1>14. CASE server_receive
    <2>1. UNCHANGED <<client, reader, queue, stdout, server, answered>>
      BY <1>14 DEF server_receive, clientVars
    <2>2. OnItsWay' = OnItsWay
      BY <2>1 DEF OnItsWay
    <2> QED  BY <1>2, <2>1, <2>2
  <1>15. CASE server_write
    <2>1. /\ UNCHANGED <<client, reader, queue, answered>>
          /\ server'.up = server.up
          /\ \/ stdout' = Append(stdout, server.writing)
             \/ reader.pc = "exited"
      BY <1>0, <1>15 DEF server_write, clientVars, Readable
    <2>2. CASE reader.pc = "exited"
      BY <2>1, <2>2 DEF AnswerIsNotLost
    <2>3. CASE stdout' = Append(stdout, server.writing)
      <3>1. Range(stdout') = Range(stdout) \cup {server.writing}
        BY <1>0, <2>3, AppendRange
      <3>2. OnItsWay \subseteq OnItsWay'
        BY <2>1, <3>1 DEF OnItsWay
      <3> QED  BY <1>2, <2>1, <3>2
    <2> QED  BY <2>1, <2>2, <2>3
  <1>16. CASE server_exit
    <2>1. ~server'.up
      BY <1>16 DEF server_exit, Dead
    <2> QED  BY <1>3, <2>1
  <1>17. CASE UNCHANGED vars
    <2>1. UNCHANGED <<client, reader, queue, stdout, server, answered>>
      BY <1>17 DEF vars
    <2>2. OnItsWay' = OnItsWay
      BY <2>1 DEF OnItsWay
    <2> QED  BY <1>2, <2>1, <2>2
  <1> QED  BY <1>4, <1>6, <1>7, <1>8, <1>9, <1>10, <1>12, <1>13, <1>14, <1>15, <1>16,
              <1>17 DEF Next, ClientStep, ServerStep

-----------------------------------------------------------------------------
(* The invariant and what follows from it.                                 *)

\* Before the first frame nothing is on its way.
LEMMA InitInv == Init => IInv
  <1> SUFFICES ASSUME Init PROVE IInv
    OBVIOUS
  <1>1. NoFrame \in Frame /\ NoFrame.kind = "none"
    BY FrameTypes DEF NoFrame, frame
  <1>2. client = [pc |-> "drain", op |-> "initialize", id |-> 1, serial |-> 1]
        /\ reader = [pc |-> "reading", frame |-> NoFrame]
        /\ server = [up |-> TRUE, writing |-> NoFrame]
        /\ queue = <<>> /\ stdin = <<>> /\ stdout = <<>>
        /\ asked = {} /\ answered = {} /\ answer = NoFrame
        /\ wait = [health |-> "unknown", readiness |-> "none"] /\ next_id = 2 /\ calls = 0
        /\ sent = 0 /\ loaded = FALSE
    BY DEF Init, NoWait
  <1>3. OnItsWay = {NoFrame}
    BY <1>2, EmptyRange DEF OnItsWay
  <1>4. TypeOK
    <2>1. /\ MaxCalls \in Nat /\ MaxFrames \in Nat
          /\ FRAME_QUEUE_DEPTH \in Nat /\ PipeDepth \in Nat
      BY LspAssumption DEF LspAssumption
    <2>2. client \in Client /\ wait \in Wait
      BY <1>2 DEF Client, ClientSteps, Requests, Wait, Health, Outcomes
    <2>3. reader \in Reader /\ server \in [up : BOOLEAN, writing : Frame]
      BY <1>1, <1>2 DEF Reader
    <2>4. next_id \in 1 .. MaxCalls + 3 /\ calls \in 0 .. MaxCalls /\ sent \in 0 .. MaxFrames
      BY <1>2, <2>1
    <2>5. queue \in Seq(Frame) /\ stdin \in Seq(Message) /\ stdout \in Seq(Frame)
      BY <1>2
    <2>6. Len(queue) <= FRAME_QUEUE_DEPTH /\ Len(stdin) <= PipeDepth /\ Len(stdout) <= PipeDepth
      BY <1>2, <2>1
    <2>7. answer \in Frame /\ asked \subseteq Message /\ answered \subseteq Nat
          /\ loaded \in BOOLEAN
      BY <1>1, <1>2
    <2> QED  BY <2>2, <2>3, <2>4, <2>5, <2>6, <2>7 DEF TypeOK
  <1>5. IdInv
    BY <1>2 DEF IdInv
  <1>6. GateInv
    BY <1>2 DEF GateInv, Requests
  <1>7. WrittenInv
    BY <1>2 DEF WrittenInv
  <1>8. FlightInv
    BY <1>1, <1>2, <1>3 DEF FlightInv, Sound
  <1>9. AnswerIsOurs /\ AnswerIsNotLost
    BY <1>2 DEF AnswerIsOurs, AnswerIsNotLost
  <1> QED  BY <1>4, <1>5, <1>6, <1>7, <1>8, <1>9 DEF IInv

\* Every step of the client, the reader and the server preserves it.
LEMMA StepInv == IInv /\ [Next]_vars => IInv'
  <1> SUFFICES ASSUME IInv, [Next]_vars PROVE IInv'
    OBVIOUS
  <1>1. TypeOK'
    BY ClientTypeStep, QueueTypeStep, PeerTypeStep DEF TypeOK
  <1> QED  BY <1>1, IdStep, GateStep, WrittenStep, FlightStep, OursStep, NotLostStep DEF IInv

\* The session keeps its types and its bounds: the queue never holds more than
\* FRAME_QUEUE_DEPTH frames and the ids are the serial numbers of the requests.
THEOREM SessionInvariant == Spec => []IInv
  BY InitInv, StepInv, PTL DEF Spec

\* get_definition returns the answer to its own request, whatever the server
\* sends, late or with the same id (read_response, is_response_to).
THEOREM AnswersAreOurs == Spec => []AnswerIsOurs
  <1>1. IInv => AnswerIsOurs
    BY DEF IInv
  <1> QED  BY SessionInvariant, <1>1, PTL

\* drain_pending and the frames that read_response skips never lose the answer
\* that the client waits for.
THEOREM AnswersAreNotLost == Spec => []AnswerIsNotLost
  <1>1. IInv => AnswerIsNotLost
    BY DEF IInv
  <1> QED  BY SessionInvariant, <1>1, PTL

\* The health gate: after a quiescent report the pass calls only a server that
\* has reported to be quiescent without an error.
THEOREM GateHolds == Spec => []NoCallAfterLoadError
  <1>1. IInv => NoCallAfterLoadError
    BY DEF IInv, GateInv, NoCallAfterLoadError
  <1> QED  BY SessionInvariant, <1>1, PTL
=============================================================================
