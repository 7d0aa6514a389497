------------------------------ MODULE LspClient ------------------------------
(***************************************************************************)
(* The language-server session of one LSP pass.  Three actors:             *)
(*                                                                         *)
(*   client  the thread of the pass: one call at a time, each a blocking   *)
(*           write to the server's stdin, most followed by a read with a   *)
(*           deadline from the frame queue;                                *)
(*   reader  a thread that parses the server's stdout into frames and      *)
(*           pushes them into the bounded queue;                           *)
(*   server  another program: it answers late or never, talks unasked,     *)
(*           sends malformed frames, stops reading, dies.                  *)
(*                                                                         *)
(* Both pipes are bounded as well, and a full one blocks its writer.       *)
(* Deadlines are modelled by what they allow: a wait can end at any time.  *)
(***************************************************************************)
EXTENDS Naturals, Sequences, Functions

CONSTANTS FRAME_QUEUE_DEPTH,
          Unasked,          \* the frames the server can send without being asked
          PipeDepth,        \* messages that fit into one pipe
          MaxCalls,         \* bound: calls between initialize and shutdown
          MaxFrames         \* bound: frames the server sends

ASSUME LspAssumption ==
    /\ FRAME_QUEUE_DEPTH \in Nat \ {0}
    /\ PipeDepth \in Nat \ {0}
    /\ MaxCalls \in Nat /\ MaxFrames \in Nat
    /\ Unasked \subseteq
          [kind : {"request", "busy", "quiescent", "note", "payload", "garbage"},
           id : Nat, serial : Nat, health : {"unknown", "ok", "error"}]

VARIABLES client,       \* what the client thread is doing
          wait,         \* wait_for_ready: the health reported, how the wait ended
          answer,       \* the frame the last call returned as its answer
          next_id,      \* LspClient::request_id
          calls,        \* calls made so far
          reader,       \* what the reader thread is doing
          queue,        \* the channel of frames
          stdin, stdout,
          server,       \* alive, and the frame it is writing
          asked,        \* requests the server has read and not answered
          answered,     \* serial numbers of the requests it has answered
          sent,         \* frames it has sent
          loaded        \* it has reported to be quiescent without an error

vars == <<client, wait, answer, next_id, calls, reader, queue, stdin, stdout,
          server, asked, answered, sent, loaded>>
clientVars == <<client, wait, answer, next_id, calls>>
serverVars == <<server, asked, answered, sent, loaded>>

-----------------------------------------------------------------------------
(* Messages.  Requests are told apart by a serial number of the model; on   *)
(* the wire there is only the id.                                           *)

Requests == {"initialize", "definition", "shutdown"}
Notifications == {"initialized", "did_open", "exit"}
Message == [op : Requests \cup Notifications \cup {"ack"}, id : Nat, serial : Nat]

\* A server request has an id of the server's own numbering; busy and quiescent
\* are experimental/serverStatus; note is any other notification.  A payload
\* frame is aligned but does not parse; after garbage (or the end of the
\* stream) nothing can be read any more.  A warning passes the health gate and
\* counts as ok.
Health == {"unknown", "ok", "error"}
FrameKinds == {"none", "response", "request", "busy", "quiescent", "note",
               "payload", "garbage"}
Frame == [kind : FrameKinds, id : Nat, serial : Nat, health : Health]
frame(kind, id, serial, health) ==
    [kind |-> kind, id |-> id, serial |-> serial, health |-> health]
NoFrame == frame("none", 0, 0, "unknown")
Fatal == frame("garbage", 0, 0, "unknown")

ClientSteps == {"idle", "drain", "write", "read", "ready", "ack", "closing",
                "polling", "gone"}
Client == [pc : ClientSteps, op : Requests \cup Notifications, id : Nat, serial : Nat]
At(pc) == client' = [client EXCEPT !.pc = pc]

-----------------------------------------------------------------------------
(* send_request: drain_pending, then write_lsp_message.                    *)

\* A request takes a fresh id, a notification has none.
begin_request(op) ==
    /\ client' = [pc |-> "drain", op |-> op, id |-> next_id, serial |-> client.serial + 1]
    /\ next_id' = next_id + 1
    /\ answer' = NoFrame
begin_notification(op) ==
    /\ client' = [client EXCEPT !.pc = "drain", !.op = op]
    /\ answer' = NoFrame
    /\ UNCHANGED next_id

get_definition ==
    /\ client.pc = "idle"
    /\ calls < MaxCalls
    /\ begin_request("definition")
    /\ calls' = calls + 1
    /\ UNCHANGED <<wait, reader, queue, stdin, stdout, serverVars>>
did_open ==
    /\ client.pc = "idle"
    /\ calls < MaxCalls
    /\ begin_notification("did_open")
    /\ calls' = calls + 1
    /\ UNCHANGED <<wait, reader, queue, stdin, stdout, serverVars>>

drain_pending_while_reading ==
    /\ client.pc \in {"drain", "read"}
    /\ queue # <<>>
    /\ queue' = Tail(queue)
    /\ UNCHANGED <<clientVars, reader, stdin, stdout, serverVars>>
drain_pending ==
    /\ client.pc = "drain"
    /\ queue # <<>>
    /\ queue' = Tail(queue)
    /\ UNCHANGED <<clientVars, reader, stdin, stdout, serverVars>>
drain_done ==
    /\ client.pc = "drain"
    /\ queue = <<>>
    /\ At("write")
    /\ UNCHANGED <<wait, answer, next_id, calls, reader, queue, stdin, stdout, serverVars>>

\* Where a call goes on once its message is written, and once it has failed.
written(op) ==
    CASE op \in Requests      -> "read"
      [] op = "initialized"   -> "ready"
      [] op = "did_open"      -> "idle"
      [] op = "exit"          -> "polling"
\* A failed shutdown request is followed by the exit notification.
failed(op) ==
    CASE op \in {"initialize", "initialized"} -> "closing"
      [] op \in {"definition", "did_open"}    -> "idle"
      [] op = "exit"                          -> "polling"
fail ==
    \/ client.op = "shutdown" /\ begin_notification("exit")
    \/ /\ client.op # "shutdown"
       /\ At(failed(client.op))
       /\ UNCHANGED <<answer, next_id>>

Room(pipe) == Len(pipe) < PipeDepth
write_lsp_message ==
    /\ client.pc = "write"
    /\ server.up
    /\ Room(stdin)
    /\ stdin' = Append(stdin, [op |-> client.op, id |-> client.id, serial |-> client.serial])
    /\ At(written(client.op))
    /\ UNCHANGED <<wait, answer, next_id, calls, reader, queue, stdout, serverVars>>

\* The server is gone: a broken pipe.
write_retried ==
    /\ client.pc = "write"
    /\ ~server.up
    /\ At("write")
    /\ UNCHANGED <<wait, answer, next_id, calls, reader, queue, stdin, stdout, serverVars>>
write_failed ==
    /\ client.pc = "write"
    /\ ~server.up
    /\ fail
    /\ UNCHANGED <<wait, calls, reader, queue, stdin, stdout, serverVars>>

-----------------------------------------------------------------------------
(* read_response: the loop of the probe and of every later request.        *)

is_response_to_id(f, id) == f.id = id
is_response_to(f, id) == f.kind = "response" /\ f.id = id

\* The answer: initialize validates it and goes on, definition returns it,
\* shutdown does not look at it.
succeed(f) ==
    \/ client.op = "initialize" /\ begin_notification("initialized")
    \/ client.op = "shutdown" /\ begin_notification("exit")
    \/ client.op = "definition" /\ At("idle") /\ answer' = f /\ UNCHANGED next_id

\* The probe fails on a frame that does not parse, later reads skip it.
ends_read(f) == f.kind = "garbage" \/ (f.kind = "payload" /\ client.op = "initialize")

read_response ==
    /\ client.pc = "read"
    /\ queue # <<>>
    /\ LET f == Head(queue)
       IN  \/ /\ is_response_to(f, client.id)
              /\ queue' = Tail(queue)
              /\ succeed(f)
           \/ /\ is_response_to(f, client.id) /\ client.op = "initialize"
              /\ queue' = Tail(queue)
              /\ At("closing")                         \* validate_probe_response
              /\ UNCHANGED <<answer, next_id>>
           \/ /\ ends_read(f)
              /\ queue' = Tail(queue)
              /\ fail
           \/ /\ ~is_response_to(f, client.id) /\ ~ends_read(f)
              /\ queue' = Tail(queue)
              /\ UNCHANGED <<client, answer, next_id>>
    /\ UNCHANGED <<wait, calls, reader, stdin, stdout, serverVars>>

\* next_frame: the reader is gone and so is everything it sent ...
Disconnected == queue = <<>> /\ reader.pc = "exited"
read_disconnected ==
    /\ client.pc = "read"
    /\ Disconnected
    /\ fail
    /\ UNCHANGED <<wait, calls, reader, queue, stdin, stdout, serverVars>>

\* ... or the deadline passes.
read_expired_between_frames ==
    /\ client.pc = "read"
    /\ queue # <<>>
    /\ fail
    /\ UNCHANGED <<wait, calls, reader, queue, stdin, stdout, serverVars>>
read_expired ==
    /\ client.pc = "read"
    /\ fail
    /\ UNCHANGED <<wait, calls, reader, queue, stdin, stdout, serverVars>>

-----------------------------------------------------------------------------
(* wait_for_ready, and the health gate behind it.                          *)

\* Without a quiescent status the wait ends when progress reports have come
\* and gone, none came, or the deadline passed: the three outcomes of give_up
\* lead to the same calls and are one here.
Outcomes == {"none", "ServerReportedQuiescent", "give_up"}
Wait == [health : Health, readiness : Outcomes]
NoWait == [health |-> "unknown", readiness |-> "none"]

\* No definition is asked of a server whose last status was an error.
health_gate(w) == At(IF w.health = "error" THEN "closing" ELSE "idle")
finish(w, readiness) ==
    /\ wait' = [w EXCEPT !.readiness = readiness]
    /\ health_gate(w)

\* HealthTrack: the last status wins.
record_first(w, f) == IF w.health = "unknown" THEN [w EXCEPT !.health = f.health] ELSE w
record(w, f) == [w EXCEPT !.health = f.health]

wait_for_ready ==
    /\ client.pc = "ready"
    /\ queue # <<>>
    /\ queue' = Tail(queue)
    /\ LET f == Head(queue)
       IN  \/ /\ f.kind = "quiescent"
              /\ finish(record(wait, f), "ServerReportedQuiescent")
           \/ /\ f.kind = "garbage"
              /\ finish(wait, "give_up")
           \/ /\ f.kind = "request"                    \* workDoneProgress/create
              /\ At("ack")
              /\ UNCHANGED wait
           \/ /\ f.kind = "busy"
              /\ wait' = record(wait, f)
              /\ UNCHANGED client
           \/ /\ f.kind \in {"request", "note", "payload", "response"}
              /\ UNCHANGED <<client, wait>>
    /\ UNCHANGED <<answer, next_id, calls, reader, stdin, stdout, serverVars>>

\* A checkpoint passes with no frame, or there will be none.
ready_checkpoint ==
    /\ client.pc = "ready"
    /\ finish(wait, "give_up")
    /\ UNCHANGED <<answer, next_id, calls, reader, queue, stdin, stdout, serverVars>>

\* The acknowledgement is written without draining; its failure is ignored.
respond_to_create ==
    /\ client.pc = "ack"
    /\ \/ /\ server.up /\ Room(stdin)
          /\ stdin' = Append(stdin, [op |-> "ack", id |-> 0, serial |-> 0])
       \/ ~server.up /\ UNCHANGED stdin
    /\ At("ready")
    /\ UNCHANGED <<wait, answer, next_id, calls, reader, queue, stdout, serverVars>>

-----------------------------------------------------------------------------
(* shutdown, which ends every pass, and Drop.                              *)

\* What a dead server had not read or written is lost; what it wrote can be read.
Dead ==
    /\ server' = [up |-> FALSE, writing |-> NoFrame]
    /\ stdin' = <<>>
    /\ asked' = {}
    /\ UNCHANGED <<answered, sent, loaded>>

shutdown ==
    /\ client.pc \in {"idle", "closing"}
    /\ begin_request("shutdown")
    /\ UNCHANGED <<wait, calls, reader, queue, stdin, stdout, serverVars>>

\* The server exits by itself within the grace period or is killed; the
\* receiver is dropped.
kill_skipped ==
    /\ client.pc = "polling"
    /\ At("gone")
    /\ queue' = <<>>
    /\ UNCHANGED <<wait, answer, next_id, calls, reader, stdin, stdout, serverVars>>
kill ==
    /\ client.pc = "polling"
    /\ At("gone")
    /\ queue' = <<>>
    /\ Dead
    /\ UNCHANGED <<wait, answer, next_id, calls, reader, stdout>>

-----------------------------------------------------------------------------
(* The reader thread.                                                      *)

Reader == [pc : {"reading", "sending", "exited"}, frame : Frame]

read_lsp_message ==
    /\ reader.pc = "reading"
    /\ stdout # <<>>
    /\ reader' = [pc |-> "sending", frame |-> Head(stdout)]
    /\ stdout' = Tail(stdout)
    /\ UNCHANGED <<clientVars, queue, stdin, serverVars>>
read_eof ==
    /\ reader.pc = "reading"
    /\ stdout = <<>>
    /\ ~server.up
    /\ reader' = [pc |-> "sending", frame |-> Fatal]
    /\ UNCHANGED <<clientVars, queue, stdin, stdout, serverVars>>

\* The thread ends with the frame that ended the stream, or when the receiver
\* is gone; its end closes the pipe.
Sent(stop) == reader' = [pc |-> IF stop THEN "exited" ELSE "reading", frame |-> NoFrame]
send_frame_unbounded ==
    /\ reader.pc = "sending"
    /\ \/ /\ client.pc # "gone"
          /\ queue' = Append(queue, reader.frame)
          /\ Sent(reader.frame.kind = "garbage")
       \/ /\ client.pc = "gone"
          /\ Sent(TRUE)
          /\ UNCHANGED queue
    /\ UNCHANGED <<clientVars, stdin, stdout, serverVars>>
send_frame ==
    /\ reader.pc = "sending"
    /\ \/ /\ client.pc # "gone"
          /\ Len(queue) < FRAME_QUEUE_DEPTH
          /\ queue' = Append(queue, reader.frame)
          /\ Sent(reader.frame.kind = "garbage")
       \/ /\ client.pc = "gone"
          /\ Sent(TRUE)
          /\ UNCHANGED queue
    /\ UNCHANGED <<clientVars, stdin, stdout, serverVars>>

-----------------------------------------------------------------------------
(* The server: one thread that reads or writes.                            *)

Serving == server.up /\ server.writing = NoFrame
server_receive ==
    /\ Serving
    /\ stdin # <<>>
    /\ stdin' = Tail(stdin)
    /\ asked' = IF Head(stdin).op \in Requests THEN asked \cup {Head(stdin)} ELSE asked
    /\ UNCHANGED <<clientVars, reader, queue, stdout, server, answered, sent, loaded>>

\* A frame goes into the pipe; if that is full the server is stuck with it, and
\* without a reader it is lost.
Readable == reader.pc # "exited"
send(f) ==
    /\ Serving
    /\ sent < MaxFrames
    /\ sent' = sent + 1
    /\ \/ /\ Readable /\ Room(stdout)
          /\ stdout' = Append(stdout, f)
          /\ UNCHANGED server
       \/ /\ Readable /\ ~Room(stdout)
          /\ server' = [server EXCEPT !.writing = f]
          /\ UNCHANGED stdout
       \/ ~Readable /\ UNCHANGED <<server, stdout>>
    /\ UNCHANGED <<clientVars, reader, queue, stdin>>
server_answer(m) ==
    /\ m \in asked
    /\ send(frame("response", m.id, m.serial, "unknown"))
    /\ asked' = asked \ {m}
    /\ answered' = answered \cup {m.serial}
    /\ UNCHANGED loaded
server_talk(f) ==
    /\ send(f)
    /\ loaded' = (loaded \/ (f.kind = "quiescent" /\ f.health # "error"))
    /\ UNCHANGED <<asked, answered>>

\* The write that was stuck goes on.
server_write ==
    /\ server.up /\ server.writing # NoFrame
    /\ \/ Readable /\ Room(stdout) /\ stdout' = Append(stdout, server.writing)
       \/ ~Readable /\ UNCHANGED stdout
    /\ server' = [server EXCEPT !.writing = NoFrame]
    /\ UNCHANGED <<clientVars, reader, queue, stdin, asked, answered, sent, loaded>>

server_exit ==
    /\ server.up
    /\ Dead
    /\ UNCHANGED <<clientVars, reader, queue, stdout>>

-----------------------------------------------------------------------------
Init ==
    /\ client = [pc |-> "drain", op |-> "initialize", id |-> 1, serial |-> 1]
    /\ wait = NoWait
    /\ answer = NoFrame
    /\ next_id = 2
    /\ calls = 0
    /\ reader = [pc |-> "reading", frame |-> NoFrame]
    /\ queue = <<>> /\ stdin = <<>> /\ stdout = <<>>
    /\ server = [up |-> TRUE, writing |-> NoFrame]
    /\ asked = {} /\ answered = {} /\ sent = 0
    /\ loaded = FALSE

ClientStep ==
    \/ get_definition
    \/ did_open
    \/ drain_pending
    \/ drain_done
    \/ write_lsp_message
    \/ write_failed
    \/ read_response
    \/ read_disconnected
    \/ read_expired
    \/ wait_for_ready
    \/ ready_checkpoint
    \/ respond_to_create
    \/ shutdown
    \/ kill

ReaderStep == read_lsp_message \/ read_eof \/ send_frame

ServerStep ==
    \/ server_receive
    \/ \E m \in asked : server_answer(m)
    \/ \E f \in Unasked : server_talk(f)
    \/ server_write
    \/ server_exit

Next == ClientStep \/ ReaderStep \/ ServerStep

\* The two threads are scheduled and time passes; of the server nothing is
\* assumed.
Fairness == WF_vars(ClientStep) /\ WF_vars(ReaderStep)
Spec == Init /\ [][Next]_vars /\ Fairness
-----------------------------------------------------------------------------
(* Properties.                                                             *)

\* Every variable keeps its type, and no queue grows past its bound.
TypeOK ==
    /\ client \in Client /\ wait \in Wait
    /\ answer \in Frame
    /\ next_id \in 1 .. MaxCalls + 3
    /\ calls \in 0 .. MaxCalls
    /\ reader \in Reader
    /\ queue \in Seq(Frame) /\ Len(queue) <= FRAME_QUEUE_DEPTH
    /\ stdin \in Seq(Message) /\ Len(stdin) <= PipeDepth
    /\ stdout \in Seq(Frame) /\ Len(stdout) <= PipeDepth
    /\ server \in [up : BOOLEAN, writing : Frame]
    /\ asked \in SUBSET Message /\ answered \in SUBSET Nat
    /\ sent \in 0 .. MaxFrames
    /\ loaded \in BOOLEAN

\* The frame a call returns is the server's answer to that very call: not the
\* late answer to a call that timed out, and not a request of the server that
\* happens to carry the same id.
AnswerIsOurs ==
    answer # NoFrame => answer.kind = "response" /\ answer.serial = client.serial

\* Discarding queued frames before a write, and skipping frames while reading,
\* never loses the answer somebody waits for: once the server has sent it, it
\* is on its way until the client takes it.
Response(f) == f.kind = "response" /\ f.serial = client.serial
OnItsWay ==
    {server.writing, reader.frame} \cup Range(stdout) \cup Range(queue)
AnswerIsNotLost ==
    /\ client.pc = "read" /\ client.serial \in answered
    /\ server.up /\ reader.pc # "exited"
    => \E f \in OnItsWay : Response(f)

\* The health gate: a pass that ended its wait because the server reported to
\* be quiescent makes calls only if the server has said so without an error.
NoCallAfterLoadError ==
    wait.readiness = "ServerReportedQuiescent" /\ calls > 0 => loaded

\* The inductive invariant behind the three.  Ids are serial numbers: one
\* counter, and only requests take from it.
IdInv == client.id = client.serial /\ next_id = client.serial + 1

\* The client passes the gate once, before its first call.
GateInv ==
    /\ client.op \in {"initialize", "initialized"} => calls = 0
    /\ client.op \in {"definition", "did_open"} => calls > 0
    /\ client.op \in {"shutdown", "exit"} => client.pc \notin {"idle", "closing"}
    /\ client.op \notin {"shutdown", "exit"} => next_id <= calls + 2
    /\ next_id <= calls + 3
    /\ client.pc \in {"ready", "ack"} => client.op = "initialized"
    /\ wait.readiness # "none" =>
          /\ client.op # "initialize"
          /\ client.op = "initialized" => client.pc \in {"idle", "closing"}
    /\ client.pc = "read" => client.op \in Requests
    /\ client.pc = "idle" \/ calls > 0 => wait.health # "error"
    /\ wait.readiness = "ServerReportedQuiescent" /\ wait.health # "error" => loaded

\* The server has seen no request that the client has not written.
Written ==
    IF client.pc \in {"drain", "write"} /\ client.op \in Requests
    THEN client.serial - 1 ELSE client.serial
WrittenInv ==
    /\ \A i \in 1 .. Len(stdin) : stdin[i].op \in Requests =>
          stdin[i].id = stdin[i].serial /\ stdin[i].serial <= Written
    /\ \A m \in asked : m.id = m.serial /\ m.serial <= Written
    /\ \A s \in answered : s <= Written

\* Frames are true: a response carries the id of the request it answers, and a
\* status was reported.
Sound(f) ==
    /\ f \in Frame
    /\ f.kind = "response" => f.id = f.serial
    /\ f.kind = "quiescent" /\ f.health # "error" => loaded
FlightInv ==
    /\ \A f \in OnItsWay : Sound(f)
    /\ reader.pc = "reading" => reader.frame = NoFrame

IInv == TypeOK /\ IdInv /\ GateInv /\ WrittenInv /\ FlightInv
             /\ AnswerIsOurs /\ AnswerIsNotLost

\* Whatever the server does, the pass comes to its end, unless it is stuck in a
\* write to a pipe that the server does not read.
WriteBlocked ==
    client.pc \in {"write", "ack"} /\ server.up /\ ~Room(stdin)
PassEnds == <>(client.pc = "gone") \/ <>[]WriteBlocked

\* With a server that goes on reading and writing there is only one way to be
\* stuck, the cycle that the comment in send_request describes: the client
\* waits for the server to read, the server for the reader, and the reader for
\* the client.
WriteCycle ==
    /\ WriteBlocked
    /\ server.writing # NoFrame /\ ~Room(stdout)
    /\ reader.pc = "sending" /\ Len(queue) = FRAME_QUEUE_DEPTH
OnlyTheCycleHangs ==
    WF_vars(server_receive \/ server_write) => <>(client.pc = "gone") \/ <>[]WriteCycle

\* When the pass is over the reader thread stops as well, even if it is blocked
\* in the full queue or in a read.
ReaderStops == client.pc = "gone" ~> reader.pc = "exited"
=============================================================================
