----------------------------- MODULE MCLspClient -----------------------------
(* Queues of one message, so that a few frames fill all of them; the server  *)
(* request has the id of the first call after initialize.                    *)
EXTENDS LspClient

MCUnasked ==
    {frame("request", 2, 0, "unknown"), frame("payload", 0, 0, "unknown"),
     frame("garbage", 0, 0, "unknown"), frame("busy", 0, 0, "ok"),
     frame("quiescent", 0, 0, "ok"), frame("quiescent", 0, 0, "error")}
=============================================================================
