------------------------------ MODULE GatewayBridge ------------------------------
(***************************************************************************)
(* war_room_adapter.py (PersistentGatewayBridge and OpenClawSessionAdapter) *)
(* with war_room_gateway_bridge.mjs: the direct lane's requests go through  *)
(* the pipes of one Node process, which serves them one at a time over a    *)
(* WebSocket.  Each side has its own timeout, so an answer may come when    *)
(* nobody waits for it: Node drops a late answer of the Gateway, but a line *)
(* Node has written late stays in the pipe for the next reader.             *)
(***************************************************************************)
EXTENDS Naturals, Sequences, FiniteSets

CONSTANTS
    Deliveries,   \* each with its disposable session and at most one Gateway run
    MaxRequests   \* bound on the bridge's request counter

VARIABLES
    counter,      \* PersistentGatewayBridge._counter
    op,           \* the adapter call under the bridge lock, with the request it waits for
    stdin,        \* requests Node has not read yet
    node,         \* the request Node is waiting for, or Idle
    flight,       \* requests the Gateway has not executed yet
    pipe, buffer, \* Node's output: in the pipe, and read into Python's text buffer
    run,          \* the run of each delivery at the Gateway
    known,        \* _delivery_runs
    receipt       \* the last DeliveryReceipt of each delivery

bridge == <<counter, op, stdin, node, flight, pipe, buffer, run, known, receipt>>

Idle     == [id |-> 0, method |-> "none", of |-> "none"]
Free     == [call |-> "none", of |-> "none", status |-> "none"]

Init ==
    /\ counter = 0 /\ op = Free /\ stdin = <<>> /\ node = Idle /\ flight = {}
    /\ pipe = <<>> /\ buffer = <<>>
    /\ run = [d \in Deliveries |-> "none"] /\ known = {}
    /\ receipt = [d \in Deliveries |-> "none"]

(********************************* adapter *********************************)

\* PersistentGatewayBridge.request writes one line; its answer is awaited.
Send(call, d, method, status) ==
    /\ counter < MaxRequests /\ counter' = counter + 1
    /\ stdin' = Append(stdin, [id |-> counter', method |-> method, of |-> d])
    /\ op' = [call |-> call, of |-> d, status |-> status]

Deliver(d) ==
    /\ op = Free /\ Send("deliver", d, "agent", "none")
    /\ UNCHANGED <<node, flight, pipe, buffer, run, known, receipt>>

Poll(d) ==
    /\ op = Free /\ d \in known /\ Send("poll", d, "agent.wait", "none")
    /\ UNCHANGED <<node, flight, pipe, buffer, run, known, receipt>>

\* A stop of a known run first makes sure the owner connection is alive.
Stop(d) ==
    /\ op = Free
    /\ Send("stop", d, IF d \in known THEN "bridge.status" ELSE "chat.abort", "none")
    /\ UNCHANGED <<node, flight, pipe, buffer, run, known, receipt>>

Finish(d, r) == receipt' = [receipt EXCEPT ![d] = r] /\ op' = Free
NoRequest    == UNCHANGED <<counter, stdin>>

\* What the adapter makes of an accepted answer; v is the answer's value.
Accepted(method, d, v) ==
    \/ /\ method = "agent"
       /\ known' = known \cup {d} /\ Finish(d, "received") /\ NoRequest
    \/ /\ method = "agent.wait" /\ v = "error"
       /\ Finish(d, "failed") /\ NoRequest /\ UNCHANGED known
    \/ /\ method = "agent.wait" /\ v # "error"
       /\ Send("poll", d, "chat.history", v) /\ UNCHANGED <<known, receipt>>
    \/ /\ method = "chat.history"   \* a finished answer, or one of an inactive session
       /\ Finish(d, IF op.status = "ok" \/ v = "ok" THEN "responded" ELSE "received")
       /\ NoRequest /\ UNCHANGED known
    \/ /\ method = "bridge.status"
       /\ Send("stop", d, "chat.abort", "none") /\ UNCHANGED <<known, receipt>>
    \/ /\ method = "chat.abort"
       /\ Finish(d, IF v = "aborted" THEN "stopped" ELSE "failed") /\ NoRequest
       /\ UNCHANGED known

\* A refused or missing answer; a poll that fails on the history keeps its status.
Refused(d, r) ==
    /\ Finish(d, CASE op.status = "ok" -> "responded"
                   [] op.status = "pending" -> "received"
                   [] OTHER -> r)
    /\ NoRequest /\ UNCHANGED known

MatchesAny(line) == line.ok   \* mutant: the id of the answer is not compared
Matches(line) == line.ok /\ line.id = counter

\* select() sees the pipe only; readline empties it into the buffer and returns the
\* first line of all.
Read ==
    /\ op # Free /\ pipe # <<>>
    /\ LET lines == buffer \o pipe  line == Head(lines) IN
       /\ buffer' = Tail(lines) /\ pipe' = <<>>
       /\ IF Matches(line) THEN Accepted(line.method, op.of, line.value)
                           ELSE Refused(op.of, "failed")
    /\ UNCHANGED <<node, flight, run>>

ReadTimeout ==
    /\ op # Free /\ pipe = <<>>
    /\ Refused(op.of, "timed_out")
    /\ UNCHANGED <<node, flight, pipe, buffer, run>>

(*************************** Node and the Gateway **************************)

Line(q, ok, v) == [id |-> q.id, ok |-> ok, method |-> q.method, value |-> v]

\* One line at a time; bridge.status is answered without the Gateway.
NodeTakes ==
    /\ node = Idle /\ stdin # <<>>
    /\ stdin' = Tail(stdin)
    /\ IF Head(stdin).method = "bridge.status"
       THEN pipe' = Append(pipe, Line(Head(stdin), TRUE, "connected")) /\ UNCHANGED <<node, flight>>
       ELSE node' = Head(stdin) /\ flight' = flight \cup {Head(stdin)} /\ UNCHANGED pipe
    /\ UNCHANGED <<counter, op, buffer, run, known, receipt>>

\* The Gateway executes a request, in any order, and may do so after Node gave up;
\* an "agent" request is idempotent by its delivery.
Outcome(m, s) ==
    CASE m = "agent" -> "accepted"
      [] m = "chat.abort" -> IF s = "active" THEN "aborted" ELSE "not running"
      [] OTHER -> CASE s = "done" -> "ok" [] s = "aborted" -> "error" [] OTHER -> "pending"

GatewayExecutes(q) ==
    /\ flight' = flight \ {q}
    /\ run' = [run EXCEPT ![q.of] = CASE q.method = "agent" /\ @ = "none" -> "active"
                                      [] q.method = "chat.abort" /\ @ = "active" -> "aborted"
                                      [] OTHER -> @]
    /\ IF node = q THEN node' = Idle /\ pipe' = Append(pipe, Line(q, TRUE, Outcome(q.method, run[q.of])))
                   ELSE UNCHANGED <<node, pipe>>
    /\ UNCHANGED <<counter, op, stdin, buffer, known, receipt>>

NodeTimeout ==
    /\ node # Idle
    /\ node' = Idle /\ pipe' = Append(pipe, Line(node, FALSE, "none"))
    /\ UNCHANGED <<counter, op, stdin, flight, buffer, run, known, receipt>>

RunEnds(d) ==
    /\ run[d] = "active" /\ run' = [run EXCEPT ![d] = "done"]
    /\ UNCHANGED <<counter, op, stdin, node, flight, pipe, buffer, known, receipt>>

Next ==
    \/ \E d \in Deliveries : Deliver(d) \/ Poll(d) \/ Stop(d) \/ RunEnds(d)
    \/ Read \/ ReadTimeout \/ NodeTakes \/ NodeTimeout
    \/ \E q \in flight : GatewayExecutes(q)

(******************************* properties ********************************)

\* Receipts tell the truth about the run at the Gateway, whatever answers were late,
\* dropped or read by the wrong request: received means there is a run, responded that
\* it finished, stopped that it was aborted, and a known run exists.
ReceiptsTrue ==
    \A d \in Deliveries :
        /\ d \in known \/ receipt[d] = "received" => run[d] # "none"
        /\ receipt[d] = "responded" => run[d] = "done"
        /\ receipt[d] = "stopped" => run[d] = "aborted"

(****************************** why it holds *******************************)

Methods  == {"agent", "agent.wait", "chat.history", "bridge.status", "chat.abort"}
Requests == [id : Nat, method : Methods, of : Deliveries]
Values   == {"none", "connected", "accepted", "aborted", "not running", "ok", "error", "pending"}
Lines    == [id : Nat, ok : BOOLEAN, method : Methods, value : Values]
TypeOK ==
    /\ counter \in Nat
    /\ op = Free \/ op \in [call : {"deliver", "poll", "stop"}, of : Deliveries,
                            status : {"none", "ok", "pending"}]
    /\ stdin \in Seq(Requests) /\ node \in Requests \cup {Idle} /\ flight \subseteq Requests
    /\ pipe \in Seq(Lines) /\ buffer \in Seq(Lines)
    /\ run \in [Deliveries -> {"none", "active", "done", "aborted"}]
    /\ known \subseteq Deliveries
    /\ receipt \in [Deliveries -> {"none", "received", "responded", "stopped", "failed", "timed_out"}]

\* The request, or the answer, that the adapter call under the lock is waiting for; an
\* older id cannot become the counter again.
Awaited(x) == op # Free /\ x.id = counter

RequestTrue(q) ==
    /\ q.id <= counter
    /\ Awaited(q) => q.of = op.of /\ (q.method \in {"agent.wait", "chat.history"} => op.of \in known)

\* An accepted answer to it is about its delivery, and what it says stays true.
LineTrue(line) ==
    /\ line.id <= counter
    /\ Awaited(line) /\ line.ok =>
          /\ line.method \in {"agent.wait", "chat.history"} => op.of \in known
          /\ line.method = "agent" => run[op.of] # "none"
          /\ line.method = "agent.wait" => line.value \in {"ok", "error", "pending"}
          /\ line.value = "ok" => run[op.of] = "done"
          /\ line.method = "chat.abort" /\ line.value = "aborted" => run[op.of] = "aborted"

OpTrue ==
    /\ op.status = "ok" => run[op.of] = "done"
    /\ op.status = "pending" => op.of \in known

IndInv ==
    /\ TypeOK /\ OpTrue /\ ReceiptsTrue
    /\ \A i \in 1..Len(stdin) : RequestTrue(stdin[i])
    /\ \A q \in flight : RequestTrue(q)
    /\ node # Idle => node.id <= counter
    /\ \A i \in 1..Len(pipe) : LineTrue(pipe[i])
    /\ \A i \in 1..Len(buffer) : LineTrue(buffer[i])
================================================================================
