----------------------------- MODULE HttpServer -----------------------------
(***************************************************************************)
(* uw_cse333/hw/hw4: HttpServer accepts connections and dispatches each as *)
(* a task to the thread pool.  The task function HttpServer_ThrFn reads    *)
(* requests with HttpConnection::GetNextRequest and answers them until     *)
(* reading or writing fails or the client has asked to close.              *)
(*                                                                         *)
(* A request on the wire is three pieces: its lines, named by the request, *)
(* and the two line ends of the "\r\n\r\n" behind it.  A read returns any  *)
(* number of the pieces that have arrived, so requests reach buffer_ cut   *)
(* and joined in every way.                                                *)
(***************************************************************************)
EXTENDS ThreadPool

CONSTANTS Requests,  \* the requests each client is going to send, in order
          Header     \* name of the connection header a request carries, or ""

Client == Task
NL == "NL"           \* one "\r\n"

\* The lines of a request are not empty.
ASSUME RequestsAssumption == \A c \in Client : Requests[c] \in Seq(STRING \ {NL})

VARIABLES
    toSend,    \* pieces the client has not sent yet
    wire,      \* pieces sent and not yet read
    client,    \* "new", "open", "closed" or "reset"
    buffer_,   \* HttpConnection::buffer_
    conn,      \* where HttpServer_ThrFn is on this connection
    req,       \* the parsed request being answered
    replies    \* history: the requests answered, in order

httpVars == <<toSend, wire, client, buffer_, conn, req, replies>>
vars == <<poolVars, httpVars>>

Stream(c) ==
    [k \in 1 .. 3 * Len(Requests[c]) |-> IF k % 3 = 1 THEN Requests[c][(k + 2) \div 3] ELSE NL]

Init ==
    /\ InitPool
    /\ toSend = [c \in Client |-> Stream(c)]
    /\ wire = [c \in Client |-> <<>>]
    /\ client = [c \in Client |-> "new"]
    /\ buffer_ = [c \in Client |-> <<>>]
    /\ conn = [c \in Client |-> "reading"]
    /\ req = [c \in Client |-> <<>>]
    /\ replies = [c \in Client |-> <<>>]
-----------------------------------------------------------------------------
(* The clients: once connected they send, and leave at any time. *)

Send(c) ==
    /\ client[c] = "open"
    /\ toSend[c] # <<>>
    /\ wire' = [wire EXCEPT ![c] = Append(@, Head(toSend[c]))]
    /\ toSend' = [toSend EXCEPT ![c] = Tail(@)]
    /\ UNCHANGED <<poolVars, client, buffer_, conn, req, replies>>

\* The client closes its end, or resets the connection, which also drops what
\* was not read.
Leave(c, how) ==
    /\ client[c] = "open"
    /\ client' = [client EXCEPT ![c] = how]
    /\ wire' = IF how = "reset" THEN [wire EXCEPT ![c] = <<>>] ELSE wire
    /\ UNCHANGED <<poolVars, toSend, buffer_, conn, req, replies>>
-----------------------------------------------------------------------------
(* HttpServer::Run, executed by the owner of the pool. *)

\* Accept returns a connection of a new client, which is dispatched.
Accept(c) ==
    /\ client[c] = "new"
    /\ Dispatch(c)
    /\ client' = [client EXCEPT ![c] = "open"]
    /\ UNCHANGED <<toSend, wire, buffer_, conn, req, replies>>

\* Accept fails, Run breaks out of its loop, and the pool, a local variable,
\* is destroyed.
AcceptFails ==
    /\ Kill
    /\ UNCHANGED httpVars
-----------------------------------------------------------------------------
(* HttpConnection. *)

\* buffer_.find("\r\n\r\n"): the places where two line ends follow each other.
Ends(b) == {i \in 1 .. Len(b) - 1 : b[i] = NL /\ b[i + 1] = NL}
Find(b) == CHOOSE i \in Ends(b) : \A j \in Ends(b) : i <= j

\* ParseRequest: to_lower is applied to every header line, so the names in
\* req.headers are in lower case.
LowerCase(name) == IF name = "Connection" THEN "connection" ELSE name
ParseRequest(b, end) ==
    LET line == CHOOSE r \in Elements(SubSeq(b, 1, end)) : r # NL
    IN  [request |-> line, headers |-> {LowerCase(Header[line])} \ {""}]

TakeRequest_Keep(c) ==
    /\ Ends(buffer_[c]) # {}
    /\ req' = [req EXCEPT ![c] = ParseRequest(buffer_[c], Find(buffer_[c]) + 1)]
    /\ UNCHANGED buffer_

\* A complete request is in buffer_: parse it and keep what follows it.
TakeRequest(c) ==
    /\ Ends(buffer_[c]) # {}
    /\ req' = [req EXCEPT ![c] = ParseRequest(buffer_[c], Find(buffer_[c]) + 1)]
    /\ buffer_' = [buffer_ EXCEPT ![c] = SubSeq(@, Find(@) + 2, Len(@))]

\* One turn of the reading loop of GetNextRequest, when WrappedRead returns data.
ReadSome(c) ==
    /\ Ends(buffer_[c]) = {}
    /\ \E n \in 1 .. Len(wire[c]) :
        /\ buffer_' = [buffer_ EXCEPT ![c] = @ \o SubSeq(wire[c], 1, n)]
        /\ wire' = [wire EXCEPT ![c] = SubSeq(@, n + 1, Len(@))]

\* WrappedRead returns 0 at the end of the stream and -1 on a broken one.
ReadFails(c) ==
    /\ Ends(buffer_[c]) = {}
    /\ wire[c] = <<>>
    /\ client[c] \in {"closed", "reset"}
-----------------------------------------------------------------------------
(* HttpServer_ThrFn, executed by e. *)

Executes(e, c) == c # NoTask /\ task[e] = c

GetNextRequest(e, c) ==
    /\ Executes(e, c)
    /\ conn[c] = "reading"
    /\ \/ /\ TakeRequest(c)
          /\ conn' = [conn EXCEPT ![c] = "answering"]
          /\ UNCHANGED wire
       \/ /\ ReadSome(c)
          /\ UNCHANGED <<conn, req>>
       \/ /\ ReadFails(c)
          /\ conn' = [conn EXCEPT ![c] = "done"]
          /\ UNCHANGED <<wire, buffer_, req>>
    /\ UNCHANGED <<poolVars, toSend, client, replies>>

\* The test of HttpServer_ThrFn for a header that asks to close.
AsksToClose(c) == "Connection" \in req[c].headers

\* ProcessRequest and WriteResponse.  Writing fails on a reset connection and
\* may fail when the client has closed its end.
Respond(e, c) ==
    /\ Executes(e, c)
    /\ conn[c] = "answering"
    /\ \/ /\ client[c] # "reset"
          /\ replies' = [replies EXCEPT ![c] = Append(@, req[c].request)]
          /\ conn' = [conn EXCEPT ![c] = IF AsksToClose(c) THEN "done" ELSE "reading"]
       \/ /\ client[c] # "open"
          /\ conn' = [conn EXCEPT ![c] = "done"]
          /\ UNCHANGED replies
    /\ UNCHANGED <<poolVars, toSend, wire, client, buffer_, req>>

\* The loop has ended, HttpConnection closes the socket, the task returns.
ThrFnReturns(e) ==
    /\ task[e] # NoTask
    /\ conn[task[e]] = "done"
    /\ IF e = Owner THEN DrainReturns ELSE TaskReturns(e)
    /\ UNCHANGED httpVars

ThrFn(e) ==
    \/ \E c \in Client : GetNextRequest(e, c) \/ Respond(e, c)
    \/ ThrFnReturns(e)
-----------------------------------------------------------------------------
Clients == \E c \in Client : Send(c) \/ Leave(c, "closed") \/ Leave(c, "reset")

PoolSteps ==
    /\ \/ \E t \in Thread : Worker(t) \/ SpuriousWakeup(t)
       \/ Spawn \/ Constructed \/ Destructor
    /\ UNCHANGED httpVars

\* The server has ended.
Ended == owner = "destroyed" /\ UNCHANGED vars

HttpNext ==
    \/ Clients
    \/ (\E c \in Client : Accept(c)) \/ AcceptFails
    \/ \E e \in Executor : ThrFn(e)
    \/ PoolSteps
    \/ Ended

\* Threads are scheduled, system calls that can return do return.  Clients,
\* the arrival of connections and the failure of accept are not fair.
Fairness ==
    /\ \A e \in Executor : WF_vars(ThrFn(e))
    /\ \A t \in Thread : WF_vars(Worker(t) /\ UNCHANGED httpVars)
    /\ WF_vars((Spawn \/ Constructed \/ Destructor) /\ UNCHANGED httpVars)

HttpSpec == Init /\ [][HttpNext]_vars /\ Fairness
-----------------------------------------------------------------------------
(* Properties. *)

\* Back-to-back requests are answered once each and in order, however the
\* stream is cut into reads: GetNextRequest keeps what it has read beyond the
\* first "\r\n\r\n" for its next call, as its comment asks.  When the server
\* reads on after everything it was sent, nothing is left behind.
AnsweredInOrder ==
    \A c \in Client :
        /\ Len(replies[c]) <= Len(Requests[c])
        /\ \A i \in 1 .. Len(replies[c]) : replies[c][i] = Requests[c][i]
        /\ conn[c] = "reading" /\ Ends(buffer_[c]) = {} /\ wire[c] = <<>> /\ toSend[c] = <<>>
                /\ client[c] # "reset"
            => replies[c] = Requests[c]

\* If no client stays for ever, every accepted connection is served to its end,
\* also those that are still queued when the server shuts down.
ServedIfNobodyStays ==
    <>[](\A c \in Client : client[c] # "open")
        => []<>(Elements(dispatched) = finished)

\* If no client stays for ever, the destructor of the pool, which joins the
\* workers and serves the queue itself, returns.
ShutdownEnds ==
    <>[](\A c \in Client : client[c] # "open")
        => (owner = "joining" ~> owner = "destroyed")

\* "If the client sent a Connection: close header, then shut down the
\* connection" (HttpServer.cc): a request that asks to close is the last one
\* answered.
CloseEndsConnection ==
    \A c \in Client : \A i \in 1 .. Len(replies[c]) - 1 :
        Header[replies[c][i]] = ""
=============================================================================
