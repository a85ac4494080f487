------------------------------ MODULE Dataman ------------------------------
(***************************************************************************)
(* The data manager: the server (task_main_loop in                         *)
(* modules/dataman/dataman.cpp) and its clients (class DatamanClient in    *)
(* lib/dataman_client).  Requests and responses travel over two uORB       *)
(* topics that hold one message each, so a request can be overwritten      *)
(* before the server takes it and a response before its client looks at    *)
(* it; clients repeat their requests.                                      *)
(*                                                                         *)
(* A write has a number, its stamp, which is also the value that it        *)
(* writes, and no two clients ask for an identifier at the same time, so   *)
(* that the client stands for the time that such a request carries.  The   *)
(* server starts after its init, and with an initialised store.  It is     *)
(* never restarted.                                                        *)
(***************************************************************************)
EXTENDS Naturals, FiniteSets

CONSTANTS Clients,
          Updated,    \* those whose owner calls update(), and makes asynchronous calls
          Items,      \* the item types
          Indices,    \* the places of each type
          MaxId,      \* UINT8_MAX
          MaxCalls,   \* bound: calls of the clients' operations
          MaxFaults   \* bound: failures of the store

ASSUME DatamanAssumption ==
    /\ Updated \subseteq Clients /\ 0 \in Indices
    /\ {MaxId, MaxCalls, MaxFaults} \subseteq Nat /\ MaxId > 0
    /\ Clients \cap Nat = {}

VARIABLES
  store,      \* what the file holds
  ids,        \* dataman_clients_count
  served,     \* the response that the server is about to publish
  request,    \* the request that the server has not seen, in the topic dataman_request
  response,   \* the topic dataman_response
  unread,     \* the clients whose subscription to it has an update
  id,         \* _client_id
  op,         \* the call under way of each client: the one that blocks, the asynchronous one
  calls,      \* number of calls so far
  faults,     \* number of failures of the store so far
  answered,   \* history: the store when the last response was published
  seen        \* history: what the key of each call under way has held since the response
              \* before it began

vars == <<store, ids, served, request, response, unread, id, op, calls, faults, answered, seen>>

Keys == Items \X Indices
Modes == {"sync", "async"}
Types == {"read", "write", "clear"}
NotSet == 0
Empty == 0
Torn == MaxCalls + 1    \* what a failed write may leave
NoOp == [state |-> "idle"]
None == [client |-> NotSet, type |-> "none", key |-> <<>>, stamp |-> 0]
Response(r, client, data, ok) ==
    [client |-> client, type |-> r.type, key |-> r.key, stamp |-> r.stamp, data |-> data, ok |-> ok]
NoResponse == Response(None, NotSet, 0, FALSE)

Init ==
    /\ store = [k \in Keys |-> Empty]
    /\ ids = 1
    /\ served = NoResponse
    /\ request = None
    /\ response = NoResponse
    /\ unread = {}
    /\ id = [c \in Clients |-> NotSet]
    /\ op = [c \in Clients |-> [m \in Modes |-> IF m = "sync" THEN [state |-> "new"] ELSE NoOp]]
    /\ calls = 0
    /\ faults = 0
    /\ answered = store
    /\ seen = [c \in Clients |-> [m \in Modes |-> {}]]
-----------------------------------------------------------------------------
(* The server: it takes the request and does it in one step, as nobody else *)
(* uses the store, and publishes the response in another.                   *)

serverVars == <<store, ids, served, response, faults, answered>>
clientVars == <<unread, id, op, calls>>

Take(type) ==
    /\ served = NoResponse
    /\ request.type = type
    /\ request' = None
    /\ UNCHANGED <<response, answered, clientVars>>

Serve(client, data, ok) == served' = Response(request, client, data, ok)

\* What a call remembers of the values that its key holds: a read all of them, a write
\* whether its own was among them.
Noticed(message, values) ==
    CASE message.type = "read" -> values
      [] message.type = "write" -> values \cap {message.stamp}
      [] OTHER -> {}

\* An operation of the store succeeds or fails.
Attempt(ok) ==
    /\ ~ok => faults < MaxFaults
    /\ faults' = IF ok THEN faults ELSE faults + 1

Store(values) ==
    /\ store' = values
    /\ seen' = [c \in Clients |-> [m \in Modes |->
                  IF op[c][m].state = "sent" /\ op[c][m].message.type # "id"
                  THEN seen[c][m] \cup Noticed(op[c][m].message, {values[op[c][m].message.key]})
                  ELSE seen[c][m]]]
    /\ UNCHANGED ids

\* Mutant of GetId: the identifier is not counted.
GetIdAgain ==
    /\ Take("id")
    /\ Serve(ids, request.stamp, FALSE)
    /\ UNCHANGED <<ids, faults, store, seen>>

\* DM_GET_ID: when there are none left, the answer has the identifier of the request
GetId ==
    /\ Take("id")
    /\ IF ids < MaxId
       THEN ids' = ids + 1 /\ Serve(ids, request.stamp, FALSE)
       ELSE Serve(NotSet, 0, FALSE) /\ UNCHANGED ids
    /\ UNCHANGED <<store, faults, seen>>

\* DM_WRITE: what is in the file after a failed write is not known
Write ==
    /\ Take("write")
    /\ \E ok \in BOOLEAN, value \in {request.stamp, store[request.key], Torn} :
        /\ Attempt(ok)
        /\ ok => value = request.stamp
        /\ Store([store EXCEPT ![request.key] = value])
        /\ Serve(request.client, 0, ok)

\* DM_READ
Read ==
    /\ Take("read")
    /\ \E ok \in BOOLEAN :
        /\ Attempt(ok)
        /\ Serve(request.client, IF ok THEN store[request.key] ELSE 0, ok)
    /\ UNCHANGED <<store, ids, seen>>

\* DM_CLEAR: a failure leaves the places from some index on as they are, and it is not
\* reported when nothing could be read there.
Clear ==
    /\ Take("clear")
    /\ \E done \in SUBSET Indices, ok \in BOOLEAN :
        /\ Attempt(done = Indices)
        /\ done = Indices => ok
        /\ \A n \in Indices, k \in done : n < k => n \in done
        /\ Store([k \in Keys |-> IF k[1] = request.key[1] /\ k[2] \in done THEN Empty
                                 ELSE store[k]])
        /\ Serve(request.client, 0, ok)

Answer ==
    /\ served # NoResponse
    /\ served' = NoResponse
    /\ response' = served
    /\ unread' = Clients
    /\ answered' = store
    /\ UNCHANGED <<store, ids, request, id, op, calls, faults, seen>>
-----------------------------------------------------------------------------
(* The clients                                                              *)

Blocked(c) == op[c]["sync"] # NoOp
Publish(message) == request' = message

\* A call of client c publishes its request.  What was overwritten before may still be
\* what the last response says.
Begin(c, m, type, k) ==
    LET message == [client |-> id[c], type |-> type, key |-> k,
                    stamp |-> IF type = "write" THEN calls + 1 ELSE 0] IN
    /\ calls < MaxCalls
    /\ calls' = calls + 1
    /\ id[c] # NotSet /\ ~Blocked(c)
    /\ op' = [op EXCEPT ![c][m] = [state |-> "sent", message |-> message]]
    /\ seen' = [seen EXCEPT ![c][m] = Noticed(message, {answered[k], store[k]})]
    /\ Publish(message)
    /\ UNCHANGED <<serverVars, unread, id>>

\* The constructor, which first copies what there is
Create(c) ==
    LET message == [None EXCEPT !.type = "id", !.stamp = c] IN
    /\ op[c]["sync"].state = "new"
    /\ op' = [op EXCEPT ![c]["sync"] = [state |-> "sent", message |-> message]]
    /\ Publish(message)
    /\ unread' = unread \ {c}
    /\ UNCHANGED <<serverVars, id, calls, seen>>

\* readSync, writeSync and clearSync; clearSync leaves the index uninitialised.
CallSync(c, type, k) == Begin(c, "sync", type, k)

\* readAsync, writeAsync and clearAsync
CallAsync(c, type, k) ==
    /\ c \in Updated
    /\ op[c]["async"] = NoOp
    /\ type = "clear" => k[2] = 0
    /\ Begin(c, "async", type, k)

\* Mutant of Matches: the type of the request is not compared.
MatchesAnyType(message, r) ==
    IF r.client = message.client
    THEN message.type # "id" => r.key = message.key
    ELSE message.type = "id" /\ r.data = message.stamp

\* Is r the answer to the message?  The time at which it was sent is compared for
\* DM_GET_ID only.
Matches(message, r) ==
    IF r.client = message.client
    THEN r.type = message.type /\ r.key = message.key
    ELSE message.type = "id" /\ r.data = message.stamp

\* The call of c ends, in a state that forgets it.
End(c, m, state) ==
    /\ op' = [op EXCEPT ![c][m] = [state |-> state]]
    /\ seen' = [seen EXCEPT ![c][m] = {}]

Sent(c, m) == op[c][m].state = "sent" /\ (m = "async" => ~Blocked(c))

\* Client c copies the response, and it is the answer to the call.
Accept(c, m) ==
    /\ Sent(c, m)
    /\ c \in unread
    /\ Matches(op[c][m].message, response)
    /\ unread' = unread \ {c}

\* syncHandler: the answer ends the call
Receive(c) ==
    /\ Accept(c, "sync")
    /\ End(c, "sync", "idle")
    /\ id' = IF op[c]["sync"].message.type = "id" THEN [id EXCEPT ![c] = response.client] ELSE id
    /\ UNCHANGED <<serverVars, request, calls>>

\* syncHandler: another response ends the wait only
Ignore(c) ==
    /\ Sent(c, "sync")
    /\ c \in unread
    /\ ~Matches(op[c]["sync"].message, response)
    /\ unread' = unread \ {c}
    /\ UNCHANGED <<serverVars, request, id, op, calls, seen>>

\* px4_poll waited 100 ms for nothing: the request is sent again.  A response that comes
\* before it is sent might as well have come after.
Repeat(c) ==
    /\ Sent(c, "sync")
    /\ c \notin unread
    /\ Publish(op[c]["sync"].message)
    /\ UNCHANGED <<serverVars, unread, id, op, calls, seen>>

\* The time of the call is over.
GiveUp(c) ==
    /\ Sent(c, "sync")
    /\ End(c, "sync", "idle")
    /\ UNCHANGED <<serverVars, request, unread, id, calls>>

\* update: the response is there
UpdateAnswered(c) ==
    /\ Accept(c, "async")
    /\ End(c, "async", "answered")
    /\ UNCHANGED <<serverVars, request, id, calls>>

\* Mutant of Resend: a request is sent once.
ResendNever(c) == UNCHANGED request

Resend(c) == Publish(op[c]["async"].message)

\* update: it is not; after 100 ms the request is sent again (DM_CLEAR: 1000 ms)
UpdateUnanswered(c) ==
    /\ Sent(c, "async")
    /\ c \in unread => ~Matches(op[c]["async"].message, response)
    /\ unread' = unread \ {c}
    /\ Resend(c) \/ UNCHANGED request
    /\ UNCHANGED <<serverVars, id, op, calls, seen>>

\* lastOperationCompleted, or abortCurrentOperation
Finish(c) ==
    /\ ~Blocked(c)
    /\ op[c]["async"] # NoOp
    /\ End(c, "async", "idle")
    /\ UNCHANGED <<serverVars, request, unread, id, calls>>
-----------------------------------------------------------------------------
Server == GetId \/ Write \/ Read \/ Clear \/ Answer

Client(c) ==
    \/ Create(c)
    \/ \E type \in Types, k \in Keys : CallSync(c, type, k) \/ CallAsync(c, type, k)
    \/ Receive(c) \/ Ignore(c) \/ Repeat(c) \/ GiveUp(c)
    \/ UpdateAnswered(c) \/ UpdateUnanswered(c) \/ Finish(c)

Next == Server \/ \E c \in Clients : Client(c)

\* The server and the clients go on with what they have begun, an asynchronous call
\* is sent again as long as it is not answered, and the time of a blocking call passes.
\* The server looks for a request once a second and clients look for responses more
\* often, so that an answer is not missed for ever.
Fairness ==
    /\ WF_vars(Server)
    /\ \A c \in Clients : WF_vars(GiveUp(c))
    /\ \A c \in Updated :
        /\ SF_vars(UpdateAnswered(c))
        /\ SF_vars(UpdateUnanswered(c) /\ Resend(c))

Spec == Init /\ [][Next]_vars /\ Fairness
-----------------------------------------------------------------------------
Values == 0..MaxCalls + 1
Ids == 0..MaxId - 1
Messages == [client : Ids, type : Types, key : Keys, stamp : 0..MaxCalls]
            \cup [client : {NotSet}, type : {"id"}, key : {<<>>}, stamp : Clients]
Responses == [client : Ids, type : Types, key : Keys, stamp : 0..MaxCalls,
              data : Values, ok : BOOLEAN]
             \cup [client : Ids, type : {"id"}, key : {<<>>}, stamp : Clients,
                   data : Clients \cup {0}, ok : {FALSE}]

\* The types of the variables.
TypeOK ==
    /\ store \in [Keys -> Values] /\ answered \in [Keys -> Values]
    /\ ids \in 1..MaxId
    /\ {served, response} \subseteq Responses \cup {NoResponse}
    /\ request \in Messages \cup {None}
    /\ unread \subseteq Clients
    /\ id \in [Clients -> Ids]
    /\ op \in [Clients -> [Modes -> [state : {"new", "idle", "answered"}]
                                    \cup [state : {"sent"}, message : Messages]]]
    /\ calls \in 0..MaxCalls /\ faults \in 0..MaxFaults
    /\ seen \in [Clients -> [Modes -> SUBSET Values]]

\* No two clients have the same identifier, by which they tell their responses apart,
\* although a request for one that is repeated is answered more than once.
UniqueIds == \A c, d \in Clients : c # d /\ id[c] # NotSet => id[c] # id[d]

\* The call of c of that type ends with the response, which reports success.
Succeeds(c, m, type) ==
    Accept(c, m) /\ op'[c][m] # op[c][m] /\ op[c][m].message.type = type /\ response.ok

\* A successful read returns a value that the item had during the call, or before it if
\* nobody has been told yet of what overwrote it, even if the response was one to an
\* earlier call: the topic holds only the last response.
ReadFresh ==
    [][\A c \in Clients, m \in Modes : Succeeds(c, m, "read") => response.data \in seen[c][m]]_vars

Done(c, m) == op[c][m].message.stamp \in seen[c][m]

\* A write that is reported as successful has been done, unless the response was one to
\* another write of the same item by the same client: a late one to a write that was
\* repeated or given up, or one to the other of two writes at once.
WriteDone ==
    [][\A c \in Clients, m \in Modes :
         Succeeds(c, m, "write") =>
           \/ Done(c, m)
           \/ /\ response.type = "write"
              /\ response.stamp # op[c][m].message.stamp
              /\ response.client = id[c]
              /\ response.key = op[c][m].message.key]_vars

\* An asynchronous call is answered or aborted in the end, whatever is overwritten and
\* whatever the blocking calls of the same client take from the subscription.
AsyncEnds ==
    \A c \in Updated : op[c]["async"].state = "sent" ~> op[c]["async"].state # "sent"
=============================================================================
