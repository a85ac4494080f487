--------------------------- MODULE DatamanProofs ---------------------------
(***************************************************************************)
(* What holds of the data manager for any number of clients, items and     *)
(* calls.  The inductive invariant adds to the types what the client knows *)
(* of its own calls (Shape), who owns an identifier that is on its way     *)
(* (Identity), what the responses say of the store (Contents), and that a  *)
(* write is known by its stamp (Stamps, Stored).                           *)
(***************************************************************************)
EXTENDS Dataman, TLAPS

Pending(c, m) == op[c][m].state = "sent"
Calling(c, m, type) == Pending(c, m) /\ op[c][m].message.type = type
Message(c, m) == op[c][m].message

\* Which calls a client has under way, and in whose name.
Shape ==
    \A c \in Clients :
        /\ op[c]["async"].state # "new" /\ ~Calling(c, "async", "id")
        /\ op[c]["sync"].state = "new" \/ Calling(c, "sync", "id")
           => id[c] = NotSet /\ ~Pending(c, "async")
        /\ Calling(c, "sync", "id") => Message(c, "sync").stamp = c
        /\ \A m \in Modes :
            Pending(c, m) /\ ~Calling(c, m, "id") => Message(c, m).client = id[c] /\ id[c] # NotSet

Granted(r) == r.type = "id" /\ r.client # NotSet

\* An identifier that a client has, or that a response grants, is nobody else's.
Identity ==
    /\ \A c \in Clients : id[c] < ids
    /\ \A c, d \in Clients : id[c] # NotSet /\ id[c] = id[d] => c = d
    /\ \A r \in {served, response} : Granted(r) =>
        /\ r.client < ids /\ r.data = r.stamp
        /\ \A c \in Clients : id[c] = r.client => c = r.stamp
    /\ Granted(served) /\ Granted(response) /\ served.client = response.client
       => served.stamp = response.stamp

\* What a response says of an item was there during every read that it may answer.
Contents ==
    /\ served.type = "read" /\ served.ok => served.data = store[served.key]
    /\ response.type = "read" /\ response.ok => response.data = answered[response.key]
    /\ \A c \in Clients, m \in Modes : Calling(c, m, "read") =>
        {store[Message(c, m).key], answered[Message(c, m).key]} \subseteq seen[c][m]

\* The number of a write stands for one item.
Stamps ==
    \A c \in Clients, m \in Modes : Calling(c, m, "write") =>
        /\ Message(c, m).stamp <= calls
        /\ \A r \in {request, served, response} :
            r.type = "write" /\ r.stamp = Message(c, m).stamp => r.key = Message(c, m).key
        /\ \A d \in Clients, n \in Modes :
            Calling(d, n, "write") /\ Message(d, n).stamp = Message(c, m).stamp
            => Message(d, n).key = Message(c, m).key

\* No write has a number that is still to be given out.
Recent ==
    \A r \in {request, served, response} : r.type = "write" => r.stamp <= calls

\* A response that reports a write comes after the write was done.
Stored ==
    \A c \in Clients, m \in Modes : Calling(c, m, "write") =>
        \A r \in {served, response} :
            r.type = "write" /\ r.ok /\ r.stamp = Message(c, m).stamp => r.stamp \in seen[c][m]

IInv == TypeOK /\ Shape /\ Identity /\ Contents /\ Stamps /\ Recent /\ Stored
-----------------------------------------------------------------------------
Calls == [state : {"new", "idle", "answered"}] \cup [state : {"sent"}, message : Messages]

\* What a request has in its fields, by its type.
LEMMA RequestFields ==
    ASSUME TypeOK
    PROVE  /\ request.type \in Types => /\ request.client \in Ids /\ request.key \in Keys
                                        /\ request.stamp \in 0..MaxCalls
           /\ request.type = "id" => /\ request.client = NotSet /\ request.key = <<>>
                                     /\ request.stamp \in Clients
<1>1. CASE request \in [client : Ids, type : Types, key : Keys, stamp : 0..MaxCalls]
  BY <1>1 DEF Types
<1>2. CASE request \in [client : {NotSet}, type : {"id"}, key : {<<>>}, stamp : Clients]
  BY <1>2 DEF Types
<1>3. CASE request = None
  BY <1>3 DEF None, Types
<1>. QED
  BY <1>1, <1>2, <1>3 DEF TypeOK, Messages

LEMMA StampType ==
    ASSUME TypeOK, NEW r \in {request, served, response}, r.type = "write"
    PROVE  r.stamp \in Nat
<1>1. CASE r = request
  BY <1>1, RequestFields DEF Types
<1>2. ASSUME NEW q \in Responses, q.type = "write" PROVE q.stamp \in Nat
  <2>1. q \in [client : Ids, type : Types, key : Keys, stamp : 0..MaxCalls,
               data : Values, ok : BOOLEAN]
    BY <1>2 DEF Responses
  <2>2. q.stamp \in 0..MaxCalls
    BY <2>1
  <2>. QED
    BY <2>2
<1>3. CASE r = NoResponse
  BY <1>3 DEF NoResponse, Response, None
<1>. QED
  BY <1>1, <1>2, <1>3 DEF TypeOK

LEMMA ResponseClient == ASSUME TypeOK PROVE response.client \in Ids
<1>1. NoResponse.client \in Ids
  BY DatamanAssumption DEF NoResponse, Response, NotSet, Ids
<1>2. \A r \in Responses : r.client \in Ids
  BY DEF Responses
<1>. QED
  BY <1>1, <1>2 DEF TypeOK

\* A response to a request is one.
LEMMA ServedType ==
    ASSUME TypeOK, NEW client \in Ids, NEW ok \in BOOLEAN, NEW data
    PROVE  /\ request.type \in Types /\ data \in Values
              => Response(request, client, data, ok) \in Responses
           /\ request.type = "id" /\ data \in Clients \cup {0}
              => Response(request, client, data, FALSE) \in Responses
BY RequestFields DEF Response, Responses

\* One call of one client changes.
LEMMA SetCall ==
    ASSUME TypeOK, NEW c \in Clients, NEW m \in Modes, NEW call \in Calls, NEW values \in SUBSET Values
    PROVE  /\ [op EXCEPT ![c][m] = call] \in [Clients -> [Modes -> Calls]]
           /\ [seen EXCEPT ![c][m] = values] \in [Clients -> [Modes -> SUBSET Values]]
BY DEF TypeOK, Calls

\* What a step of the store leaves.
LEMMA StoreType ==
    ASSUME TypeOK, NEW values \in [Keys -> Values], Store(values)
    PROVE  /\ store' \in [Keys -> Values]
           /\ ids' = ids
           /\ seen' \in [Clients -> [Modes -> SUBSET Values]]
<1>. DEFINE new(c, m) ==
       IF op[c][m].state = "sent" /\ op[c][m].message.type # "id"
       THEN seen[c][m] \cup Noticed(op[c][m].message, {values[op[c][m].message.key]})
       ELSE seen[c][m]
<1>1. ASSUME NEW c \in Clients, NEW m \in Modes PROVE new(c, m) \in SUBSET Values
  <2>1. seen[c][m] \in SUBSET Values /\ op[c][m] \in Calls
    BY DEF TypeOK, Calls
  <2>2. CASE op[c][m].state = "sent" /\ op[c][m].message.type # "id"
    <3>1. op[c][m].message \in Messages
      BY <2>1, <2>2 DEF Calls
    <3>2. op[c][m].message.key \in Keys
      BY <3>1, <2>2 DEF Messages
    <3>3. Noticed(op[c][m].message, {values[op[c][m].message.key]}) \subseteq Values
      BY <3>2 DEF Noticed
    <3>. QED
      BY <2>1, <2>2, <3>3
  <2>. QED
    BY <2>1, <2>2
<1>2. seen' = [c \in Clients |-> [m \in Modes |-> new(c, m)]]
  BY DEF Store
<1>3. store' = values /\ ids' = ids
  BY DEF Store
<1>. HIDE DEF new
<1>4. \A c \in Clients : [m \in Modes |-> new(c, m)] \in [Modes -> SUBSET Values]
  BY <1>1
<1>. QED
  BY <1>2, <1>3, <1>4
-----------------------------------------------------------------------------
LEMMA InitTypeOK == Init => TypeOK
BY DatamanAssumption DEF Init, TypeOK, NoResponse, Response, None, NotSet, Empty, Values, Torn, NoOp, Modes, Ids

LEMMA ServerTypeOK == ASSUME TypeOK, Server PROVE TypeOK'
<1>. USE DatamanAssumption
<1>1. ASSUME NEW type \in Types \cup {"id"}, Take(type)
      PROVE  /\ request.type = type
             /\ request' \in Messages \cup {None} /\ response' \in Responses \cup {NoResponse}
             /\ answered' \in [Keys -> Values] /\ unread' \subseteq Clients
             /\ id' \in [Clients -> Ids] /\ op' \in [Clients -> [Modes -> Calls]]
             /\ calls' \in 0..MaxCalls
  BY <1>1 DEF Take, clientVars, TypeOK, Calls
<1>2. CASE GetId
  <2>1. request.type = "id" /\ request.stamp \in Clients
    BY <1>2, RequestFields DEF GetId, Take
  <2>2. ids' \in 1..MaxId /\ served' \in Responses
    <3>1. CASE ids < MaxId
      <4>1. ids \in Ids /\ ids' = ids + 1
        BY <1>2, <3>1 DEF GetId, TypeOK, Ids
      <4>2. Response(request, ids, request.stamp, FALSE) \in Responses
        BY <2>1, <4>1, ServedType
      <4>. QED
        <5>1. ids' \in 1..MaxId
          BY <4>1 DEF Ids
        <5>. QED
          BY <1>2, <3>1, <4>2, <5>1 DEF GetId, Serve
    <3>2. CASE ~(ids < MaxId)
      <4>1. NotSet \in Ids
        BY DEF Ids, NotSet
      <4>2. Response(request, NotSet, 0, FALSE) \in Responses
        BY <2>1, <4>1, ServedType
      <4>. QED
        BY <1>2, <3>2, <4>2 DEF GetId, Serve, TypeOK
    <3>. QED
      BY <3>1, <3>2
  <2>. QED
    BY <1>1, <1>2, <2>2 DEF GetId, TypeOK, Calls
<1>3. ASSUME NEW ok \in BOOLEAN, Attempt(ok) PROVE faults' \in 0..MaxFaults
  BY <1>3 DEF Attempt, TypeOK
<1>4. CASE Write
  <2>1. request.type = "write"
    BY <1>4 DEF Write, Take
  <2>2. PICK ok \in BOOLEAN, value \in {request.stamp, store[request.key], Torn} :
          /\ Attempt(ok)
          /\ Store([store EXCEPT ![request.key] = value])
          /\ Serve(request.client, 0, ok)
    BY <1>4 DEF Write
  <2>3. /\ request.client \in Ids /\ request.key \in Keys /\ request.stamp \in 0..MaxCalls
    BY <2>1, RequestFields DEF Types
  <2>4. value \in Values /\ 0 \in Values
    BY <2>3 DEF TypeOK, Values, Torn
  <2>5. [store EXCEPT ![request.key] = value] \in [Keys -> Values]
    BY <2>3, <2>4 DEF TypeOK
  <2>6. /\ store' \in [Keys -> Values] /\ ids' = ids
        /\ seen' \in [Clients -> [Modes -> SUBSET Values]]
    BY <2>2, <2>5, StoreType
  <2>7. served' \in Responses
    BY <2>1, <2>2, <2>3, <2>4, ServedType DEF Serve, Types
  <2>. QED
    BY <1>1, <1>3, <1>4, <2>2, <2>6, <2>7 DEF Write, TypeOK, Calls, Types
<1>5. CASE Read
  <2>1. request.type = "read"
    BY <1>5 DEF Read, Take
  <2>2. PICK ok \in BOOLEAN :
          Attempt(ok) /\ Serve(request.client, IF ok THEN store[request.key] ELSE 0, ok)
    BY <1>5 DEF Read
  <2>3. request.client \in Ids /\ request.key \in Keys
    BY <2>1, RequestFields DEF Types
  <2>4. (IF ok THEN store[request.key] ELSE 0) \in Values
    BY <2>3 DEF TypeOK, Values
  <2>5. served' \in Responses
    BY <2>1, <2>2, <2>3, <2>4, ServedType DEF Serve, Types
  <2>. QED
    BY <1>1, <1>3, <1>5, <2>2, <2>5 DEF Read, TypeOK, Calls, Types
<1>6. CASE Clear
  <2>1. request.type = "clear"
    BY <1>6 DEF Clear, Take
  <2>2. PICK done \in SUBSET Indices, ok \in BOOLEAN :
          /\ Attempt(done = Indices)
          /\ Store([k \in Keys |-> IF k[1] = request.key[1] /\ k[2] \in done THEN Empty ELSE store[k]])
          /\ Serve(request.client, 0, ok)
    BY <1>6 DEF Clear
  <2>3. request.client \in Ids
    BY <2>1, RequestFields DEF Types
  <2>4. [k \in Keys |-> IF k[1] = request.key[1] /\ k[2] \in done THEN Empty ELSE store[k]]
           \in [Keys -> Values]
    BY DEF TypeOK, Values, Empty
  <2>5. /\ store' \in [Keys -> Values] /\ ids' = ids
        /\ seen' \in [Clients -> [Modes -> SUBSET Values]]
    BY <2>2, <2>4, StoreType
  <2>6. served' \in Responses
    <3>1. ok \in BOOLEAN /\ 0 \in Values
      BY <2>2 DEF Values
    <3>2. \A b \in BOOLEAN : Response(request, request.client, 0, b) \in Responses
      BY <2>1, <2>3, <3>1, ServedType DEF Types
    <3>. QED
      BY <2>2, <3>1, <3>2 DEF Serve
  <2>7. faults' \in 0..MaxFaults
    BY <1>3, <2>2
  <2>. QED
    BY <1>1, <1>6, <2>2, <2>5, <2>6, <2>7 DEF Clear, TypeOK, Calls, Types
<1>7. CASE Answer
  BY <1>7 DEF Answer, TypeOK
<1>. QED
  BY <1>2, <1>4, <1>5, <1>6, <1>7 DEF Server

\* What a message of a call under way is.
LEMMA SentMessage ==
    ASSUME TypeOK, NEW c \in Clients, NEW m \in Modes, op[c][m].state = "sent"
    PROVE  op[c][m].message \in Messages
<1>1. op[c][m] \in Calls
  BY DEF TypeOK, Calls
<1>. QED
  BY <1>1 DEF Calls

LEMMA ClientTypeOK == ASSUME TypeOK, NEW c \in Clients, Client(c) PROVE TypeOK'
<1>. USE DatamanAssumption
<1>1. ASSUME NEW m \in Modes, NEW type \in Types, NEW k \in Keys, Begin(c, m, type, k)
      PROVE  TypeOK'
  <2>. DEFINE message == [client |-> id[c], type |-> type, key |-> k,
                          stamp |-> IF type = "write" THEN calls + 1 ELSE 0]
  <2>1. calls + 1 \in 0..MaxCalls /\ id[c] \in Ids
    BY <1>1 DEF Begin, TypeOK
  <2>2. message \in Messages
    BY <2>1 DEF Messages
  <2>3. [state |-> "sent", message |-> message] \in Calls
    BY <2>2 DEF Calls
  <2>4. Noticed(message, {answered[k], store[k]}) \in SUBSET Values
    BY DEF Noticed, TypeOK
  <2>5. /\ op' = [op EXCEPT ![c][m] = [state |-> "sent", message |-> message]]
        /\ seen' = [seen EXCEPT ![c][m] = Noticed(message, {answered[k], store[k]})]
        /\ request' = message /\ calls' = calls + 1
        /\ UNCHANGED <<store, ids, served, response, faults, answered, unread, id>>
    BY <1>1 DEF Begin, Publish, serverVars
  <2>. HIDE DEF message
  <2>6. /\ op' \in [Clients -> [Modes -> Calls]]
        /\ seen' \in [Clients -> [Modes -> SUBSET Values]]
    BY <2>3, <2>4, <2>5, SetCall
  <2>. QED
    BY <2>1, <2>2, <2>5, <2>6 DEF TypeOK, Calls
<1>2. ASSUME NEW m \in Modes, NEW state \in {"idle", "answered"}, End(c, m, state)
      PROVE  /\ op' \in [Clients -> [Modes -> Calls]]
             /\ seen' \in [Clients -> [Modes -> SUBSET Values]]
  <2>1. [state |-> state] \in Calls /\ {} \in SUBSET Values
    BY DEF Calls
  <2>. QED
    BY <1>2, <2>1, SetCall DEF End
<1>3. CASE Create(c)
  <2>. DEFINE message == [None EXCEPT !.type = "id", !.stamp = c]
  <2>1. message \in Messages
    BY DEF None, Messages
  <2>2. [state |-> "sent", message |-> message] \in Calls
    BY <2>1 DEF Calls
  <2>3. /\ op' = [op EXCEPT ![c]["sync"] = [state |-> "sent", message |-> message]]
        /\ request' = message /\ unread' = unread \ {c}
        /\ UNCHANGED <<store, ids, served, response, faults, answered, id, calls, seen>>
    BY <1>3 DEF Create, Publish, serverVars
  <2>. HIDE DEF message
  <2>4. op' \in [Clients -> [Modes -> Calls]]
    BY <2>2, <2>3, SetCall DEF Modes
  <2>. QED
    BY <2>1, <2>3, <2>4 DEF TypeOK, Calls
<1>4. CASE Receive(c)
  <2>1. id' \in [Clients -> Ids]
    BY <1>4, ResponseClient DEF Receive, TypeOK
  <2>2. unread' \subseteq Clients
    BY <1>4 DEF Receive, Accept, TypeOK
  <2>. QED
    BY <1>2, <1>4, <2>1, <2>2 DEF Receive, serverVars, TypeOK, Calls, Modes
<1>5. CASE Ignore(c)
  BY <1>5 DEF Ignore, serverVars, TypeOK
<1>6. CASE Repeat(c)
  <2>1. request' \in Messages
    BY <1>6, SentMessage DEF Repeat, Publish, Sent, Modes
  <2>. QED
    BY <1>6, <2>1 DEF Repeat, serverVars, TypeOK
<1>7. CASE GiveUp(c)
  BY <1>2, <1>7 DEF GiveUp, serverVars, TypeOK, Calls, Modes
<1>8. CASE UpdateAnswered(c)
  BY <1>2, <1>8 DEF UpdateAnswered, Accept, serverVars, TypeOK, Calls, Modes
<1>9. CASE UpdateUnanswered(c)
  <2>1. request' \in Messages \cup {None}
    BY <1>9, SentMessage DEF UpdateUnanswered, Resend, Publish, Sent, Modes, TypeOK
  <2>. QED
    BY <1>9, <2>1 DEF UpdateUnanswered, serverVars, TypeOK
<1>10. CASE Finish(c)
  BY <1>2, <1>10 DEF Finish, serverVars, TypeOK, Calls, Modes
<1>. QED
  BY <1>1, <1>3, <1>4, <1>5, <1>6, <1>7, <1>8, <1>9, <1>10
  DEF Client, CallSync, CallAsync, Modes

LEMMA StepTypeOK == TypeOK /\ [Next]_vars => TypeOK'
BY ServerTypeOK, ClientTypeOK DEF Next, vars, TypeOK

\* The types of the variables are right whatever the numbers of clients, items and calls
\* (TypeOK), which bounds the identifiers of the server by their type.
THEOREM TypeCorrect == Spec => []TypeOK
BY InitTypeOK, StepTypeOK, PTL DEF Spec
-----------------------------------------------------------------------------
LEMMA InitIInv == Init => Shape /\ Identity /\ Contents /\ Stamps /\ Recent /\ Stored
<1>. SUFFICES ASSUME Init PROVE Shape /\ Identity /\ Contents /\ Stamps /\ Recent /\ Stored
  OBVIOUS
<1>1. \A c \in Clients, m \in Modes : ~Pending(c, m)
  BY DEF Init, Pending, NoOp
<1>2. \A r \in {request, served, response} : r.type = "none"
  BY DEF Init, None, NoResponse, Response
<1>3. Shape
  BY <1>1 DEF Init, Shape, Calling, Modes, NoOp
<1>4. Identity
  BY <1>2 DEF Init, Identity, Granted, NotSet
<1>5. Contents /\ Stamps /\ Recent /\ Stored
  BY <1>1, <1>2 DEF Contents, Stamps, Recent, Stored, Calling
<1>. QED
  BY <1>3, <1>4, <1>5

\* The calls under way stay as they are in a step of the server.
LEMMA ServerKeeps == ASSUME Server PROVE UNCHANGED <<id, op, calls>>
BY DEF Server, GetId, Write, Read, Clear, Answer, Take, clientVars

LEMMA ServerShape == ASSUME Shape, Server PROVE Shape'
BY ServerKeeps DEF Shape, Pending, Calling, Message

\* A step of the server takes a request and has the answer to it, or publishes one.
LEMMA ServerServes ==
    ASSUME TypeOK, Server
    PROVE  \/ /\ served = NoResponse /\ request' = None /\ UNCHANGED <<response, answered>>
              /\ served'.type = request.type
              /\ request.type # "id" => /\ served'.key = request.key
                                        /\ served'.stamp = request.stamp
           \/ Answer
<1>1. CASE GetId
  BY <1>1 DEF GetId, Take, Serve, Response
<1>2. CASE Write
  BY <1>2 DEF Write, Take, Serve, Response
<1>3. CASE Read
  BY <1>3 DEF Read, Take, Serve, Response
<1>4. CASE Clear
  <2>1. PICK ok \in BOOLEAN : Serve(request.client, 0, ok)
    BY <1>4 DEF Clear
  <2>. QED
    BY <1>4, <2>1 DEF Clear, Take, Serve, Response
<1>. QED
  BY <1>1, <1>2, <1>3, <1>4 DEF Server

LEMMA ServerIdentity == ASSUME TypeOK, Identity, Server PROVE Identity'
<1>. USE ServerKeeps DEF Identity, Granted
<1>1. CASE GetId /\ ids < MaxId
  <2>1. /\ ids' = ids + 1 /\ response' = response
        /\ served'.client = ids /\ served'.data = request.stamp /\ served'.stamp = request.stamp
    BY <1>1 DEF GetId, Serve, Take, Response
  <2>2. ids \in Nat /\ \A c \in Clients : id[c] \in Nat /\ id[c] # ids
    BY DEF TypeOK, Ids
  <2>3. response.client \in Nat
    BY ResponseClient DEF Ids
  <2>. QED
    BY <2>1, <2>2, <2>3
<1>2. CASE GetId /\ ~(ids < MaxId)
  BY <1>2 DEF GetId, Serve, Take, Response
<1>3. CASE Write \/ Read \/ Clear
  <2>1. ids' = ids
    BY <1>3 DEF Write, Read, Clear, Store
  <2>2. request.type # "id"
    BY <1>3 DEF Write, Read, Clear, Take
  <2>3. CASE Answer
    BY <1>3, <2>3 DEF Write, Read, Clear, Take, Answer
  <2>. QED
    BY <2>1, <2>2, <2>3, ServerServes
<1>4. CASE Answer
  BY <1>4 DEF Answer, NoResponse, Response, None
<1>. QED
  BY <1>1, <1>2, <1>3, <1>4 DEF Server

LEMMA ServerRecent == ASSUME TypeOK, Recent, Server PROVE Recent'
<1>1. CASE Answer
  BY <1>1, ServerKeeps DEF Answer, Recent, NoResponse, Response, None
<1>2. CASE ~Answer
  BY <1>2, ServerServes, ServerKeeps DEF Recent, None
<1>. QED
  BY <1>1, <1>2

LEMMA ServerStamps == ASSUME TypeOK, Stamps, Server PROVE Stamps'
<1>. USE ServerKeeps DEF Stamps, Calling, Pending, Message
<1>1. CASE Answer
  BY <1>1 DEF Answer, NoResponse, Response, None
<1>2. CASE ~Answer
  BY <1>2, ServerServes DEF None
<1>. QED
  BY <1>1, <1>2

\* A call remembers the value that a step of the store gives to its item.
LEMMA Remembers ==
    ASSUME TypeOK, NEW values \in [Keys -> Values], Store(values),
           NEW c \in Clients, NEW m \in Modes
    PROVE  /\ seen[c][m] \subseteq seen'[c][m]
           /\ Calling(c, m, "read") => values[Message(c, m).key] \in seen'[c][m]
           /\ Calling(c, m, "write") /\ values[Message(c, m).key] = Message(c, m).stamp
              => Message(c, m).stamp \in seen'[c][m]
BY DEF Store, Calling, Pending, Message, Noticed

LEMMA CallingKey ==
    ASSUME TypeOK, NEW c \in Clients, NEW m \in Modes, NEW type \in Types, Calling(c, m, type)
    PROVE  Message(c, m).key \in Keys
BY SentMessage DEF Calling, Pending, Message, Messages, Types

LEMMA ServerContents == ASSUME TypeOK, Contents, Server PROVE Contents'
<1>. USE DEF Calling, Pending, Message
<1>1. ASSUME NEW values \in [Keys -> Values], Store(values), UNCHANGED answered,
             NEW c \in Clients, NEW m \in Modes, Calling(c, m, "read")'
      PROVE  {store[Message(c, m).key], answered[Message(c, m).key]}' \subseteq seen'[c][m]
  <2>1. Calling(c, m, "read") /\ Message(c, m)' = Message(c, m)
    BY <1>1, ServerKeeps
  <2>2. /\ seen[c][m] \subseteq seen'[c][m]
        /\ values[Message(c, m).key] \in seen'[c][m]
    BY <1>1, <2>1, Remembers
  <2>3. store' = values
    BY <1>1 DEF Store
  <2>. QED
    BY <1>1, <2>1, <2>2, <2>3 DEF Contents
<1>2. CASE GetId
  BY <1>2, ServerKeeps DEF GetId, Take, Serve, Response, Contents
<1>3. CASE Read
  BY <1>3, ServerKeeps DEF Read, Take, Serve, Response, Contents
<1>4. CASE Answer
  BY <1>4, ServerKeeps DEF Answer, NoResponse, Response, None, Contents
<1>5. CASE Write
  <2>1. PICK ok \in BOOLEAN, value \in {request.stamp, store[request.key], Torn} :
          Store([store EXCEPT ![request.key] = value]) /\ Serve(request.client, 0, ok)
    BY <1>5 DEF Write
  <2>2. request.type = "write" /\ UNCHANGED <<response, answered>>
    BY <1>5 DEF Write, Take
  <2>3. [store EXCEPT ![request.key] = value] \in [Keys -> Values]
    BY <2>2, RequestFields, DatamanAssumption DEF TypeOK, Values, Torn, Types
  <2>4. served'.type = "write"
    BY <2>1, <2>2 DEF Serve, Response
  <2>. QED
    BY <1>1, <2>1, <2>2, <2>3, <2>4 DEF Contents
<1>6. CASE Clear
  <2>. DEFINE values(done) == [k \in Keys |-> IF k[1] = request.key[1] /\ k[2] \in done THEN Empty
                                              ELSE store[k]]
  <2>1. PICK done \in SUBSET Indices, ok \in BOOLEAN :
          Store(values(done)) /\ Serve(request.client, 0, ok)
    BY <1>6 DEF Clear
  <2>2. request.type = "clear" /\ UNCHANGED <<response, answered>>
    BY <1>6 DEF Clear, Take
  <2>3. values(done) \in [Keys -> Values]
    BY DatamanAssumption DEF TypeOK, Values, Empty
  <2>4. served'.type = "clear"
    BY <2>1, <2>2 DEF Serve, Response
  <2>. HIDE DEF values
  <2>. QED
    BY <1>1, <2>1, <2>2, <2>3, <2>4 DEF Contents
<1>. QED
  BY <1>2, <1>3, <1>4, <1>5, <1>6 DEF Server

LEMMA ServerStored == ASSUME TypeOK, Stamps, Stored, Server PROVE Stored'
<1>. USE DEF Calling, Pending, Message
<1>1. ASSUME NEW values \in [Keys -> Values], Store(values), NEW c \in Clients, NEW m \in Modes
      PROVE  seen[c][m] \subseteq seen'[c][m]
  BY <1>1, Remembers
<1>2. CASE GetId \/ Read
  <2>1. served'.type # "write" /\ UNCHANGED <<response, seen>>
    BY <1>2 DEF GetId, Read, Take, Serve, Response
  <2>. QED
    BY <2>1, ServerKeeps DEF Stored
<1>3. CASE Answer
  BY <1>3, ServerKeeps DEF Answer, NoResponse, Response, None, Stored
<1>4. CASE Write
  <2>1. PICK ok \in BOOLEAN, value \in {request.stamp, store[request.key], Torn} :
          /\ ok => value = request.stamp
          /\ Store([store EXCEPT ![request.key] = value]) /\ Serve(request.client, 0, ok)
    BY <1>4 DEF Write
  <2>. DEFINE values == [store EXCEPT ![request.key] = value]
  <2>2. /\ request.type = "write" /\ response' = response
        /\ served'.stamp = request.stamp /\ served'.ok = ok
    BY <1>4, <2>1 DEF Write, Take, Serve, Response
  <2>3. /\ values \in [Keys -> Values]
        /\ values[request.key] = value
    BY <2>2, RequestFields, DatamanAssumption DEF TypeOK, Values, Torn, Types
  <2>4. Store(values)
    BY <2>1
  <2>. HIDE DEF values
  <2>5. ASSUME NEW c \in Clients, NEW m \in Modes, Calling(c, m, "write"),
               served'.ok, served'.stamp = Message(c, m).stamp
        PROVE  served'.stamp \in seen'[c][m]
    <3>1. Message(c, m).key = request.key
      BY <2>2, <2>5 DEF Stamps
    <3>2. values[Message(c, m).key] = Message(c, m).stamp
      BY <2>1, <2>2, <2>3, <2>5, <3>1
    <3>. QED
      BY <2>3, <2>4, <2>5, <3>2, Remembers
  <2>. QED
    BY <1>1, <2>2, <2>3, <2>4, <2>5, ServerKeeps DEF Stored
<1>5. CASE Clear
  <2>. DEFINE values(done) == [k \in Keys |-> IF k[1] = request.key[1] /\ k[2] \in done THEN Empty
                                              ELSE store[k]]
  <2>1. PICK done \in SUBSET Indices, ok \in BOOLEAN :
          Store(values(done)) /\ Serve(request.client, 0, ok)
    BY <1>5 DEF Clear
  <2>2. response' = response /\ served'.type = "clear"
    BY <1>5, <2>1 DEF Clear, Take, Serve, Response
  <2>3. values(done) \in [Keys -> Values]
    BY DatamanAssumption DEF TypeOK, Values, Empty
  <2>. HIDE DEF values
  <2>. QED
    BY <1>1, <2>1, <2>2, <2>3, ServerKeeps DEF Stored
<1>. QED
  BY <1>2, <1>3, <1>4, <1>5 DEF Server
-----------------------------------------------------------------------------
(* The steps of the clients: a call begins, a message is sent again, or a   *)
(* call ends.                                                               *)

\* A client sends a message of its own again, or looks at the topic.
Resends(c) ==
    /\ UNCHANGED <<store, ids, served, response, id, op, calls, answered, seen>>
    /\ \/ request' = request
       \/ \E m \in Modes : Pending(c, m) /\ request' = Message(c, m)

\* A call ends in some state.
Ends(c, m) ==
    /\ Pending(c, m)
       \/ (m = "async" /\ op[c]["async"] # NoOp /\ ~Blocked(c))
    /\ \E state \in {"idle", "answered"} : End(c, m, state)
    /\ UNCHANGED <<store, ids, served, request, response, calls, answered>>

LEMMA ClientSteps ==
    ASSUME TypeOK, Shape, NEW c \in Clients, Client(c)
    PROVE  \/ Create(c)
           \/ \E m \in Modes, type \in Types, k \in Keys : Begin(c, m, type, k)
           \/ Resends(c)
           \/ Receive(c)
           \/ \E m \in Modes : Ends(c, m) /\ UNCHANGED id
<1>1. ASSUME NEW type \in Types, NEW k \in Keys, CallSync(c, type, k) \/ CallAsync(c, type, k)
      PROVE  \E m \in Modes : Begin(c, m, type, k)
  BY <1>1 DEF CallSync, CallAsync, Modes
<1>2. CASE Ignore(c)
  BY <1>2 DEF Ignore, Resends, serverVars
<1>3. CASE Repeat(c)
  BY <1>3 DEF Repeat, Resends, Sent, Publish, Pending, Message, serverVars, Modes
<1>4. CASE UpdateUnanswered(c)
  BY <1>4 DEF UpdateUnanswered, Resends, Sent, Publish, Resend, Pending, Message, serverVars, Modes
<1>5. CASE GiveUp(c)
  BY <1>5 DEF GiveUp, Ends, Sent, Pending, serverVars, Modes
<1>6. CASE UpdateAnswered(c)
  BY <1>6 DEF UpdateAnswered, Accept, Ends, Sent, Pending, serverVars, Modes
<1>7. CASE Finish(c)
  BY <1>7 DEF Finish, Ends, serverVars, Modes
<1>. QED
  BY <1>1, <1>2, <1>3, <1>4, <1>5, <1>6, <1>7 DEF Client

LEMMA EndsCall ==
    ASSUME TypeOK, NEW c \in Clients, NEW m \in Modes, NEW state \in {"idle", "answered"},
           End(c, m, state)
    PROVE  /\ ~Pending(c, m)' /\ op'[c][m].state # "new"
           /\ \A d \in Clients, n \in Modes : Pending(d, n)' =>
                 /\ Pending(d, n) /\ Message(d, n)' = Message(d, n)
                 /\ seen'[d][n] = seen[d][n]
           /\ \A d \in Clients, n \in Modes : d # c \/ n # m => op'[d][n] = op[d][n]
<1>1. /\ op'[c][m] = [state |-> state]
      /\ \A d \in Clients, n \in Modes : d # c \/ n # m =>
            op'[d][n] = op[d][n] /\ seen'[d][n] = seen[d][n]
  <2>1. /\ op' = [op EXCEPT ![c][m] = [state |-> state]]
        /\ seen' = [seen EXCEPT ![c][m] = {}]
    BY DEF End
  <2>. QED
    BY <2>1 DEF TypeOK
<1>. QED
  BY <1>1 DEF Pending, Message

Claims == Shape /\ Identity /\ Contents /\ Stamps /\ Recent /\ Stored

LEMMA ResendsClaims == ASSUME TypeOK, Claims, NEW c \in Clients, Resends(c) PROVE Claims'
<1>. USE DEF Claims, Resends, Pending, Calling, Message
<1>1. Shape' /\ Identity' /\ Contents' /\ Stored'
  BY DEF Shape, Identity, Contents, Stored
<1>2. Stamps'
  BY DEF Stamps
<1>3. Recent'
  BY DEF Recent, Stamps
<1>. QED
  BY <1>1, <1>2, <1>3

\* A call ends, and its client may have its identifier now.
LEMMA EndsClaims ==
    ASSUME TypeOK, Claims, NEW c \in Clients, NEW m \in Modes, Ends(c, m)
    PROVE  /\ Contents' /\ Stamps' /\ Recent' /\ Stored'
           /\ UNCHANGED id => Shape' /\ Identity'
<1>1. PICK state \in {"idle", "answered"} : End(c, m, state)
  BY DEF Ends
<1>2. /\ op'[c][m].state # "new"
      /\ \A d \in Clients, n \in Modes : Pending(d, n)' =>
            /\ Pending(d, n) /\ Message(d, n)' = Message(d, n)
            /\ seen'[d][n] = seen[d][n]
      /\ \A d \in Clients, n \in Modes : d # c \/ n # m => op'[d][n] = op[d][n]
  BY <1>1, EndsCall
<1>3. UNCHANGED <<store, ids, served, request, response, calls, answered>>
  BY DEF Ends
<1>. USE DEF Claims, Calling, Pending, Message
<1>4. UNCHANGED id => Shape'
  BY <1>2 DEF Shape, Modes
<1>5. (UNCHANGED id => Identity') /\ Recent'
  BY <1>3 DEF Identity, Recent
<1>6. Contents' /\ Stored'
  BY <1>2, <1>3 DEF Contents, Stored
<1>7. Stamps'
  <2>1. SUFFICES ASSUME NEW d \in Clients, NEW n \in Modes, Calling(d, n, "write")'
                 PROVE  /\ Message(d, n)'.stamp <= calls'
                        /\ \A r \in {request, served, response}' :
                             r.type = "write" /\ r.stamp = Message(d, n)'.stamp
                             => r.key = Message(d, n)'.key
                        /\ \A e \in Clients, o \in Modes :
                             Calling(e, o, "write")' /\ Message(e, o)'.stamp = Message(d, n)'.stamp
                             => Message(e, o)'.key = Message(d, n)'.key
    BY DEF Stamps
  <2>2. Calling(d, n, "write") /\ Message(d, n)' = Message(d, n)
    BY <1>2, <2>1
  <2>3. ASSUME NEW e \in Clients, NEW o \in Modes, Calling(e, o, "write")',
               Message(e, o)'.stamp = Message(d, n)'.stamp
        PROVE  Message(e, o)'.key = Message(d, n)'.key
    <3>1. Calling(e, o, "write") /\ Message(e, o)' = Message(e, o)
      BY <1>2, <2>3
    <3>. QED
      BY <2>2, <2>3, <3>1 DEF Stamps
  <2>. QED
    BY <1>3, <2>2, <2>3 DEF Stamps
<1>. QED
  BY <1>4, <1>5, <1>6, <1>7

\* A constructor asks for an identifier.
LEMMA CreateClaims == ASSUME TypeOK, Claims, NEW c \in Clients, Create(c) PROVE Claims'
<1>. DEFINE message == [None EXCEPT !.type = "id", !.stamp = c]
<1>1. /\ op' = [op EXCEPT ![c]["sync"] = [state |-> "sent", message |-> message]]
      /\ request' = message /\ op[c]["sync"].state = "new"
      /\ UNCHANGED <<store, ids, served, response, answered, id, calls, seen>>
  BY DEF Create, Publish, serverVars
<1>2. message.type = "id" /\ message.stamp = c
  BY DEF None
<1>. HIDE DEF message
<1>3. /\ op'[c]["sync"] = [state |-> "sent", message |-> message]
      /\ \A d \in Clients, n \in Modes : d # c \/ n # "sync" => op'[d][n] = op[d][n]
  BY <1>1 DEF TypeOK, Modes
<1>. USE DEF Claims, Calling, Pending, Message
<1>4. Shape'
  BY <1>1, <1>2, <1>3 DEF Shape, Modes
<1>5. Identity' /\ Recent'
  BY <1>1, <1>2 DEF Identity, Recent
<1>6. \A d \in Clients, n \in Modes, type \in Types : Calling(d, n, type)' =>
        Calling(d, n, type) /\ Message(d, n)' = Message(d, n)
  BY <1>2, <1>3 DEF Types, Modes
<1>. HIDE DEF Calling, Pending, Message
<1>7. Contents' /\ Stored'
  BY <1>1, <1>6 DEF Contents, Stored, Types
<1>8. Stamps'
  BY <1>1, <1>2, <1>6 DEF Stamps, Types
<1>. QED
  BY <1>4, <1>5, <1>7, <1>8

\* A call of an operation begins.
LEMMA BeginClaims ==
    ASSUME TypeOK, Claims, NEW c \in Clients, NEW m \in Modes, NEW type \in Types, NEW k \in Keys,
           Begin(c, m, type, k)
    PROVE  Claims'
<1>. DEFINE message == [client |-> id[c], type |-> type, key |-> k,
                        stamp |-> IF type = "write" THEN calls + 1 ELSE 0]
<1>1. /\ op' = [op EXCEPT ![c][m] = [state |-> "sent", message |-> message]]
      /\ seen' = [seen EXCEPT ![c][m] = Noticed(message, {answered[k], store[k]})]
      /\ request' = message /\ calls' = calls + 1 /\ id[c] # NotSet /\ ~Blocked(c)
      /\ UNCHANGED <<store, ids, served, response, answered, id>>
  BY DEF Begin, Publish, serverVars
<1>2. /\ message.client = id[c] /\ message.type = type /\ message.key = k
      /\ type = "write" => message.stamp = calls + 1
  OBVIOUS
<1>. HIDE DEF message
<1>3. /\ op'[c][m] = [state |-> "sent", message |-> message]
      /\ seen'[c][m] = Noticed(message, {answered[k], store[k]})
      /\ \A d \in Clients, n \in Modes : d # c \/ n # m =>
            op'[d][n] = op[d][n] /\ seen'[d][n] = seen[d][n]
  BY <1>1 DEF TypeOK
<1>4. op[c]["sync"].state # "new" /\ ~Calling(c, "sync", "id")
  BY <1>1 DEF Claims, Shape
<1>5. calls \in Nat
  BY DEF TypeOK
<1>. USE DEF Claims
<1>6. Shape'
  BY <1>1, <1>2, <1>3, <1>4 DEF Shape, Modes, Types, Calling, Pending, Message
<1>7. Identity'
  BY <1>1 DEF Identity
<1>8. Recent'
  BY <1>1, <1>2, <1>5, StampType DEF Recent
<1>9. /\ Pending(c, m)' /\ Message(c, m)' = message
      /\ \A d \in Clients, n \in Modes : Pending(d, n)' /\ (d # c \/ n # m) =>
           /\ Pending(d, n) /\ Message(d, n)' = Message(d, n) /\ seen'[d][n] = seen[d][n]
  BY <1>3 DEF Pending, Message
<1>10. Contents'
  BY <1>1, <1>2, <1>3, <1>9 DEF Contents, Calling, Noticed
<1>11. Stamps'
  <2>. USE DEF Calling, Pending, Message
  <2>1. SUFFICES ASSUME NEW d \in Clients, NEW n \in Modes, Calling(d, n, "write")'
                 PROVE  /\ Message(d, n)'.stamp <= calls'
                        /\ \A r \in {request, served, response}' :
                             r.type = "write" /\ r.stamp = Message(d, n)'.stamp
                             => r.key = Message(d, n)'.key
                        /\ \A e \in Clients, o \in Modes :
                             Calling(e, o, "write")' /\ Message(e, o)'.stamp = Message(d, n)'.stamp
                             => Message(e, o)'.key = Message(d, n)'.key
    BY DEF Stamps
  <2>2. \A e \in Clients, o \in Modes : (e # c \/ o # m) /\ Calling(e, o, "write")' =>
          /\ Calling(e, o, "write") /\ Message(e, o)' = Message(e, o)
          /\ Message(e, o).stamp \in Nat /\ Message(e, o).stamp <= calls
    <3>1. ASSUME NEW e \in Clients, NEW o \in Modes, e # c \/ o # m, Calling(e, o, "write")'
          PROVE  /\ Calling(e, o, "write") /\ Message(e, o)' = Message(e, o)
                 /\ Message(e, o).stamp \in Nat /\ Message(e, o).stamp <= calls
      <4>1. Calling(e, o, "write") /\ Message(e, o)' = Message(e, o)
        BY <1>9, <3>1
      <4>2. Message(e, o).stamp \in Nat
        BY <4>1, SentMessage DEF Messages
      <4>. QED
        BY <4>1, <4>2 DEF Stamps
    <3>. QED
      BY <3>1
  <2>3. CASE d = c /\ n = m
    BY <1>1, <1>2, <1>5, <1>9, <2>1, <2>2, <2>3, StampType DEF Recent
  <2>4. CASE d # c \/ n # m
    BY <1>1, <1>2, <1>5, <1>9, <2>1, <2>2, <2>4, StampType DEF Recent, Stamps
  <2>. QED
    BY <2>3, <2>4
<1>12. Stored'
  BY <1>1, <1>2, <1>5, <1>9 DEF Stored, Recent, Calling, Pending, Message
<1>. QED
  BY <1>6, <1>7, <1>8, <1>10, <1>11, <1>12

\* A response of the type "id" that is taken for the answer to a constructor's request has
\* its identifier, or none.
LEMMA ReceiveIdentity ==
    ASSUME TypeOK, Shape, Identity, NEW c \in Clients, Receive(c)
    PROVE  Identity'
<1>. USE DEF Granted
<1>1. UNCHANGED <<ids, served, response>>
  BY DEF Receive, serverVars
<1>2. CASE ~Calling(c, "sync", "id")
  BY <1>1, <1>2 DEF Identity, Receive, Accept, Sent, Calling, Pending, Message
<1>3. CASE Calling(c, "sync", "id") /\ response.client = NotSet
  <2>1. id'[c] = NotSet /\ \A d \in Clients : d # c => id'[d] = id[d]
    BY <1>3 DEF Receive, TypeOK, Calling, Message
  <2>2. NotSet < ids
    BY DEF TypeOK, NotSet
  <2>. QED
    BY <1>1, <2>1, <2>2 DEF Identity
<1>4. CASE Calling(c, "sync", "id") /\ response.client # NotSet
  <2>1. Message(c, "sync") \in Messages /\ Message(c, "sync").type = "id"
    BY <1>4, SentMessage DEF Calling, Pending, Message, Modes
  <2>2. Message(c, "sync").client = NotSet /\ Message(c, "sync").stamp = c
    BY <1>4, <2>1 DEF Messages, Types, Shape
  <2>3. response.data = c
    BY <1>4, <2>2 DEF Receive, Accept, Matches, Message
  <2>4. Granted(response)
    <3>1. response \in Responses
      BY <1>4 DEF TypeOK, NoResponse, Response
    <3>2. c \notin Values
      BY DatamanAssumption DEF Values
    <3>. QED
      BY <1>4, <2>3, <3>1, <3>2 DEF Responses
  <2>5. response.stamp = c /\ response.client < ids
    BY <2>3, <2>4 DEF Identity
  <2>6. id' = [id EXCEPT ![c] = response.client]
    BY <2>1 DEF Receive, Message
  <2>7. id'[c] = response.client /\ \A d \in Clients : d # c => id'[d] = id[d]
    BY <2>6 DEF TypeOK
  <2>8. \A d \in Clients : id[d] = response.client => d = c
    BY <2>4, <2>5 DEF Identity
  <2>9. \A r \in {served, response} : Granted(r) /\ r.client = response.client => r.stamp = c
    BY <2>4, <2>5 DEF Identity
  <2>. QED
    BY <1>1, <2>5, <2>7, <2>8, <2>9 DEF Identity
<1>. QED
  BY <1>2, <1>3, <1>4

LEMMA ReceiveClaims == ASSUME TypeOK, Claims, NEW c \in Clients, Receive(c) PROVE Claims'
<1>1. /\ Sent(c, "sync") /\ End(c, "sync", "idle")
      /\ UNCHANGED <<store, ids, served, request, response, calls, answered>>
      /\ id' = IF op[c]["sync"].message.type = "id" THEN [id EXCEPT ![c] = response.client] ELSE id
  BY DEF Receive, Accept, serverVars
<1>2. Ends(c, "sync")
  BY <1>1 DEF Ends, Sent, Pending
<1>3. Shape'
  <2>1. CASE op[c]["sync"].message.type = "id"
    <3>1. /\ op'[c]["sync"].state = "idle" /\ op'[c]["async"] = op[c]["async"]
          /\ \A d \in Clients \ {c} : op'[d] = op[d] /\ id'[d] = id[d]
      BY <1>1, <2>1 DEF End, TypeOK, Modes
    <3>2. ~Pending(c, "async")
      BY <1>1, <2>1 DEF Claims, Shape, Calling, Pending, Message, Sent
    <3>. QED
      BY <3>1, <3>2 DEF Claims, Shape, Calling, Pending, Message, Modes
  <2>2. CASE op[c]["sync"].message.type # "id"
    BY <1>1, <1>2, <2>2, EndsClaims DEF Modes
  <2>. QED
    BY <2>1, <2>2
<1>. QED
  BY <1>2, <1>3, EndsClaims, ReceiveIdentity DEF Claims, Modes

LEMMA StepIInv == IInv /\ [Next]_vars => IInv'
<1>. SUFFICES ASSUME TypeOK, Claims, [Next]_vars PROVE Claims'
  BY StepTypeOK DEF IInv, Claims
<1>1. CASE Server
  BY <1>1, ServerShape, ServerIdentity, ServerContents, ServerStamps, ServerRecent, ServerStored
  DEF Claims
<1>2. ASSUME NEW c \in Clients, Client(c) PROVE Claims'
  <2>1. CASE \E m \in Modes : Ends(c, m) /\ UNCHANGED id
    BY <2>1, EndsClaims DEF Claims
  <2>. QED
    BY <1>2, <2>1, ClientSteps, CreateClaims, BeginClaims, ResendsClaims, ReceiveClaims DEF Claims
<1>3. CASE UNCHANGED vars
  BY <1>3 DEF vars, Claims, Shape, Identity, Contents, Stamps, Recent, Stored, Calling, Pending,
              Message
<1>. QED
  BY <1>1, <1>2, <1>3 DEF Next

\* The inductive invariant holds of every client, item and call.
THEOREM Invariance == Spec => []IInv
<1>1. Init => IInv
  BY InitTypeOK, InitIInv DEF IInv
<1>. QED
  BY <1>1, StepIInv, PTL DEF Spec

\* No two clients ever have the same identifier, although the server may answer a repeated
\* request with another one and the answers may reach the clients in any order (UniqueIds).
THEOREM IdsUnique == Spec => []UniqueIds
<1>1. IInv => UniqueIds
  BY DEF IInv, Identity, UniqueIds
<1>. QED
  BY <1>1, Invariance, PTL

\* A successful read returns a value that the item had during the call, or before it if
\* nobody has been told yet of what overwrote it (ReadFresh).
THEOREM ReadsFresh == Spec => ReadFresh
<1>1. ASSUME IInv, NEW c \in Clients, NEW m \in Modes, Succeeds(c, m, "read")
      PROVE  response.data \in seen[c][m]
  <2>1. Calling(c, m, "read") /\ Matches(Message(c, m), response) /\ response.ok
    BY <1>1 DEF Succeeds, Accept, Sent, Calling, Pending, Message
  <2>2. response.type = "read" /\ response.key = Message(c, m).key
    BY <2>1 DEF Matches, Calling, Message
  <2>. QED
    BY <1>1, <2>1, <2>2 DEF IInv, Contents
<1>2. IInv /\ [Next]_vars =>
        [\A c \in Clients, m \in Modes : Succeeds(c, m, "read") => response.data \in seen[c][m]]_vars
  BY <1>1
<1>. QED
  BY <1>2, Invariance, PTL DEF Spec, ReadFresh

\* A write that is reported as successful has been done, or the response was one to another
\* write of the same item by the same client (WriteDone).
THEOREM WritesDone == Spec => WriteDone
<1>. DEFINE Other(c, m) == /\ response.type = "write"
                           /\ response.stamp # op[c][m].message.stamp
                           /\ response.client = id[c]
                           /\ response.key = op[c][m].message.key
<1>1. ASSUME IInv, NEW c \in Clients, NEW m \in Modes, Succeeds(c, m, "write")
      PROVE  Done(c, m) \/ Other(c, m)
  <2>1. Calling(c, m, "write") /\ Matches(Message(c, m), response) /\ response.ok
    BY <1>1 DEF Succeeds, Accept, Sent, Calling, Pending, Message
  <2>2. /\ response.type = "write" /\ response.key = Message(c, m).key
        /\ response.client = Message(c, m).client
    BY <2>1 DEF Matches, Calling, Message
  <2>3. Message(c, m).client = id[c]
    BY <1>1, <2>1 DEF IInv, Shape, Calling
  <2>4. CASE response.stamp = Message(c, m).stamp
    BY <1>1, <2>1, <2>2, <2>4 DEF IInv, Stored, Done, Message
  <2>. QED
    BY <2>2, <2>3, <2>4 DEF Message
<1>2. IInv /\ [Next]_vars =>
        [\A c \in Clients, m \in Modes :
           Succeeds(c, m, "write") =>
             \/ Done(c, m)
             \/ /\ response.type = "write"
                /\ response.stamp # op[c][m].message.stamp
                /\ response.client = id[c]
                /\ response.key = op[c][m].message.key]_vars
  BY <1>1
<1>. QED
  BY <1>2, Invariance, PTL DEF Spec, WriteDone
=============================================================================
