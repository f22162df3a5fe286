------------------------- MODULE NetworkDriverProofs -------------------------
(***************************************************************************)
(* The safety of NetworkDriver for every set of requests, calls and        *)
(* replies and every capacity of the event queue.                          *)
(***************************************************************************)
EXTENDS NetworkDriver, FiniteSetTheorems, TLAPS

Elements(s) == {s[i] : i \in 1..Len(s)}

\* InboundRequest events, each a token with the request it stands for.
InboundEvents == [request_id : Nat \ {0}, request : Requests]

\* The tokens that the application has, or can still take from the queue.
Issued == taken \cup (Elements(events) \ {Notice})

TypeOK ==
  /\ running \in BOOLEAN
  /\ subscribed \in BOOLEAN
  /\ next_inbound_id \in Nat \ {0}
  /\ inbound \in [DOMAIN inbound -> Requests]
  /\ DOMAIN inbound \subseteq Nat
  /\ inbound_protocol_ids \in [DOMAIN inbound_protocol_ids -> Nat \ {0}]
  /\ DOMAIN inbound_protocol_ids \subseteq Requests
  /\ inbound_confirmations \in [DOMAIN inbound_confirmations -> Calls]
  /\ DOMAIN inbound_confirmations \subseteq Requests
  /\ events \in Seq(InboundEvents \cup {Notice})
  /\ taken \subseteq InboundEvents
  /\ calls \in [Calls -> [request_id : Nat,
                          reply : Replies \cup {Unavailable},
                          status : {"none", "queued", "sending", "ok", "err"}]]
  /\ commands \in Seq(Calls)
  /\ stream \in [Requests -> {"idle", "open", "answering", "flushed",
                              "broken", "done"}]
  /\ answers \in [Requests -> SUBSET (Replies \cup {Unavailable})]
  /\ delivered \subseteq Requests

\* A token names one request for good, and the two tables agree on it.
TokensAgree ==
  /\ \A e \in Issued : /\ e.request_id < next_inbound_id
                       /\ stream[e.request] # "idle"
  /\ \A e, f \in Issued :
       e.request_id = f.request_id \/ e.request = f.request => e = f
  /\ \A q \in DOMAIN inbound_protocol_ids :
       /\ inbound_protocol_ids[q] < next_inbound_id
       /\ \A e \in Issued :
            inbound_protocol_ids[q] = e.request_id <=> q = e.request
  /\ \A p, q \in DOMAIN inbound_protocol_ids :
       inbound_protocol_ids[p] = inbound_protocol_ids[q] => p = q
  /\ \A id \in DOMAIN inbound :
       /\ inbound[id] \in DOMAIN inbound_protocol_ids
       /\ inbound_protocol_ids[inbound[id]] = id

\* libp2p takes one response for a request, and only once it was received.
OneAnswer ==
  \A q \in Requests :
    /\ stream[q] \in {"idle", "open"} => answers[q] = {}
    /\ stream[q] = "flushed" => q \in delivered

\* A call in the queue was not started, and is there once.
QueuedOnce ==
  /\ \A i \in 1..Len(commands) : calls[commands[i]].status = "queued"
  /\ \A i, j \in 1..Len(commands) : commands[i] = commands[j] => i = j

\* A confirmation waits at the request of its call's token.
ConfirmationsAgree ==
  \A q \in DOMAIN inbound_confirmations :
    /\ calls[inbound_confirmations[q]].status = "sending"
    /\ stream[q] \notin {"idle", "open", "done"}
    /\ \E e \in taken :
         /\ e.request_id = calls[inbound_confirmations[q]].request_id
         /\ e.request = q

\* A call that was started has the only answer of its request.
CallsAgree ==
  /\ \A c \in Calls : calls[c].status # "none" =>
       \E e \in taken : e.request_id = calls[c].request_id
  /\ \A c \in Calls, e \in taken :
       /\ calls[c].status \in {"sending", "ok"}
       /\ e.request_id = calls[c].request_id
       => /\ answers[e.request] = {calls[c].reply}
          /\ stream[e.request] \notin {"idle", "open"}
          /\ calls[c].status = "ok" => e.request \in delivered
  /\ \A c, d \in Calls :
       /\ calls[c].status \in {"sending", "ok"}
       /\ calls[d].status \in {"sending", "ok"}
       /\ calls[c].request_id = calls[d].request_id
       => c = d

\* Every call that waits is in the queue of a running loop, or has its
\* confirmation at a stream whose final event is still to come.
NoCallForgotten ==
  \A c \in Calls :
    /\ calls[c].status = "queued" => running /\ c \in Elements(commands)
    /\ calls[c].status = "sending" =>
         /\ running
         /\ \E q \in DOMAIN inbound_confirmations :
              /\ inbound_confirmations[q] = c
              /\ stream[q] \in {"answering", "flushed", "broken"}

IInv ==
  /\ TypeOK
  /\ NoTableLeak
  /\ TokensAgree
  /\ OneAnswer
  /\ QueuedOnce
  /\ ConfirmationsAgree
  /\ CallsAgree
  /\ NoCallForgotten

\* The tokens given out are counted by the requests that arrived.
TokensCount ==
  next_inbound_id = 1 + Cardinality({q \in Requests : stream[q] # "idle"})
-----------------------------------------------------------------------------
\* What Append and Tail do to the elements of a queue.
LEMMA AppendElements ==
  ASSUME NEW S, NEW s \in Seq(S), NEW x \in S
  PROVE  /\ Append(s, x) \in Seq(S)
         /\ Elements(Append(s, x)) = Elements(s) \cup {x}
<1>1. /\ Len(Append(s, x)) = Len(s) + 1
      /\ Append(s, x)[Len(s) + 1] = x
      /\ \A i \in 1..Len(s) : Append(s, x)[i] = s[i]
      /\ Len(s) \in Nat
  OBVIOUS
<1> QED
  BY <1>1 DEF Elements

\* Taking the head of a queue, as next_event does, leaves the rest of it.
LEMMA TailElements ==
  ASSUME NEW S, NEW s \in Seq(S), s # <<>>
  PROVE  /\ Head(s) \in S
         /\ Head(s) \in Elements(s)
         /\ Tail(s) \in Seq(S)
         /\ Elements(s) = Elements(Tail(s)) \cup {Head(s)}
<1>1. /\ Len(s) \in Nat \ {0}
      /\ Head(s) = s[1]
      /\ Len(Tail(s)) = Len(s) - 1
      /\ \A i \in 1..Len(s) - 1 : Tail(s)[i] = s[i + 1]
      /\ Tail(s) \in Seq(S)
      /\ s[1] \in S
  OBVIOUS
<1>2. ASSUME NEW i \in 1..Len(s), i # 1
      PROVE  s[i] \in Elements(Tail(s))
  <2>1. i - 1 \in 1..Len(s) - 1 /\ Tail(s)[i - 1] = s[i]
    BY <1>1, <1>2
  <2> QED
    BY <1>1, <2>1 DEF Elements
<1> QED
  BY <1>1, <1>2 DEF Elements

\* An issued token is a number and stands for a request.
LEMMA IssuedType == TypeOK => Issued \subseteq InboundEvents
<1> SUFFICES ASSUME TypeOK, NEW e \in Elements(events), e # Notice
             PROVE  e \in InboundEvents
  BY DEF TypeOK, Issued
<1> QED
  BY DEF TypeOK, Elements

\* The driver starts with empty tables.
LEMMA InitIInv == DriverInit => IInv
<1> SUFFICES ASSUME DriverInit PROVE IInv
  OBVIOUS
<1>1. Elements(events) = {} /\ Elements(commands) = {}
  BY DEF DriverInit, Elements
<1>2. DOMAIN Empty = {}
  BY DEF Empty
<1>3. TypeOK
  BY <1>2 DEF DriverInit, TypeOK, NoCall, Empty
<1> QED
  BY <1>1, <1>2, <1>3
  DEF DriverInit, IInv, NoTableLeak, TokensAgree, OneAnswer, QueuedOnce,
      ConfirmationsAgree, CallsAgree, NoCallForgotten, Issued, NoCall

\* A request arrives: it gets a token that no other request has or had.
LEMMA ArriveIInv ==
  ASSUME IInv, NEW q \in Requests, handle_inbound_request(q)
  PROVE  IInv'
<1> USE DEF IInv
<1>1. CASE try_send_ok
  <2> DEFINE e == [request_id |-> next_inbound_id, request |-> q]
  <2>1. /\ running /\ stream[q] = "idle"
        /\ next_inbound_id' = next_inbound_id + 1
        /\ inbound' = Insert(inbound, next_inbound_id, q)
        /\ inbound_protocol_ids' =
             Insert(inbound_protocol_ids, q, next_inbound_id)
        /\ events' = Append(events, e)
        /\ stream' = [stream EXCEPT ![q] = "open"]
        /\ UNCHANGED <<answers, running, subscribed, inbound_confirmations,
                       taken, notices, calls, commands, delivered>>
    BY <1>1 DEF handle_inbound_request
  <2>2. e \in InboundEvents /\ e # Notice /\ e.request_id = next_inbound_id
        /\ e.request = q
    BY DEF TypeOK, InboundEvents, Notice
  <2> HIDE DEF e
  <2>3. events' \in Seq(InboundEvents \cup {Notice})
        /\ Issued' = Issued \cup {e}
    <3>1. /\ Append(events, e) \in Seq(InboundEvents \cup {Notice})
          /\ Elements(Append(events, e)) = Elements(events) \cup {e}
      BY <2>2, AppendElements DEF TypeOK
    <3> QED
      BY <2>1, <2>2, <3>1 DEF Issued
  <2>4. /\ DOMAIN inbound' = DOMAIN inbound \cup {next_inbound_id}
        /\ inbound'[next_inbound_id] = q
        /\ \A id \in DOMAIN inbound : id # next_inbound_id =>
             inbound'[id] = inbound[id]
        /\ DOMAIN inbound_protocol_ids' = DOMAIN inbound_protocol_ids \cup {q}
        /\ inbound_protocol_ids'[q] = next_inbound_id
        /\ \A p \in DOMAIN inbound_protocol_ids : p # q =>
             inbound_protocol_ids'[p] = inbound_protocol_ids[p]
        /\ q \notin DOMAIN inbound_protocol_ids
        /\ q \notin DOMAIN inbound_confirmations
    BY <2>1 DEF Insert, NoTableLeak
  <2>5. TypeOK'
    BY <2>1, <2>3 DEF TypeOK, Insert
  <2>6. NoTableLeak'
    BY <2>1, <2>4 DEF NoTableLeak, TypeOK
  <2>7. TokensAgree'
    BY <2>1, <2>2, <2>3, <2>4, IssuedType
    DEF TokensAgree, TypeOK, InboundEvents
  <2>8. OneAnswer' /\ QueuedOnce' /\ NoCallForgotten'
    BY <2>1
    DEF OneAnswer, QueuedOnce, NoCallForgotten, TypeOK, ConfirmationsAgree,
        NoTableLeak
  <2>9. ConfirmationsAgree'
    BY <2>1, <2>4 DEF ConfirmationsAgree, TypeOK
  <2>10. CallsAgree'
    BY <2>1 DEF CallsAgree, TypeOK, TokensAgree, Issued, InboundEvents
  <2> QED
    BY <2>5, <2>6, <2>7, <2>8, <2>9, <2>10
<1>2. CASE ~try_send_ok
  <2>1. /\ running /\ stream[q] = "idle"
        /\ next_inbound_id' = next_inbound_id + 1
        /\ stream' = [stream EXCEPT ![q] = "answering"]
        /\ answers' = [answers EXCEPT ![q] = @ \cup {Unavailable}]
        /\ UNCHANGED <<inbound, inbound_protocol_ids, events, running,
                       subscribed, inbound_confirmations, taken, notices,
                       calls, commands, delivered>>
    BY <1>2 DEF handle_inbound_request, send_response
  <2>2. TypeOK'
    BY <2>1 DEF TypeOK
  <2>3. /\ NoTableLeak' /\ OneAnswer' /\ QueuedOnce'
        /\ NoCallForgotten' /\ ConfirmationsAgree'
    BY <2>1
    DEF TypeOK, NoTableLeak, OneAnswer, QueuedOnce, NoCallForgotten,
        ConfirmationsAgree
  <2>4. TokensAgree'
    <3>1. Issued' = Issued /\ Issued \subseteq InboundEvents
      BY <2>1, IssuedType DEF Issued
    <3> QED
      BY <2>1, <3>1 DEF TypeOK, TokensAgree, InboundEvents
  <2>5. CallsAgree'
    BY <2>1 DEF CallsAgree, TypeOK, TokensAgree, Issued, InboundEvents
  <2> QED
    BY <2>2, <2>3, <2>4, <2>5
<1> QED
  BY <1>1, <1>2

\* An event that carries no request changes no table.
LEMMA NoticeIInv ==
  ASSUME IInv, handle_notice
  PROVE  IInv'
<1> USE DEF IInv
<1>1. UNCHANGED <<running, subscribed, tables, taken, calls, commands, stream,
                  answers, delivered>>
  BY DEF handle_notice
<1>2. events' \in Seq(InboundEvents \cup {Notice}) /\ Issued' = Issued
  <2>1. /\ Append(events, Notice) \in Seq(InboundEvents \cup {Notice})
        /\ Elements(Append(events, Notice)) = Elements(events) \cup {Notice}
    <3>1. events \in Seq(InboundEvents \cup {Notice})
          /\ Notice \in InboundEvents \cup {Notice}
      BY DEF TypeOK
    <3> QED
      BY ONLY <3>1, AppendElements
  <2> QED
    BY <1>1, <2>1 DEF handle_notice, Issued, TypeOK
<1>3. TypeOK'
  BY <1>1, <1>2 DEF TypeOK, tables
<1> QED
  BY <1>1, <1>2, <1>3
  DEF tables, NoTableLeak, TokensAgree, OneAnswer, QueuedOnce,
      ConfirmationsAgree, CallsAgree, NoCallForgotten

\* The application answers a token it took from the queue.
LEMMA RespondIInv ==
  ASSUME IInv, NEW c \in Calls, NEW e \in taken,
         NEW reply \in Replies, respond(c, e.request_id, reply)
  PROVE  IInv'
<1> USE DEF IInv
<1> DEFINE call == [request_id |-> e.request_id, reply |-> reply,
                    status |-> IF running THEN "queued" ELSE "err"]
<1>1. /\ calls[c].status = "none"
      /\ calls' = [calls EXCEPT ![c] = call]
      /\ UNCHANGED <<running, subscribed, tables, events, taken, notices,
                     stream, answers, delivered>>
  BY DEF respond
<1>2. /\ call.request_id = e.request_id
      /\ call.status = IF running THEN "queued" ELSE "err"
      /\ call \in [request_id : Nat, reply : Replies \cup {Unavailable},
                   status : {"none", "queued", "sending", "ok", "err"}]
  BY DEF TypeOK, InboundEvents
<1> HIDE DEF call
<1>3. /\ commands' \in Seq(Calls)
      /\ Elements(commands') = IF running THEN Elements(commands) \cup {c}
                               ELSE Elements(commands)
  <2>1. /\ Append(commands, c) \in Seq(Calls)
        /\ Elements(Append(commands, c)) = Elements(commands) \cup {c}
    BY AppendElements DEF TypeOK
  <2> QED
    BY <2>1 DEF respond, TypeOK
<1>4. calls'[c] = call /\ \A d \in Calls : d # c => calls'[d] = calls[d]
  BY <1>1 DEF TypeOK
<1>5. TypeOK'
  BY <1>1, <1>2, <1>3 DEF TypeOK, tables
<1>6. NoTableLeak' /\ TokensAgree' /\ OneAnswer'
  BY <1>1 DEF NoTableLeak, TokensAgree, OneAnswer, Issued, tables
<1>7. QueuedOnce'
  <2>1. CASE running
    <3>1. /\ Len(commands') = Len(commands) + 1
          /\ commands'[Len(commands) + 1] = c
          /\ \A i \in 1..Len(commands) :
               commands'[i] = commands[i] /\ commands[i] \in Calls
          /\ Len(commands) \in Nat
      BY <2>1 DEF respond, TypeOK
    <3>2. \A i \in 1..Len(commands) : commands[i] # c
      BY <1>1 DEF QueuedOnce
    <3> QED
      BY <1>2, <1>4, <2>1, <3>1, <3>2 DEF QueuedOnce
  <2>2. CASE ~running
    <3>1. commands' = commands /\ \A i \in 1..Len(commands) : commands[i] \in Calls
      BY <2>2 DEF respond, TypeOK
    <3> QED
      BY <1>1, <1>4, <3>1 DEF QueuedOnce
  <2> QED
    BY <2>1, <2>2
<1>8. ConfirmationsAgree'
  BY <1>1, <1>4 DEF ConfirmationsAgree, TypeOK, tables
<1>9. CallsAgree'
  BY <1>1, <1>2, <1>4 DEF CallsAgree
<1>10. NoCallForgotten'
  BY <1>1, <1>2, <1>3, <1>4 DEF NoCallForgotten, tables, TypeOK
<1> QED
  BY <1>5, <1>6, <1>7, <1>8, <1>9, <1>10

\* The driver takes a queued answer: it reaches the request of its token while
\* that request is open, and fails otherwise.
LEMMA HandleRespondIInv ==
  ASSUME IInv, handle_respond
  PROVE  IInv'
<1> USE DEF IInv
<1> DEFINE c == Head(commands)
           id == calls[c].request_id
<1>1. /\ running /\ commands # <<>> /\ commands' = Tail(commands)
      /\ inbound' = Remove(inbound, id)
      /\ UNCHANGED <<running, subscribed, next_inbound_id, events, taken,
                     notices, delivered>>
  BY DEF handle_respond
<1>2. /\ c \in Calls /\ id \in Nat
      /\ commands' \in Seq(Calls)
      /\ Elements(commands) = Elements(commands') \cup {c}
  BY <1>1, TailElements DEF TypeOK
<1>3. /\ calls[c].status = "queued"
      /\ \A i \in 1..Len(commands') :
           /\ commands'[i] \in Calls /\ commands'[i] # c
           /\ calls[commands'[i]].status = "queued"
      /\ \A i, j \in 1..Len(commands') : commands'[i] = commands'[j] => i = j
  <2>1. /\ Len(commands) \in Nat \ {0} /\ c = commands[1]
        /\ Len(commands') = Len(commands) - 1
        /\ \A i \in 1..Len(commands') : commands'[i] = commands[i + 1]
        /\ \A i \in 1..Len(commands) : commands[i] \in Calls
    BY <1>1 DEF TypeOK
  <2>2. 1 \in 1..Len(commands)
        /\ \A i \in 1..Len(commands') : i + 1 \in 1..Len(commands) /\ i + 1 # 1
    BY <2>1
  <2>3. \A i, j \in 1..Len(commands') : i + 1 = j + 1 => i = j
    BY <2>1
  <2> HIDE DEF c
  <2> QED
    BY <2>1, <2>2, <2>3 DEF QueuedOnce
<1>4. PICK e \in taken : e.request_id = id
  BY <1>2, <1>3 DEF CallsAgree
<1>5. e \in InboundEvents /\ e \in Issued /\ Issued' = Issued
      /\ Issued \subseteq InboundEvents
  BY <1>1, <1>4, IssuedType DEF Issued
<1>6. /\ DOMAIN inbound' = DOMAIN inbound \ {id}
      /\ \A i \in DOMAIN inbound \ {id} : inbound'[i] = inbound[i]
  BY <1>1 DEF Remove
<1> HIDE DEF c, id
<1>7. CASE Answerable(id)
  <2> DEFINE q == inbound[id]
  <2>1. /\ ProtocolIds(id) = {q}
        /\ q \in Requests /\ q \in DOMAIN inbound_protocol_ids
        /\ q = e.request /\ stream[q] = "open" /\ id \in DOMAIN inbound
        /\ inbound_protocol_ids[q] = id
    BY <1>4, <1>5, <1>7
    DEF Answerable, ProtocolIds, TokensAgree, TypeOK, InboundEvents
  <2> HIDE DEF q
  <2>2. /\ stream' = [stream EXCEPT ![q] = "answering"]
        /\ answers' = [answers EXCEPT ![q] = @ \cup {calls[c].reply}]
        /\ inbound_confirmations' = Insert(inbound_confirmations, q, c)
        /\ calls' = [calls EXCEPT ![c].status = "sending"]
        /\ inbound_protocol_ids' = inbound_protocol_ids
    BY <1>7, <2>1 DEF handle_respond, send_response, c, id, q
  <2>3. /\ calls'[c].status = "sending" /\ calls'[c].request_id = id
        /\ calls'[c].reply = calls[c].reply
        /\ \A d \in Calls : d # c => calls'[d] = calls[d]
        /\ calls' \in [Calls ->
             [request_id : Nat, reply : Replies \cup {Unavailable},
              status : {"none", "queued", "sending", "ok", "err"}]]
    BY <1>2, <2>2 DEF TypeOK, id
  <2>4. /\ answers'[q] = {calls[c].reply} /\ stream'[q] = "answering"
        /\ \A p \in Requests : p # q => /\ stream'[p] = stream[p]
                                        /\ answers'[p] = answers[p]
    BY <2>1, <2>2 DEF TypeOK, OneAnswer
  <2>5. /\ DOMAIN inbound_confirmations' = DOMAIN inbound_confirmations \cup {q}
        /\ inbound_confirmations'[q] = c
        /\ q \notin DOMAIN inbound_confirmations
        /\ \A p \in DOMAIN inbound_confirmations :
             /\ p # q /\ inbound_confirmations'[p] = inbound_confirmations[p]
             /\ inbound_confirmations[p] # c
             /\ inbound_confirmations[p] \in Calls
             /\ p \in Requests
    BY <1>3, <2>1, <2>2 DEF Insert, ConfirmationsAgree, TypeOK
  <2>6. TypeOK'
    <3>1. /\ inbound' \in [DOMAIN inbound' -> Requests]
          /\ inbound_confirmations' \in [DOMAIN inbound_confirmations' -> Calls]
      BY <1>1, <1>2, <2>1, <2>2 DEF TypeOK, Remove, Insert
    <3> QED
      BY <1>1, <1>2, <1>6, <2>1, <2>2, <2>3, <2>5, <3>1 DEF TypeOK
  <2>7. NoTableLeak'
    BY <1>1, <1>6, <2>1, <2>2, <2>4, <2>5 DEF NoTableLeak, TypeOK
  <2>8. TokensAgree'
    BY <1>1, <1>5, <1>6, <2>1, <2>2, <2>4 DEF TokensAgree, TypeOK, InboundEvents
  <2>9. OneAnswer' /\ QueuedOnce'
    BY <1>1, <1>3, <2>3, <2>4 DEF OneAnswer, QueuedOnce
  <2>10. ConfirmationsAgree'
    BY <1>1, <1>4, <2>1, <2>3, <2>4, <2>5 DEF ConfirmationsAgree
  <2>11. CallsAgree'
    <3>1. ASSUME NEW d \in Calls, d # c, calls[d].status \in {"sending", "ok"}
          PROVE  calls[d].request_id # id
      BY <1>4, <2>1, <3>1 DEF CallsAgree
    <3>2. ASSUME NEW f \in taken, f.request_id = id
          PROVE  f.request = q
      BY <1>4, <1>5, <2>1, <3>2 DEF TokensAgree, Issued
    <3>3. ASSUME NEW d \in Calls, NEW f \in taken,
                 calls[d].status \in {"sending", "ok"},
                 f.request_id = calls[d].request_id
          PROVE  f.request # q /\ f.request \in Requests
      BY <2>1, <3>3 DEF CallsAgree, TypeOK, InboundEvents
    <3>4. \A d \in Calls : calls'[d].status # "none" =>
            \E f \in taken' : f.request_id = calls'[d].request_id
      BY <1>1, <1>4, <2>3 DEF CallsAgree
    <3>5. \A d \in Calls, f \in taken' :
            /\ calls'[d].status \in {"sending", "ok"}
            /\ f.request_id = calls'[d].request_id
            => /\ answers'[f.request] = {calls'[d].reply}
               /\ stream'[f.request] \notin {"idle", "open"}
               /\ calls'[d].status = "ok" => f.request \in delivered'
      <4> SUFFICES ASSUME NEW d \in Calls, NEW f \in taken,
                          calls'[d].status \in {"sending", "ok"},
                          f.request_id = calls'[d].request_id
                   PROVE  /\ answers'[f.request] = {calls'[d].reply}
                          /\ stream'[f.request] \notin {"idle", "open"}
                          /\ calls'[d].status = "ok" => f.request \in delivered'
        BY <1>1
      <4>1. CASE d = c
        BY <2>3, <2>4, <3>2, <4>1
      <4>2. CASE d # c
        <5>1. calls'[d] = calls[d]
          BY <2>3, <4>2
        <5>2. f.request # q /\ f.request \in Requests
          BY <3>3, <5>1
        <5>3. /\ answers[f.request] = {calls[d].reply}
              /\ stream[f.request] \notin {"idle", "open"}
              /\ calls[d].status = "ok" => f.request \in delivered
          BY <5>1 DEF CallsAgree
        <5> QED
          BY <1>1, <2>4, <5>1, <5>2, <5>3
      <4> QED
        BY <4>1, <4>2
    <3>6. \A b, d \in Calls :
            /\ calls'[b].status \in {"sending", "ok"}
            /\ calls'[d].status \in {"sending", "ok"}
            /\ calls'[b].request_id = calls'[d].request_id
            => b = d
      BY <2>3, <3>1 DEF CallsAgree
    <3> QED
      BY <3>4, <3>5, <3>6 DEF CallsAgree
  <2>12. NoCallForgotten'
    <3> SUFFICES ASSUME NEW d \in Calls
                 PROVE  /\ calls'[d].status = "queued" =>
                             running' /\ d \in Elements(commands')
                        /\ calls'[d].status = "sending" =>
                             /\ running'
                             /\ \E p \in DOMAIN inbound_confirmations' :
                                  /\ inbound_confirmations'[p] = d
                                  /\ stream'[p] \in {"answering", "flushed", "broken"}
      BY DEF NoCallForgotten
    <3>1. CASE d = c
      BY <1>1, <2>3, <2>4, <2>5, <3>1
    <3>2. CASE d # c /\ calls[d].status # "sending"
      BY <1>1, <1>2, <2>3, <3>2 DEF NoCallForgotten
    <3>3. CASE d # c /\ calls[d].status = "sending"
      <4>1. PICK p \in DOMAIN inbound_confirmations :
              /\ inbound_confirmations[p] = d
              /\ stream[p] \in {"answering", "flushed", "broken"}
        BY <3>3 DEF NoCallForgotten
      <4> QED
        BY <1>1, <2>3, <2>4, <2>5, <3>3, <4>1
    <3> QED
      BY <3>1, <3>2, <3>3
  <2> QED
    BY <2>6, <2>7, <2>8, <2>9, <2>10, <2>11, <2>12
<1>8. CASE ~Answerable(id)
  <2>1. /\ inbound_protocol_ids' = RetainOthers(id)
        /\ calls' = [calls EXCEPT ![c].status = "err"]
        /\ UNCHANGED <<inbound_confirmations, stream, answers>>
    BY <1>8 DEF handle_respond, c, id
  <2>2. /\ calls'[c].status = "err" /\ calls'[c].request_id = id
        /\ \A d \in Calls : d # c => calls'[d] = calls[d]
        /\ calls' \in [Calls ->
             [request_id : Nat, reply : Replies \cup {Unavailable},
              status : {"none", "queued", "sending", "ok", "err"}]]
    BY <1>2, <2>1 DEF TypeOK, id
  <2>3. /\ DOMAIN inbound_protocol_ids' =
             {q \in DOMAIN inbound_protocol_ids : inbound_protocol_ids[q] # id}
        /\ \A q \in DOMAIN inbound_protocol_ids' :
             inbound_protocol_ids'[q] = inbound_protocol_ids[q]
    BY <2>1 DEF RetainOthers, ProtocolIds
  <2>4. TypeOK'
    <3>1. /\ inbound' \in [DOMAIN inbound' -> Requests]
          /\ inbound_protocol_ids' \in [DOMAIN inbound_protocol_ids' -> Nat \ {0}]
      BY <1>1, <2>1 DEF TypeOK, Remove, RetainOthers
    <3> QED
      BY <1>1, <1>2, <1>6, <2>1, <2>2, <2>3, <3>1 DEF TypeOK
  <2>5. NoTableLeak' /\ OneAnswer' /\ QueuedOnce'
    BY <1>1, <1>3, <1>6, <2>1, <2>2, <2>3 DEF NoTableLeak, OneAnswer, QueuedOnce
  <2>6. TokensAgree'
    BY <1>1, <1>5, <1>6, <2>1, <2>3 DEF TokensAgree
  <2>7. ConfirmationsAgree'
    BY <1>1, <1>3, <2>1, <2>2 DEF ConfirmationsAgree, TypeOK
  <2>8. CallsAgree'
    BY <1>1, <1>4, <2>1, <2>2 DEF CallsAgree
  <2>9. NoCallForgotten'
    BY <1>1, <1>2, <2>1, <2>2 DEF NoCallForgotten
  <2> QED
    BY <2>4, <2>5, <2>6, <2>7, <2>8, <2>9
<1> QED
  BY <1>7, <1>8
\* The final event of a request: its entries leave the tables and the call
\* that waits for it, if there is one, learns the outcome.
LEMMA FinalIInv ==
  ASSUME IInv, NEW q \in Requests, NEW result \in {"ok", "err"}, running,
         stream[q] \in {"flushed", "broken"},
         result = "ok" => stream[q] = "flushed",
         Resolve(q, result), Forget(q), Settled(q)
  PROVE  IInv'
<1> USE DEF IInv
<1>1. /\ stream' = [stream EXCEPT ![q] = "done"]
      /\ UNCHANGED <<running, subscribed, next_inbound_id, events, taken,
                     notices, commands, answers, delivered>>
      /\ Issued' = Issued
  BY DEF Settled, Issued
<1>2. /\ stream'[q] = "done" /\ \A p \in Requests : p # q => stream'[p] = stream[p]
      /\ stream' \in [Requests -> {"idle", "open", "answering", "flushed",
                                   "broken", "done"}]
  BY <1>1 DEF TypeOK
<1>3. /\ DOMAIN inbound_protocol_ids' = DOMAIN inbound_protocol_ids \ {q}
      /\ \A p \in DOMAIN inbound_protocol_ids' :
           inbound_protocol_ids'[p] = inbound_protocol_ids[p]
      /\ DOMAIN inbound_confirmations' = DOMAIN inbound_confirmations \ {q}
      /\ \A p \in DOMAIN inbound_confirmations' :
           inbound_confirmations'[p] = inbound_confirmations[p]
  BY DEF Forget, Resolve, Remove
<1>4. /\ DOMAIN inbound' = {id \in DOMAIN inbound : inbound[id] # q}
      /\ \A id \in DOMAIN inbound' : inbound'[id] = inbound[id]
  BY DEF Forget, Remove, TokensAgree
<1>5. TypeOK' /\ calls' \in [Calls ->
             [request_id : Nat, reply : Replies \cup {Unavailable},
              status : {"none", "queued", "sending", "ok", "err"}]]
  <2>1. /\ inbound' \in [DOMAIN inbound' -> Requests]
        /\ inbound_protocol_ids' \in [DOMAIN inbound_protocol_ids' -> Nat \ {0}]
        /\ inbound_confirmations' \in [DOMAIN inbound_confirmations' -> Calls]
    BY DEF Forget, Resolve, Remove, TypeOK
  <2>2. calls' \in [Calls ->
             [request_id : Nat, reply : Replies \cup {Unavailable},
              status : {"none", "queued", "sending", "ok", "err"}]]
    BY DEF Resolve, TypeOK
  <2> QED
    BY <1>1, <1>2, <1>3, <1>4, <2>1, <2>2 DEF TypeOK
<1>6. NoTableLeak' /\ OneAnswer'
  BY <1>1, <1>2, <1>3, <1>4 DEF NoTableLeak, OneAnswer, TypeOK
<1>7. TokensAgree'
  BY <1>1, <1>2, <1>3, <1>4, IssuedType DEF TokensAgree, TypeOK, InboundEvents
<1>8. CASE q \notin DOMAIN inbound_confirmations
  <2>1. calls' = calls
    BY <1>8 DEF Resolve
  <2>2. QueuedOnce' /\ ConfirmationsAgree'
    BY <1>1, <1>2, <1>3, <1>8, <2>1 DEF QueuedOnce, ConfirmationsAgree, TypeOK
  <2>3. CallsAgree'
    BY <1>1, <1>2, <2>1 DEF CallsAgree, TypeOK, InboundEvents
  <2>4. NoCallForgotten'
    <3>1. ASSUME NEW c \in Calls, calls[c].status = "sending"
          PROVE  \E p \in DOMAIN inbound_confirmations' :
                   /\ inbound_confirmations'[p] = c
                   /\ stream'[p] \in {"answering", "flushed", "broken"}
      <4>1. PICK p \in DOMAIN inbound_confirmations :
              /\ inbound_confirmations[p] = c
              /\ stream[p] \in {"answering", "flushed", "broken"}
        BY <3>1 DEF NoCallForgotten
      <4> QED
        BY <1>2, <1>3, <1>8, <4>1 DEF TypeOK
    <3> QED
      BY <1>1, <2>1, <3>1 DEF NoCallForgotten
  <2> QED
    BY <1>5, <1>6, <1>7, <2>2, <2>3, <2>4
<1>9. CASE q \in DOMAIN inbound_confirmations
  <2> DEFINE c == inbound_confirmations[q]
  <2>1. /\ c \in Calls /\ calls[c].status = "sending"
        /\ calls' = [calls EXCEPT ![c].status = result]
    BY <1>9 DEF Resolve, TypeOK, ConfirmationsAgree
  <2>2. PICK e \in taken : e.request_id = calls[c].request_id /\ e.request = q
    BY <1>9 DEF ConfirmationsAgree
  <2> HIDE DEF c
  <2>3. /\ calls'[c].status = result
        /\ calls'[c].request_id = calls[c].request_id
        /\ calls'[c].reply = calls[c].reply
        /\ \A d \in Calls : d # c => calls'[d] = calls[d]
    BY <2>1 DEF TypeOK
  <2>4. \A p \in DOMAIN inbound_confirmations' :
          /\ inbound_confirmations[p] # c /\ inbound_confirmations[p] \in Calls
          /\ p # q /\ p \in Requests
    BY <1>3, <2>2 DEF ConfirmationsAgree, TokensAgree, Issued, TypeOK
  <2>5. QueuedOnce'
    BY <1>1, <2>1, <2>3 DEF QueuedOnce, TypeOK
  <2>6. ConfirmationsAgree'
    BY <1>1, <1>2, <1>3, <2>3, <2>4 DEF ConfirmationsAgree
  <2>7. CallsAgree'
    <3>1. \A d \in Calls : calls'[d].status # "none" =>
            \E f \in taken' : f.request_id = calls'[d].request_id
      BY <1>1, <2>1, <2>3 DEF CallsAgree
    <3>2. ASSUME NEW d \in Calls, NEW f \in taken,
                 calls'[d].status \in {"sending", "ok"},
                 f.request_id = calls'[d].request_id
          PROVE  /\ answers'[f.request] = {calls'[d].reply}
                 /\ stream'[f.request] \notin {"idle", "open"}
                 /\ calls'[d].status = "ok" => f.request \in delivered'
      <4>1. f.request \in Requests
        BY DEF TypeOK, InboundEvents
      <4>2. CASE d = c
        <5>1. f.request = q
          BY <2>2, <2>3, <3>2, <4>2 DEF TokensAgree, Issued
        <5>2. f.request_id = calls[c].request_id
          BY <2>3, <3>2, <4>2
        <5>3. answers[q] = {calls[c].reply}
          BY <2>1, <5>1, <5>2 DEF CallsAgree
        <5>4. calls'[c].status = "ok" => q \in delivered
          BY <2>3 DEF OneAnswer
        <5> QED
          BY <1>1, <1>2, <2>3, <4>2, <5>1, <5>3, <5>4
      <4>3. CASE d # c
        BY <1>1, <1>2, <2>3, <3>2, <4>1, <4>3 DEF CallsAgree
      <4> QED
        BY <4>2, <4>3
    <3>3. \A b, d \in Calls :
            /\ calls'[b].status \in {"sending", "ok"}
            /\ calls'[d].status \in {"sending", "ok"}
            /\ calls'[b].request_id = calls'[d].request_id
            => b = d
      BY <2>1, <2>3 DEF CallsAgree
    <3> QED
      BY <1>1, <3>1, <3>2, <3>3 DEF CallsAgree
  <2>8. NoCallForgotten'
    <3>1. ASSUME NEW d \in Calls, calls'[d].status = "sending"
          PROVE  \E p \in DOMAIN inbound_confirmations' :
                   /\ inbound_confirmations'[p] = d
                   /\ stream'[p] \in {"answering", "flushed", "broken"}
      <4>1. d # c /\ calls[d].status = "sending"
        BY <2>3, <3>1
      <4>2. PICK p \in DOMAIN inbound_confirmations :
              /\ inbound_confirmations[p] = d
              /\ stream[p] \in {"answering", "flushed", "broken"}
        BY <4>1 DEF NoCallForgotten
      <4> QED
        BY <1>2, <1>3, <4>1, <4>2 DEF TypeOK, c
    <3>2. ASSUME NEW d \in Calls, calls'[d].status = "queued"
          PROVE  d \in Elements(commands')
      BY <1>1, <2>3, <3>2 DEF NoCallForgotten
    <3> QED
      BY <1>1, <3>1, <3>2 DEF NoCallForgotten
  <2> QED
    BY <1>5, <1>6, <1>7, <2>5, <2>6, <2>7, <2>8
<1> QED
  BY <1>8, <1>9
\* libp2p writes a response or ends a stream: the driver hears of it later.
LEMMA LibraryIInv ==
  ASSUME IInv, NEW q \in Requests, Library(q)
  PROVE  IInv'
<1> USE DEF IInv
<1>1. /\ stream[q] \in {"open", "answering"}
      /\ \/ stream' = [stream EXCEPT ![q] = "broken"] /\ delivered' = delivered
         \/ /\ stream[q] = "answering"
            /\ stream' = [stream EXCEPT ![q] = "flushed"]
            /\ delivered' = delivered \cup {q}
      /\ UNCHANGED <<running, subscribed, tables, events, taken, notices,
                     calls, commands, answers>>
      /\ Issued' = Issued
  BY DEF Library, StreamFlushes, StreamBreaks, Issued
<1>2. /\ stream'[q] \in {"broken", "flushed"}
      /\ stream'[q] = "flushed" => q \in delivered'
      /\ \A p \in Requests : p # q => stream'[p] = stream[p]
  BY <1>1 DEF TypeOK
<1>3. TypeOK'
  BY <1>1 DEF TypeOK, tables
<1>4. NoTableLeak' /\ OneAnswer' /\ QueuedOnce'
  BY <1>1, <1>2 DEF NoTableLeak, OneAnswer, QueuedOnce, TypeOK, tables
<1>5. TokensAgree'
  BY <1>1, <1>2, IssuedType DEF TokensAgree, TypeOK, InboundEvents, tables
<1>6. ConfirmationsAgree'
  BY <1>1, <1>2 DEF ConfirmationsAgree, TypeOK, tables
<1>7. CallsAgree'
  <2>1. \A e \in taken : e.request \in Requests
    BY DEF TypeOK, InboundEvents
  <2> QED
    BY <1>1, <1>2, <2>1 DEF CallsAgree
<1>8. NoCallForgotten'
  <2>1. ASSUME NEW c \in Calls, calls[c].status = "sending"
        PROVE  \E p \in DOMAIN inbound_confirmations' :
                 /\ inbound_confirmations'[p] = c
                 /\ stream'[p] \in {"answering", "flushed", "broken"}
    <3>1. PICK p \in DOMAIN inbound_confirmations :
            /\ inbound_confirmations[p] = c
            /\ stream[p] \in {"answering", "flushed", "broken"}
      BY <2>1 DEF NoCallForgotten
    <3> QED
      BY <1>1, <1>2, <3>1 DEF TypeOK, tables
  <2> QED
    BY <1>1, <2>1 DEF NoCallForgotten
<1> QED
  BY <1>3, <1>4, <1>5, <1>6, <1>7, <1>8

\* The application takes an event, or drops the receiver with all of them:
\* no token is issued by that.
LEMMA ApplicationIInv ==
  ASSUME IInv, recv \/ Unsubscribe
  PROVE  IInv'
<1> USE DEF IInv
<1>1. UNCHANGED <<running, tables, notices, calls, commands, stream, answers,
                  delivered>>
  BY DEF recv, Unsubscribe
<1>2. /\ events' \in Seq(InboundEvents \cup {Notice})
      /\ taken' \subseteq InboundEvents
      /\ subscribed' \in BOOLEAN
      /\ taken \subseteq taken'
      /\ Issued' \subseteq Issued
  <2>1. CASE recv
    <3>1. events \in Seq(InboundEvents \cup {Notice}) /\ events # <<>>
      BY <2>1 DEF TypeOK, recv
    <3>2. /\ Head(events) \in InboundEvents \cup {Notice}
          /\ Tail(events) \in Seq(InboundEvents \cup {Notice})
          /\ Elements(events) = Elements(Tail(events)) \cup {Head(events)}
      BY ONLY <3>1, TailElements
    <3> QED
      BY <2>1, <3>2 DEF recv, TypeOK, Issued
  <2>2. CASE Unsubscribe
    <3>1. Elements(events') = {} /\ events' \in Seq(InboundEvents \cup {Notice})
      BY <2>2 DEF Unsubscribe, Elements
    <3> QED
      BY <2>2, <3>1 DEF Unsubscribe, TypeOK, Issued
  <2> QED
    BY <2>1, <2>2
<1>3. TypeOK'
  BY <1>1, <1>2 DEF TypeOK, tables
<1>4. NoTableLeak' /\ OneAnswer' /\ QueuedOnce' /\ NoCallForgotten'
  BY <1>1 DEF NoTableLeak, OneAnswer, QueuedOnce, NoCallForgotten, tables
<1>5. TokensAgree'
  BY <1>1, <1>2 DEF TokensAgree, tables
<1>6. ConfirmationsAgree'
  BY <1>1, <1>2 DEF ConfirmationsAgree, tables
<1>7. CallsAgree'
  <2>1. ASSUME NEW c \in Calls, NEW e \in taken', calls[c].status # "none",
               e.request_id = calls[c].request_id
        PROVE  e \in taken
    BY <1>2, <2>1 DEF CallsAgree, TokensAgree, Issued
  <2> QED
    BY <1>1, <1>2, <2>1 DEF CallsAgree
<1> QED
  BY <1>3, <1>4, <1>5, <1>6, <1>7

\* The loop ends: the tables go, and every call that waited returns an error.
LEMMA StopIInv ==
  ASSUME IInv, stop
  PROVE  IInv'
<1> USE DEF IInv
<1>1. /\ DOMAIN inbound' = {} /\ DOMAIN inbound_protocol_ids' = {}
      /\ DOMAIN inbound_confirmations' = {}
      /\ commands' = <<>> /\ running' = FALSE
      /\ UNCHANGED <<subscribed, next_inbound_id, events, taken, notices,
                     answers, delivered>>
      /\ Issued' = Issued
  BY DEF stop, Empty, Issued
<1>2. \A c \in Calls :
        /\ calls'[c].request_id = calls[c].request_id
        /\ calls'[c].reply = calls[c].reply
        /\ calls'[c].status = IF calls[c].status \in {"queued", "sending"}
                              THEN "err" ELSE calls[c].status
  BY DEF stop, TypeOK
<1>3. \A q \in Requests :
        stream'[q] = IF stream[q] \in {"open", "answering"} THEN "broken"
                     ELSE stream[q]
  BY DEF stop, TypeOK
<1>4. TypeOK'
  <2>1. calls' \in [Calls ->
             [request_id : Nat, reply : Replies \cup {Unavailable},
              status : {"none", "queued", "sending", "ok", "err"}]]
    BY DEF stop, TypeOK
  <2>2. stream' \in [Requests -> {"idle", "open", "answering", "flushed",
                                  "broken", "done"}]
    BY DEF stop, TypeOK
  <2>3. /\ inbound' \in [DOMAIN inbound' -> Requests]
        /\ inbound_protocol_ids' \in [DOMAIN inbound_protocol_ids' -> Nat \ {0}]
        /\ inbound_confirmations' \in [DOMAIN inbound_confirmations' -> Calls]
    BY DEF stop, Empty
  <2>4. running' \in BOOLEAN
    BY <1>1, Zenon
  <2>5. commands' \in Seq(Calls)
    BY <1>1
  <2>6. /\ DOMAIN inbound' \subseteq Nat
        /\ DOMAIN inbound_protocol_ids' \subseteq Requests
        /\ DOMAIN inbound_confirmations' \subseteq Requests
    BY <1>1
  <2> QED
    BY <1>1, <2>1, <2>2, <2>3, <2>4, <2>5, <2>6 DEF TypeOK
<1>5. NoTableLeak' /\ QueuedOnce' /\ ConfirmationsAgree'
  BY <1>1 DEF NoTableLeak, QueuedOnce, ConfirmationsAgree
<1>6. OneAnswer'
  BY <1>1, <1>3 DEF OneAnswer, TypeOK
<1>7. TokensAgree'
  BY <1>1, <1>3, IssuedType DEF TokensAgree, TypeOK, InboundEvents
<1>8. CallsAgree'
  <2>1. \A e \in taken : e.request \in Requests
    BY DEF TypeOK, InboundEvents
  <2>2. \A c \in Calls : calls'[c].status # "none" =>
          \E e \in taken' : e.request_id = calls'[c].request_id
    BY <1>1, <1>2 DEF CallsAgree
  <2>3. \A c \in Calls, e \in taken' :
          /\ calls'[c].status \in {"sending", "ok"}
          /\ e.request_id = calls'[c].request_id
          => /\ answers'[e.request] = {calls'[c].reply}
             /\ stream'[e.request] \notin {"idle", "open"}
             /\ calls'[c].status = "ok" => e.request \in delivered'
    BY <1>1, <1>2, <1>3, <2>1 DEF CallsAgree
  <2>4. \A c, d \in Calls :
          /\ calls'[c].status \in {"sending", "ok"}
          /\ calls'[d].status \in {"sending", "ok"}
          /\ calls'[c].request_id = calls'[d].request_id
          => c = d
    BY <1>2 DEF CallsAgree
  <2> QED
    BY <2>2, <2>3, <2>4 DEF CallsAgree
<1>9. NoCallForgotten'
  BY <1>1, <1>2 DEF NoCallForgotten
<1> QED
  BY <1>4, <1>5, <1>6, <1>7, <1>8, <1>9

\* Every step of the specification keeps the invariant.
LEMMA NextIInv == IInv /\ [Next]_driverVars => IInv'
<1> SUFFICES ASSUME IInv, [Next]_driverVars PROVE IInv'
  OBVIOUS
<1>1. ASSUME NEW q \in Requests, ResponseSent(q) \/ InboundFailure(q)
      PROVE  IInv'
  BY <1>1, FinalIInv DEF ResponseSent, InboundFailure
<1>2. CASE UNCHANGED driverVars
  BY <1>2 DEF driverVars, tables, IInv, TypeOK, NoTableLeak, TokensAgree,
              Issued, OneAnswer, QueuedOnce, ConfirmationsAgree, CallsAgree,
              NoCallForgotten
<1> QED
  BY <1>1, <1>2, ArriveIInv, NoticeIInv, HandleRespondIInv, LibraryIInv,
     RespondIInv, ApplicationIInv, StopIInv
  DEF Next, Driver

\* The inductive invariant holds throughout.
THEOREM Invariance == Spec => []IInv
  BY InitIInv, NextIInv, PTL DEF Spec

\* No table entry outlives its request or the loop (handle_inbound_request,
\* Command::Respond, ResponseSent, InboundFailure and the end of run).
THEOREM NoTableLeakAlways == Spec => []NoTableLeak
<1>1. IInv => NoTableLeak
  BY DEF IInv
<1> QED
  BY <1>1, Invariance, PTL

\* A call of respond that returned Ok has its reply, and no other, written to
\* the request its token was issued for, and no token is answered twice,
\* however calls, failures and the end of the loop interleave.
THEOREM OkIsDeliveredAlways == Spec => []OkIsDelivered
<1>1. IInv => OkIsDelivered
  <2> SUFFICES ASSUME IInv PROVE OkIsDelivered
    OBVIOUS
  <2>1. ASSUME NEW c \in Calls, calls[c].status = "ok"
        PROVE  \E e \in taken : /\ e.request_id = calls[c].request_id
                                /\ e.request \in delivered
                                /\ answers[e.request] = {calls[c].reply}
    BY <2>1 DEF IInv, CallsAgree
  <2> QED
    BY <2>1 DEF IInv, CallsAgree, OkIsDelivered
<1> QED
  BY <1>1, Invariance, PTL

\* A call of respond never waits for something that cannot come any more: it
\* is in the queue of a running loop, or its confirmation sits at a stream
\* that libp2p still has to finish.  This is the safety half of the liveness
\* property RespondReturns.
THEOREM NoCallForgottenAlways == Spec => []NoCallForgotten
<1>1. IInv => NoCallForgotten
  BY DEF IInv
<1> QED
  BY <1>1, Invariance, PTL
\* A token is drawn exactly when a request arrives.
LEMMA NextTokensCount ==
  ASSUME NetworkDriverAssumption, IInv, TokensCount, [Next]_driverVars
  PROVE  TokensCount'
<1> DEFINE Seen == {q \in Requests : stream[q] # "idle"}
<1>1. ASSUME NEW q \in Requests, handle_inbound_request(q)
      PROVE  TokensCount'
  <2>1. /\ stream[q] = "idle" /\ stream'[q] # "idle"
        /\ \A p \in Requests : p # q => stream'[p] = stream[p]
        /\ next_inbound_id' = next_inbound_id + 1
    BY <1>1 DEF handle_inbound_request, send_response, IInv, TypeOK
  <2>2. Seen' = Seen \cup {q} /\ q \notin Seen
    BY <2>1
  <2>3. IsFiniteSet(Seen)
    BY FS_Subset DEF NetworkDriverAssumption
  <2>4. Cardinality(Seen') = Cardinality(Seen) + 1 /\ Cardinality(Seen) \in Nat
    BY <2>2, <2>3, FS_AddElement, FS_CardinalityType
  <2> QED
    BY <2>1, <2>4 DEF TokensCount
<1>2. ASSUME next_inbound_id' = next_inbound_id,
             \A q \in Requests : stream'[q] = "idle" <=> stream[q] = "idle"
      PROVE  TokensCount'
  <2>1. Seen' = Seen
    BY <1>2
  <2> QED
    BY <1>2, <2>1 DEF TokensCount
<1>3. CASE handle_notice \/ recv \/ Unsubscribe \/ UNCHANGED driverVars
  BY <1>2, <1>3 DEF handle_notice, recv, Unsubscribe, driverVars, tables
<1>4. CASE handle_respond
  BY <1>2, <1>4 DEF handle_respond, send_response, Answerable, IInv, TypeOK
<1>5. ASSUME NEW q \in Requests,
             ResponseSent(q) \/ InboundFailure(q) \/ Library(q)
      PROVE  TokensCount'
  BY <1>2, <1>5 DEF ResponseSent, InboundFailure, Settled, Library,
                    StreamFlushes, StreamBreaks, tables, IInv, TypeOK
<1>6. ASSUME NEW c \in Calls, NEW e \in taken, NEW reply \in Replies,
             respond(c, e.request_id, reply)
      PROVE  TokensCount'
  BY <1>2, <1>6 DEF respond, tables
<1>7. CASE stop
  BY <1>2, <1>7 DEF stop, IInv, TypeOK
<1> QED
  BY <1>1, <1>3, <1>4, <1>5, <1>6, <1>7 DEF Next, Driver

\* No token was drawn yet, and there are never more than requests.
LEMMA InitTokensCount == DriverInit => TokensCount
<1> SUFFICES ASSUME DriverInit PROVE TokensCount
  OBVIOUS
<1>1. {q \in Requests : stream[q] # "idle"} = {}
  BY DEF DriverInit
<1> QED
  BY <1>1, FS_EmptySet DEF DriverInit, TokensCount

\* So next_inbound_id never passes the number of requests: the counter of the
\* driver is bounded by what arrived.
LEMMA TokensBound ==
  ASSUME NetworkDriverAssumption, TokensCount
  PROVE  next_inbound_id <= 1 + Cardinality(Requests)
  BY FS_Subset, FS_CardinalityType DEF TokensCount, NetworkDriverAssumption

\* Tokens are consecutive: as many were drawn as requests have arrived, so
\* that next_inbound_id never runs ahead of the requests.
THEOREM TokensCountAlways ==
  ASSUME NetworkDriverAssumption
  PROVE  Spec => [](TokensCount /\ next_inbound_id <= 1 + Cardinality(Requests))
  BY InitTokensCount, NextTokensCount, TokensBound, Invariance, PTL DEF Spec
==============================================================================
