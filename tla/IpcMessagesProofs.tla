-------------------------- MODULE IpcMessagesProofs --------------------------
(***************************************************************************)
(* Proofs about the servers and clients of IpcMessages: a token goes to    *)
(* the client that asked for it, and the answers of the socket server come *)
(* in the order of the connections.  Each pair has an inductive invariant  *)
(* of its own; a step of MessagesSpec is one of the one pair, and the      *)
(* other pair stays as it is.                                              *)
(***************************************************************************)
EXTENDS IpcMessages, FiniteSetTheorems, SequenceTheorems, TLAPS

-----------------------------------------------------------------------------
(* The socket server.                                                      *)

\* The client that has been accepted and not been answered.
InService == IF srv.at \in {"recv", "send"} THEN <<srv.client>> ELSE <<>>

\* The clients that connected are those that were answered, the one in service
\* and those in the backlog, in this order; without a server there is no
\* backlog, and what was answered remains.
ComeInOrder ==
  IF srv.at # "off" THEN came = answered \o InService \o backlog
  ELSE /\ backlog = <<>> /\ Len(answered) <= Len(came)
       /\ \A k \in DOMAIN answered : answered[k] = came[k]

\* The server serves somebody exactly between accept and close, it listens from
\* the first turn of its loop on, and it is killed less often than started.
ServerPlaces ==
  /\ srv.client # Stream!Nobody <=> srv.at \in {"recv", "send", "close"}
  /\ srv.at \in {"accept", "recv", "send", "close"} => srv.listens
  /\ srv.at = "off" => ~srv.listens
  /\ srv.kills <= srv.runs /\ (srv.at # "off" => srv.kills < srv.runs)

\* Who connected has left the first places behind; an end of file where a line
\* was sent takes a killed server.
Linked ==
  /\ \A c \in Callers : srv.kills = 0 /\ link[c] = "closed" => caller[c] # "recv"
  /\ Stream!NoEmptyAnswer

\* A file that is there after the first unlink is that of a client that goes on.
FileHasOwner ==
  file /\ (\E c \in Callers : caller[c] # "new") =>
    \E d \in Callers : caller[d] \notin {"new", "bind", "bind error"}

\* The inductive invariant of the socket server.
StreamInv ==
  /\ Stream!TypeOK /\ ComeInOrder /\ ServerPlaces /\ Linked
  /\ FileHasOwner /\ Stream!LoserHasWinner

\* The values of a server's record.
ServerPlace == {"off", "loop", "accept", "recv", "send", "close"}
CallerPlace == {"new", "bind", "connect", "send", "recv"} \cup Stream!Ends

StreamTypes ==
  /\ srv.at \in ServerPlace /\ srv.listens \in BOOLEAN
  /\ srv.client \in Callers \cup {Stream!Nobody}
  /\ srv.vic \in BOOLEAN /\ srv.runs \in 0..MaxServers /\ srv.kills \in 0..MaxServers
  /\ srv = [at |-> srv.at, listens |-> srv.listens, client |-> srv.client,
            vic |-> srv.vic, runs |-> srv.runs, kills |-> srv.kills]
  /\ backlog \in Seq(Callers) /\ Len(backlog) <= Backlog + 1
  /\ file \in BOOLEAN /\ caller \in [Callers -> CallerPlace]
  /\ link \in [Callers -> Stream!Links]
  /\ came \in Seq(Callers) /\ answered \in Seq(Callers)

\* What the type invariant says of each piece.
LEMMA TypesOfStream ==
  ASSUME Stream!TypeOK
  PROVE  StreamTypes
BY DEF Stream!TypeOK, StreamTypes, ServerPlace, CallerPlace

\* ... and the other way round, after a step.
LEMMA TypesKeptOfStream ==
  ASSUME StreamTypes'
  PROVE  Stream!TypeOK'
<1>1. srv' \in [at : {"off", "loop", "accept", "recv", "send", "close"},
                listens : BOOLEAN, client : Callers \cup {Stream!Nobody}, vic : BOOLEAN,
                runs : 0..MaxServers, kills : 0..MaxServers]
  BY DEF StreamTypes, ServerPlace
<1> QED BY <1>1 DEF Stream!TypeOK, StreamTypes, CallerPlace

\* The bounds of the socket programs, and that nobody is not a client.
LEMMA StreamNumbers == Backlog \in Nat /\ MaxServers \in Nat /\ Stream!Nobody \notin Callers
BY StreamAssumption DEF Stream!BoundsOK

\* Who connects is the last one to have come.
LEMMA ArrivalIsLast ==
  ASSUME NEW a \in Seq(Callers), NEW s \in Seq(Callers), NEW b \in Seq(Callers),
         NEW c \in Callers
  PROVE  Append(a \o s \o b, c) = a \o s \o Append(b, c)
<1>1. a \o s \in Seq(Callers) /\ a \o s \o b \in Seq(Callers) /\ <<c>> \in Seq(Callers)
  OBVIOUS
<1>2. /\ Append(a \o s \o b, c) = ((a \o s) \o b) \o <<c>>
      /\ Append(b, c) = b \o <<c>>
  BY <1>1, AppendIsConcat
<1> QED BY SMTT(30), <1>1, <1>2, ConcatAssociative

\* The order of the connections through an accept and an answer.
LEMMA OrderKept ==
  ASSUME NEW a \in Seq(Callers), NEW b \in Seq(Callers), NEW c \in Callers
  PROVE  /\ b # <<>> => a \o <<>> \o b = a \o <<Head(b)>> \o Tail(b)
         /\ a \o <<c>> \o b = Append(a, c) \o <<>> \o b
<1>1. b # <<>> => a \o <<>> \o b = a \o <<Head(b)>> \o Tail(b)
  OBVIOUS
<1>2. a \o <<c>> \o b = Append(a, c) \o <<>> \o b
  OBVIOUS
<1> QED BY <1>1, <1>2

\* What a sequence starts with is its prefix.
LEMMA StartIsPrefix ==
  ASSUME NEW a \in Seq(Callers), NEW b \in Seq(Callers)
  PROVE  Len(a) <= Len(a \o b) /\ \A k \in DOMAIN a : a[k] = (a \o b)[k]
OBVIOUS

\* The server's record, with some of its fields changed.
Served(at, listens, client) ==
  /\ srv' = [at |-> at, listens |-> listens, client |-> client, vic |-> srv.vic,
             runs |-> srv.runs, kills |-> srv.kills]

\* StartServer, Listen and Close: no connection changes hands.
LEMMA ServerTurns ==
  ASSUME StreamInv, Stream!StartServer \/ Stream!Listen \/ Stream!Close
  PROVE  StreamInv'
<1>1. StreamTypes
  BY TypesOfStream DEF StreamInv
<1>2. CASE Stream!StartServer
  <2>1. /\ srv.at = "off" /\ srv'.at = "loop" /\ srv'.listens = srv.listens
        /\ srv'.client = srv.client /\ srv'.vic \in BOOLEAN
        /\ srv'.runs = srv.runs + 1 /\ srv'.kills = srv.kills /\ srv.runs < MaxServers
        /\ srv' = [at |-> srv'.at, listens |-> srv'.listens, client |-> srv'.client,
                   vic |-> srv'.vic, runs |-> srv'.runs, kills |-> srv'.kills]
        /\ came' = <<>> /\ answered' = <<>>
        /\ UNCHANGED <<backlog, file, caller, link>>
    BY <1>1, <1>2 DEF Stream!StartServer, StreamTypes
  <2>2. StreamTypes'
    BY <1>1, <2>1, StreamNumbers DEF StreamTypes, ServerPlace
  <2>3. ~srv.listens /\ backlog = <<>>
    BY <2>1 DEF StreamInv, ServerPlaces, ComeInOrder
  <2>4. ComeInOrder' /\ ServerPlaces'
    BY <1>1, <2>1, <2>3, StreamNumbers
       DEF StreamInv, ComeInOrder, InService, ServerPlaces, StreamTypes
  <2> QED BY <2>1, <2>2, <2>4, TypesKeptOfStream
          DEF StreamInv, Linked, FileHasOwner, Stream!NoEmptyAnswer, Stream!LoserHasWinner
<1>3. CASE Stream!Listen
  <2>1. /\ srv.at = "loop" /\ Served("accept", TRUE, srv.client)
        /\ UNCHANGED <<backlog, file, caller, link, came, answered>>
    BY <1>1, <1>3 DEF Stream!Listen, StreamTypes, Served
  <2>2. StreamTypes'
    BY <1>1, <2>1 DEF StreamTypes, ServerPlace, Served
  <2>3. ComeInOrder'
    BY <2>1 DEF StreamInv, ComeInOrder, InService, Served
  <2>4. ServerPlaces'
    BY <1>1, <2>1 DEF StreamInv, ServerPlaces, StreamTypes, Served
  <2> QED BY <2>1, <2>2, <2>3, <2>4, TypesKeptOfStream
          DEF StreamInv, Linked, FileHasOwner, Stream!NoEmptyAnswer, Stream!LoserHasWinner,
              Served
<1>4. CASE Stream!Close
  <2>1. /\ srv.at = "close" /\ Served("loop", srv.listens, Stream!Nobody)
        /\ UNCHANGED <<backlog, file, caller, link, came, answered>>
    BY <1>1, <1>4 DEF Stream!Close, StreamTypes, Served
  <2>2. StreamTypes'
    BY <1>1, <2>1 DEF StreamTypes, ServerPlace, Served
  <2>3. ComeInOrder' /\ ServerPlaces'
    BY <1>1, <2>1 DEF StreamInv, ComeInOrder, InService, ServerPlaces, StreamTypes, Served
  <2> QED BY <2>1, <2>2, <2>3, TypesKeptOfStream
          DEF StreamInv, Linked, FileHasOwner, Stream!NoEmptyAnswer, Stream!LoserHasWinner,
              Served
<1> QED BY <1>2, <1>3, <1>4

\* The server is gone: nobody sees an end of file where its line was read, unless
\* the server was killed.
LEMMA ServerGoes ==
  ASSUME StreamInv, Stream!LoopEnds \/ Stream!SigPipe \/ Stream!KillServer
  PROVE  StreamInv'
<1>1. StreamTypes
  BY TypesOfStream DEF StreamInv
<1>2. /\ srv.at # "off"
      /\ srv' = [at |-> "off", listens |-> FALSE, client |-> Stream!Nobody,
                 vic |-> srv.vic, runs |-> srv.runs, kills |-> srv'.kills]
      /\ srv'.kills \in 0..MaxServers /\ srv'.kills <= srv.runs
      /\ link' = [c \in Callers |-> Stream!Cut(c)] /\ backlog' = <<>>
      /\ UNCHANGED <<file, caller, came, answered>>
      /\ srv'.kills = 0 => srv.kills = 0 /\ (Stream!LoopEnds \/ Stream!SigPipe)
  <2>1. CASE Stream!LoopEnds
    BY <1>1, <2>1 DEF Stream!LoopEnds, Stream!Gone, StreamTypes, StreamInv, ServerPlaces
  <2>2. CASE Stream!SigPipe
    BY <1>1, <2>2 DEF Stream!SigPipe, Stream!Gone, StreamTypes, StreamInv, ServerPlaces
  <2>3. CASE Stream!KillServer
    <3>1. /\ srv.at # "off" /\ srv.kills < srv.runs /\ srv.kills + 1 \in 0..MaxServers
          /\ srv.kills + 1 # 0 /\ srv.kills + 1 <= srv.runs
      BY <1>1, <2>3, StreamNumbers
         DEF Stream!KillServer, StreamTypes, StreamInv, ServerPlaces
    <3> QED BY <1>1, <2>3, <3>1 DEF Stream!KillServer, Stream!Gone, StreamTypes
  <2> QED BY <2>1, <2>2, <2>3
<1>3. \A c \in Callers : Stream!Cut(c) \in Stream!Links
  BY <1>1 DEF Stream!Cut, Stream!Links, StreamTypes
<1>4. StreamTypes'
  <2>1. link' \in [Callers -> Stream!Links]
    BY <1>2, <1>3
  <2>2. backlog' \in Seq(Callers) /\ Len(backlog') <= Backlog + 1
    BY <1>2, StreamNumbers
  <2>3. /\ srv'.at = "off" /\ srv'.listens = FALSE /\ srv'.client = Stream!Nobody
        /\ srv'.vic = srv.vic /\ srv'.runs = srv.runs
        /\ srv' = [at |-> srv'.at, listens |-> srv'.listens, client |-> srv'.client,
                   vic |-> srv'.vic, runs |-> srv'.runs, kills |-> srv'.kills]
    BY <1>2
  <2> QED BY <1>1, <1>2, <2>1, <2>2, <2>3 DEF StreamTypes, ServerPlace
<1>5. ComeInOrder'
  <2>1. answered \in Seq(Callers) /\ backlog \in Seq(Callers) /\ InService \in Seq(Callers)
    BY <1>1 DEF StreamTypes, StreamInv, ServerPlaces, InService
  <2>2. answered \o InService \o backlog = answered \o (InService \o backlog)
    BY <2>1, ConcatAssociative
  <2>3. InService \o backlog \in Seq(Callers)
    BY <2>1
  <2>4. came = answered \o (InService \o backlog)
    BY <1>2, <2>2 DEF StreamInv, ComeInOrder
  <2>5. Len(answered) <= Len(came) /\ \A k \in DOMAIN answered : answered[k] = came[k]
    BY <2>1, <2>3, <2>4, StartIsPrefix
  <2> QED BY <1>2, <2>5 DEF ComeInOrder
<1>6. ServerPlaces'
  BY <1>1, <1>2 DEF ServerPlaces, StreamTypes
<1>7. Linked'
  <2>1. ASSUME srv'.kills = 0, NEW c \in Callers, link'[c] = "closed"
        PROVE  link[c] = "closed"
    <3>1. Stream!Cut(c) = "closed" /\ srv.kills = 0
      BY <1>2, <2>1
    <3>2. CASE Stream!LoopEnds
      <4>1. srv.client = Stream!Nobody
        BY <3>2, <1>1 DEF Stream!LoopEnds, StreamInv, ServerPlaces
      <4> QED BY <3>1, <4>1, StreamNumbers DEF Stream!Cut
    <3>3. CASE Stream!SigPipe
      <4>1. link[srv.client] = "dead"
        BY <3>3 DEF Stream!SigPipe
      <4> QED BY <3>1, <4>1 DEF Stream!Cut
    <3> QED BY <1>2, <2>1, <3>2, <3>3
  <2>2. srv'.kills = 0 => srv.kills = 0
    BY <1>2
  <2> QED BY <1>2, <2>1, <2>2 DEF StreamInv, Linked, Stream!NoEmptyAnswer
<1> QED BY <1>2, <1>4, <1>5, <1>6, <1>7, TypesKeptOfStream
        DEF StreamInv, FileHasOwner, Stream!LoserHasWinner

\* A connection is taken from the backlog, a line is read, and it is answered.
LEMMA ServerServes ==
  ASSUME StreamInv, Stream!Accept \/ Stream!Recv \/ Stream!SendAnswer
  PROVE  StreamInv'
<1>1. StreamTypes
  BY TypesOfStream DEF StreamInv
<1>2. CASE Stream!Accept
  <2>1. Head(backlog) \in Callers /\ Tail(backlog) \in Seq(Callers) /\ backlog # <<>>
        /\ Len(Tail(backlog)) <= Backlog + 1
    BY <1>1, <1>2, StreamNumbers DEF Stream!Accept, StreamTypes
  <2>2. /\ srv.at = "accept" /\ Served("recv", srv.listens, Head(backlog))
        /\ backlog' = Tail(backlog)
        /\ UNCHANGED <<file, caller, link, came, answered>>
    BY <1>1, <1>2 DEF Stream!Accept, StreamTypes, Served
  <2>3. StreamTypes'
    BY <1>1, <2>1, <2>2 DEF StreamTypes, ServerPlace, Served
  <2>4. came = answered \o <<>> \o backlog
    BY <2>2 DEF StreamInv, ComeInOrder, InService
  <2>5. came = answered \o <<Head(backlog)>> \o Tail(backlog)
    BY <1>1, <2>1, <2>4, OrderKept DEF StreamTypes
  <2>6. ComeInOrder'
    BY <2>2, <2>5 DEF ComeInOrder, InService, Served
  <2>7. ServerPlaces'
    BY <1>1, <2>1, <2>2, StreamNumbers DEF StreamInv, ServerPlaces, StreamTypes, Served
  <2> QED BY <2>2, <2>3, <2>6, <2>7, TypesKeptOfStream
          DEF StreamInv, Linked, FileHasOwner, Stream!NoEmptyAnswer, Stream!LoserHasWinner,
              Served
<1>3. CASE Stream!Recv
  <2>1. /\ srv.at = "recv" /\ Served("send", srv.listens, srv.client)
        /\ srv.client \in Callers
        /\ \A c \in Callers : link'[c] = "closed" <=> link[c] = "closed"
        /\ link' \in [Callers -> Stream!Links]
        /\ UNCHANGED <<backlog, file, caller, came, answered>>
    BY <1>1, <1>3 DEF Stream!Recv, StreamTypes, Served, Stream!Links, StreamInv, ServerPlaces
  <2>2. StreamTypes'
    BY <1>1, <2>1 DEF StreamTypes, ServerPlace, Served
  <2>3. ComeInOrder' /\ ServerPlaces'
    BY <1>1, <2>1 DEF StreamInv, ComeInOrder, InService, ServerPlaces, StreamTypes, Served
  <2> QED BY <2>1, <2>2, <2>3, TypesKeptOfStream
          DEF StreamInv, Linked, FileHasOwner, Stream!NoEmptyAnswer, Stream!LoserHasWinner,
              Served
<1>4. CASE Stream!SendAnswer
  <2>1. /\ srv.at = "send" /\ Served("close", srv.listens, srv.client)
        /\ srv.client \in Callers
        /\ \A c \in Callers : link'[c] = "closed" => link[c] = "closed"
        /\ link' \in [Callers -> Stream!Links]
        /\ answered' = Append(answered, srv.client)
        /\ UNCHANGED <<backlog, file, caller, came>>
    BY <1>1, <1>4 DEF Stream!SendAnswer, StreamTypes, Served, Stream!Links, StreamInv,
                      ServerPlaces
  <2>2. StreamTypes'
    BY <1>1, <2>1 DEF StreamTypes, ServerPlace, Served
  <2>3. came = answered \o <<srv.client>> \o backlog
    BY <2>1 DEF StreamInv, ComeInOrder, InService
  <2>4. came = Append(answered, srv.client) \o <<>> \o backlog
    BY <1>1, <2>1, <2>3, OrderKept DEF StreamTypes
  <2>5. ComeInOrder'
    BY <2>1, <2>4 DEF ComeInOrder, InService, Served
  <2>6. ServerPlaces'
    BY <1>1, <2>1 DEF StreamInv, ServerPlaces, StreamTypes, Served
  <2> QED BY <2>1, <2>2, <2>5, <2>6, TypesKeptOfStream
          DEF StreamInv, Linked, FileHasOwner, Stream!NoEmptyAnswer, Stream!LoserHasWinner,
              Served
<1> QED BY <1>2, <1>3, <1>4

\* A client moves on, and the server stays where it is.
LEMMA CallerMoves ==
  ASSUME StreamInv, NEW c \in Callers,
         Stream!Unlink(c) \/ Stream!Caller(c) \/ Stream!KillCaller(c)
  PROVE  StreamInv'
<1>1. StreamTypes
  BY TypesOfStream DEF StreamInv
<1>2. CASE Stream!Unlink(c)
  <2>1. /\ caller[c] = "new" /\ caller' = [caller EXCEPT ![c] = "bind"] /\ file' = FALSE
        /\ UNCHANGED <<srv, backlog, link, came, answered>>
    BY <1>2 DEF Stream!Unlink, Stream!Go
  <2>2. StreamTypes'
    BY <1>1, <2>1 DEF StreamTypes, CallerPlace
  <2>3. Linked' /\ FileHasOwner' /\ Stream!LoserHasWinner'
    BY <1>1, <2>1 DEF StreamInv, StreamTypes, Linked, FileHasOwner, Stream!NoEmptyAnswer,
                      Stream!LoserHasWinner
  <2> QED BY <2>1, <2>2, <2>3, TypesKeptOfStream
          DEF StreamInv, ComeInOrder, InService, ServerPlaces
<1>3. CASE Stream!Bind(c)
  <2>1. /\ caller[c] = "bind" /\ file' = TRUE
        /\ caller' = [caller EXCEPT ![c] = IF file THEN "bind error" ELSE "connect"]
        /\ UNCHANGED <<srv, backlog, link, came, answered>>
    BY <1>3 DEF Stream!Bind, Stream!Go
  <2>2. StreamTypes'
    BY <1>1, <2>1 DEF StreamTypes, CallerPlace, Stream!Ends
  <2>3. \E d \in Callers : caller'[d] \notin {"new", "bind", "bind error"}
    <3>1. CASE file
      <4>1. PICK d \in Callers : caller[d] \notin {"new", "bind", "bind error"}
        BY <2>1, <3>1 DEF StreamInv, FileHasOwner
      <4> QED BY <1>1, <2>1, <4>1 DEF StreamTypes
    <3>2. CASE ~file
      BY <1>1, <2>1, <3>2 DEF StreamTypes
    <3> QED BY <3>1, <3>2
  <2>4. Linked'
    BY <1>1, <2>1 DEF StreamInv, StreamTypes, Linked, Stream!NoEmptyAnswer
  <2> QED BY <2>1, <2>2, <2>3, <2>4, TypesKeptOfStream
          DEF StreamInv, ComeInOrder, InService, ServerPlaces, FileHasOwner,
              Stream!LoserHasWinner
<1>4. ASSUME NEW to \in CallerPlace \ {"new", "bind", "bind error"},
             caller[c] \in {"bind", "connect", "send", "recv"},
             caller' = [caller EXCEPT ![c] = to], UNCHANGED file
      PROVE  FileHasOwner' /\ Stream!LoserHasWinner'
  BY <1>1, <1>4 DEF FileHasOwner, Stream!LoserHasWinner, StreamTypes
<1>5. CASE Stream!Connect(c)
  <2>1. /\ srv.listens /\ Len(backlog) <= Backlog
        /\ caller[c] = "connect" /\ caller' = [caller EXCEPT ![c] = "send"]
        /\ backlog' = Append(backlog, c) /\ link' = [link EXCEPT ![c] = "open"]
        /\ came' = Append(came, c) /\ UNCHANGED <<srv, file, answered>>
    BY <1>5 DEF Stream!Connect, Stream!Go
  <2>2. StreamTypes'
    <3>1. /\ backlog' \in Seq(Callers) /\ Len(backlog') <= Backlog + 1
          /\ came' \in Seq(Callers)
      BY <1>1, <2>1, StreamNumbers, AppendProperties DEF StreamTypes
    <3> QED BY <1>1, <2>1, <3>1 DEF StreamTypes, CallerPlace, Stream!Links
  <2>3. ComeInOrder'
    <3>1. srv.at # "off" /\ came = answered \o InService \o backlog
      BY <2>1 DEF StreamInv, ComeInOrder, ServerPlaces
    <3>2. InService \in Seq(Callers) /\ InService' = InService
      BY <1>1, <2>1 DEF InService, StreamTypes, StreamInv, ServerPlaces
    <3>3. Append(came, c) = answered \o InService \o Append(backlog, c)
      <4>1. answered \in Seq(Callers) /\ backlog \in Seq(Callers)
        BY <1>1 DEF StreamTypes
      <4>2. Append(answered \o InService \o backlog, c)
              = answered \o InService \o Append(backlog, c)
        BY ZenonT(30), <3>2, <4>1, ArrivalIsLast
      <4> QED BY <3>1, <4>2
    <3> QED BY <2>1, <3>1, <3>2, <3>3 DEF ComeInOrder
  <2>4. Linked'
    BY <1>1, <2>1 DEF StreamInv, StreamTypes, Linked, Stream!NoEmptyAnswer
  <2>5. FileHasOwner' /\ Stream!LoserHasWinner'
    BY <1>4, <2>1 DEF CallerPlace
  <2> QED BY <2>1, <2>2, <2>3, <2>4, <2>5, TypesKeptOfStream DEF StreamInv, ServerPlaces
<1>6. CASE Stream!Refused(c)
  <2>1. /\ caller[c] = "connect" /\ caller' = [caller EXCEPT ![c] = "refused"]
        /\ UNCHANGED <<srv, backlog, file, link, came, answered>>
    BY <1>6 DEF Stream!Refused, Stream!Go
  <2>2. StreamTypes' /\ Linked'
    BY <1>1, <2>1 DEF StreamTypes, CallerPlace, Stream!Ends, StreamInv, Linked,
                      Stream!NoEmptyAnswer
  <2>3. FileHasOwner' /\ Stream!LoserHasWinner'
    BY <1>4, <2>1 DEF CallerPlace, Stream!Ends
  <2> QED BY <2>1, <2>2, <2>3, TypesKeptOfStream
          DEF StreamInv, ComeInOrder, InService, ServerPlaces
<1>7. CASE Stream!SendLine(c)
  <2>1. /\ caller[c] = "send"
        /\ caller' = [caller EXCEPT ![c] = IF link[c] = "open" THEN "recv" ELSE "broken"]
        /\ link' = [link EXCEPT ![c] = IF @ = "open" THEN "line" ELSE @]
        /\ UNCHANGED <<srv, backlog, file, came, answered>>
    BY <1>7 DEF Stream!SendLine, Stream!Go
  <2>2. StreamTypes' /\ Linked'
    BY <1>1, <2>1 DEF StreamTypes, CallerPlace, Stream!Ends, Stream!Links, StreamInv, Linked,
                      Stream!NoEmptyAnswer
  <2>3. FileHasOwner' /\ Stream!LoserHasWinner'
    BY <1>4, <2>1 DEF CallerPlace, Stream!Ends
  <2> QED BY <2>1, <2>2, <2>3, TypesKeptOfStream
          DEF StreamInv, ComeInOrder, InService, ServerPlaces
<1>8. CASE Stream!Look(c)
  <2>1. /\ caller[c] = "recv" /\ link[c] \in {"answered", "closed", "reset"}
        /\ caller' = [caller EXCEPT ![c] = Stream!Outcome(link[c])]
        /\ UNCHANGED <<srv, backlog, file, link, came, answered>>
    BY <1>8 DEF Stream!Look, Stream!Go
  <2>2. /\ Stream!Outcome(link[c]) \in {"data", "empty", "reset"}
        /\ Stream!Outcome(link[c]) = "empty" => link[c] = "closed"
    BY <2>1 DEF Stream!Outcome
  <2>3. StreamTypes' /\ Linked'
    BY <1>1, <2>1, <2>2 DEF StreamTypes, CallerPlace, Stream!Ends, StreamInv, Linked,
                            Stream!NoEmptyAnswer
  <2>4. FileHasOwner' /\ Stream!LoserHasWinner'
    BY <1>4, <2>1, <2>2 DEF CallerPlace, Stream!Ends
  <2> QED BY <2>1, <2>3, <2>4, TypesKeptOfStream
          DEF StreamInv, ComeInOrder, InService, ServerPlaces
<1>9. CASE Stream!KillCaller(c)
  <2>1. /\ caller[c] \in {"bind", "connect", "send", "recv"}
        /\ caller' = [caller EXCEPT ![c] = "killed"]
        /\ link' = [link EXCEPT ![c] = IF @ \in {"open", "line", "read"} THEN "dead" ELSE @]
        /\ UNCHANGED <<srv, backlog, file, came, answered>>
    BY <1>9 DEF Stream!KillCaller, Stream!Busy
  <2>2. StreamTypes' /\ Linked'
    BY <1>1, <2>1 DEF StreamTypes, CallerPlace, Stream!Ends, Stream!Links, StreamInv, Linked,
                      Stream!NoEmptyAnswer
  <2>3. FileHasOwner' /\ Stream!LoserHasWinner'
    BY <1>4, <2>1 DEF CallerPlace, Stream!Ends
  <2> QED BY <2>1, <2>2, <2>3, TypesKeptOfStream
          DEF StreamInv, ComeInOrder, InService, ServerPlaces
<1> QED BY <1>2, <1>3, <1>5, <1>6, <1>7, <1>8, <1>9 DEF Stream!Caller

\* Nobody has come to the server before it starts.
LEMMA StreamBegins ==
  ASSUME Stream!Init
  PROVE  StreamInv
<1>1. /\ srv = [at |-> "off", listens |-> FALSE, client |-> Stream!Nobody, vic |-> FALSE,
                runs |-> 0, kills |-> 0]
      /\ backlog = <<>> /\ file \in BOOLEAN /\ came = <<>> /\ answered = <<>>
      /\ caller = [c \in Callers |-> "new"] /\ link = [c \in Callers |-> "none"]
  BY DEF Stream!Init
<1>2. Stream!TypeOK
  BY <1>1, StreamNumbers DEF Stream!TypeOK, Stream!Links
<1>3. ComeInOrder /\ ServerPlaces /\ Linked /\ FileHasOwner /\ Stream!LoserHasWinner
  BY <1>1 DEF ComeInOrder, ServerPlaces, Linked, FileHasOwner, Stream!LoserHasWinner,
              Stream!NoEmptyAnswer
<1> QED BY <1>2, <1>3 DEF StreamInv

\* Every step of the socket programs keeps the invariant.
LEMMA StreamStep ==
  ASSUME StreamInv, Stream!Next
  PROVE  StreamInv'
BY ServerTurns, ServerGoes, ServerServes, CallerMoves DEF Stream!Next, Stream!Server

\* A step of the token programs leaves the sockets alone.
LEMMA StreamSame ==
  ASSUME StreamInv, UNCHANGED stream
  PROVE  StreamInv'
BY DEF StreamInv, Stream!TypeOK, ComeInOrder, InService, ServerPlaces, Linked, FileHasOwner,
       Stream!NoEmptyAnswer, Stream!LoserHasWinner, stream

-----------------------------------------------------------------------------
(* The token server.                                                       *)

\* The request in the server's hands.
InHand == {"open first", "open", "send"}

\* Every request is of a client that has started, under its own name, and the
\* clients that used a name are those that have it.
NamesKept ==
  /\ server.at \in InHand <=> server.request # Nobody
  /\ server.request # Nobody => /\ server.request \in Requests
                                /\ cli[server.request.from].name = server.request.name
  /\ \A k \in DOMAIN requests : cli[requests[k].from].name = requests[k].name
  /\ \A c \in Clients : cli[c].at # "new" <=> cli[c].name # "none"
  /\ \A n \in Names, c \in Clients : c \in users[n] <=> cli[c].name = n
  /\ \A c \in lost : cli[c].at # "new"

\* Every queue was made for one name: whoever has it open has that name, and so
\* has whoever a reply in it is for.
Owned(owner) ==
  /\ \A n \in Names : queues[n] # 0 => owner[queues[n]] = n
  /\ \A c \in Clients : cli[c].at # "new" => cli[c].qd # 0 /\ owner[cli[c].qd] = cli[c].name
  /\ server.at = "send" /\ server.qd # 0 => owner[server.qd] = server.request.name
  /\ \A q \in DOMAIN boxes : \A k \in DOMAIN boxes[q] :
       boxes[q][k].to \in Clients /\ cli[boxes[q][k].to].name = owner[q]
QueuesOwned == \E owner \in [DOMAIN boxes -> Names] : Owned(owner)

\* The reply that a client has read was for a client of its name.
RepliesOwned ==
  \A c \in Clients : cli[c].reply.to # "none" =>
    cli[c].at # "new" /\ cli[cli[c].reply.to].name = cli[c].name

\* No queue is over its limit, and the descriptors of srv.c are those in use.
WithinLimits ==
  /\ \A q \in DOMAIN boxes : Len(boxes[q]) <= MaxMessages
  /\ server.at = "send" /\ server.qd # 0 => server.fds > 0
  /\ variant = "srv" => server.fds = IF server.at = "send" /\ server.qd # 0 THEN 1 ELSE 0
  /\ server.at \in {"first", "open first"} => variant = "monitor"

\* Where the request of a client, or the reply to it, can be.
Queued(c, k) == k \in DOMAIN requests /\ requests[k].from = c
Held(c)      == server.request.from = c
Boxed(c, q, k) == q \in DOMAIN boxes /\ k \in DOMAIN boxes[q] /\ boxes[q][k].to = c

NotQueued(c) == \A k \in DOMAIN requests : ~Queued(c, k)
NotBoxed(c)  == \A q \in DOMAIN boxes : \A k \in DOMAIN boxes[q] : ~Boxed(c, q, k)
Nowhere(c)   == NotQueued(c) /\ ~Held(c) /\ NotBoxed(c)
OnceQueued(c) ==
  \E k \in DOMAIN requests :
    Queued(c, k) /\ \A j \in DOMAIN requests : Queued(c, j) => j = k
OnceBoxed(c) ==
  \E q \in DOMAIN boxes : \E k \in DOMAIN boxes[q] :
    Boxed(c, q, k) /\ \A p \in DOMAIN boxes : \A j \in DOMAIN boxes[p] :
                        Boxed(c, p, j) => p = q /\ j = k
Somewhere(c) == \/ OnceQueued(c) /\ ~Held(c) /\ NotBoxed(c)
                \/ NotQueued(c) /\ Held(c) /\ NotBoxed(c)
                \/ NotQueued(c) /\ ~Held(c) /\ OnceBoxed(c)

\* A client that shares its name with nobody has one request, or one reply, in
\* one place as long as it waits, and after its death at most one; none at the
\* prompt, and none when the server gave it up.  Its queue keeps its name as
\* long as it, or its request, needs it.
RequestLife(c) ==
  cli[c].at # "new" /\ Sole(c) =>
    /\ Nowhere(c) \/ Somewhere(c)
    /\ cli[c].at = "prompt" => Nowhere(c) /\ c \notin lost
    /\ cli[c].at = "wait" /\ c \notin lost => Somewhere(c)
    /\ c \in lost => Nowhere(c)
    /\ cli[c].at \in {"prompt", "wait"} \/ Somewhere(c) => queues[cli[c].name] # 0
RequestLives == \A c \in Clients : RequestLife(c)

\* srv.c has given up nobody in its first run.
NobodyLost ==
  /\ server.runs = 0 => lost = {} /\ server.at = "off"
  /\ variant = "srv" /\ server.at = "send" /\ server.qd = 0 => ~Sole(server.request.from)
  /\ GivesUpNobody

\* The inductive invariant of the token server.
TokenInv ==
  /\ TypeOK /\ NamesKept /\ QueuesOwned /\ RepliesOwned /\ WithinLimits
  /\ RequestLives /\ NobodyLost

-----------------------------------------------------------------------------
(* A step of the token server or of one of its clients.                    *)

\* The values of the records, when n queues have been made.
ServerRecords(n) ==
  [at : {"off", "first", "open first", "receive", "open", "send"},
   request : Requests \cup {Nobody}, qd : 0..n, fds : 0..MaxDescriptors,
   token_number : Nat \ {0}, runs : 0..MaxServerRuns]
ClientRecords(n) ==
  [at : {"new", "prompt", "wait", "gone"}, name : Names \cup {"none"}, qd : 0..n,
   reply : Replies, asks : 0..MaxAsks]

TokenTypes ==
  /\ variant \in Variants /\ requests \in Seq(Requests)
  /\ boxes \in Seq(Seq(Replies)) /\ Len(boxes) \in Nat
  /\ queues \in [Names -> 0..Len(boxes)]
  /\ server \in ServerRecords(Len(boxes))
  /\ cli \in [Clients -> ClientRecords(Len(boxes))]
  /\ users \in [Names -> SUBSET Clients] /\ lost \subseteq Clients

\* What the type invariant says, with the records named.
LEMMA TypesOfToken ==
  ASSUME TypeOK
  PROVE  TokenTypes
<1>1. boxes \in Seq(Seq(Replies))
  BY DEF TypeOK
<1>2. Len(boxes) \in Nat
  BY <1>1
<1> QED BY <1>1, <1>2 DEF TypeOK, TokenTypes, ServerRecords, ClientRecords

\* ... and the other way round, after a step.
LEMMA TypesKeptOfToken ==
  ASSUME TokenTypes'
  PROVE  TypeOK'
BY DEF TypeOK, TokenTypes, ServerRecords, ClientRecords

\* The sizes of the queues, and that nobody is neither a client nor a name.
LEMMA TokenNumbers ==
  /\ MaxMessages \in Nat /\ MaxMessages > 0 /\ MaxDescriptors \in Nat /\ MaxDescriptors > 2
  /\ MaxAsks \in Nat /\ MaxServerRuns \in Nat
  /\ "none" \notin Names /\ "none" \notin Clients
  /\ Nobody \notin Requests /\ Nobody.from \notin Clients
BY SizesAssumption, BoundsAssumption, NamesAssumption DEF Nobody, Requests

\* Each record, field by field.
LEMMA FieldsOfToken ==
  ASSUME TokenTypes
  PROVE  /\ server.at \in {"off", "first", "open first", "receive", "open", "send"}
         /\ server.request \in Requests \cup {Nobody} /\ server.qd \in 0..Len(boxes)
         /\ server.fds \in 0..MaxDescriptors /\ server.token_number \in Nat \ {0}
         /\ server.runs \in 0..MaxServerRuns
         /\ \A c \in Clients : /\ cli[c].at \in {"new", "prompt", "wait", "gone"}
                               /\ cli[c].name \in Names \cup {"none"}
                               /\ cli[c].qd \in 0..Len(boxes) /\ cli[c].reply \in Replies
                               /\ cli[c].asks \in 0..MaxAsks
         /\ \A q \in 1..Len(boxes) : boxes[q] \in Seq(Replies)
         /\ \A k \in 1..Len(requests) : requests[k] \in Requests
<1>1. /\ server.at \in {"off", "first", "open first", "receive", "open", "send"}
      /\ server.request \in Requests \cup {Nobody} /\ server.qd \in 0..Len(boxes)
      /\ server.fds \in 0..MaxDescriptors /\ server.token_number \in Nat \ {0}
      /\ server.runs \in 0..MaxServerRuns
  BY DEF TokenTypes, ServerRecords
<1>2. ASSUME NEW c \in Clients
      PROVE  /\ cli[c].at \in {"new", "prompt", "wait", "gone"}
             /\ cli[c].name \in Names \cup {"none"}
             /\ cli[c].qd \in 0..Len(boxes) /\ cli[c].reply \in Replies
             /\ cli[c].asks \in 0..MaxAsks
  <2>1. cli[c] \in ClientRecords(Len(boxes))
    BY DEF TokenTypes
  <2> QED BY <2>1 DEF ClientRecords
<1>3. \A q \in 1..Len(boxes) : boxes[q] \in Seq(Replies)
  BY ElementOfSeq DEF TokenTypes
<1>4. \A k \in 1..Len(requests) : requests[k] \in Requests
  BY ElementOfSeq DEF TokenTypes
<1> QED BY <1>1, <1>2, <1>3, <1>4

\* The server alone takes a step, with its counter as it is.
ServerAt(at, request, qd, fds) ==
  server' = [at |-> at, request |-> request, qd |-> qd, fds |-> fds,
             token_number |-> server.token_number, runs |-> server.runs]

\* As long as no request changes hands, nothing changes for the clients.
LEMMA LivesSame ==
  ASSUME RequestLives, server'.request = server.request,
         UNCHANGED <<requests, queues, boxes, cli, users, lost>>
  PROVE  RequestLives'
BY DEF RequestLives, RequestLife, Sole, Nowhere, Somewhere, NotQueued, NotBoxed, OnceQueued,
       OnceBoxed, Queued, Held, Boxed

\* The server starts: it has no request in its hands, and gave up nobody.
LEMMA TokenServerStarts ==
  ASSUME TokenInv, StartServer
  PROVE  TokenInv'
<1>1. TokenTypes
  BY TypesOfToken DEF TokenInv
<1>2. /\ server.at = "off" /\ server.runs < MaxServerRuns
      /\ server' = [at |-> IF variant = "monitor" THEN "first" ELSE "receive",
                    request |-> Nobody, qd |-> 0, fds |-> 0,
                    token_number |-> 1, runs |-> server.runs + 1]
      /\ UNCHANGED <<variant, requests, queues, boxes, cli, users, lost>>
  BY DEF StartServer
<1>3. TokenTypes'
  <2>1. server.runs + 1 \in 0..MaxServerRuns /\ 0 \in 0..Len(boxes) /\ 0 \in 0..MaxDescriptors
    BY <1>1, <1>2, TokenNumbers, FieldsOfToken DEF TokenTypes
  <2>2. server' \in ServerRecords(Len(boxes))
    BY <1>2, <2>1 DEF ServerRecords
  <2> QED BY <1>1, <1>2, <2>2 DEF TokenTypes
<1>4. server.request = Nobody
  BY <1>2 DEF TokenInv, NamesKept, InHand
<1>5. NamesKept' /\ RepliesOwned'
  BY <1>2 DEF TokenInv, NamesKept, InHand, RepliesOwned
<1>6. QueuesOwned'
  BY <1>2 DEF TokenInv, QueuesOwned, Owned
<1>7. WithinLimits'
  BY <1>2 DEF TokenInv, WithinLimits
<1>8. RequestLives'
  BY <1>2, <1>4, LivesSame DEF TokenInv
<1>9. NobodyLost'
  BY <1>1, <1>2, FieldsOfToken DEF TokenInv, NobodyLost, GivesUpNobody, Sole
<1> QED BY <1>3, <1>5, <1>6, <1>7, <1>8, <1>9, TypesKeptOfToken DEF TokenInv

\* The replies for a client, without their bounds.
LEMMA BoxesOf ==
  ASSUME NEW c
  PROVE  /\ NotBoxed(c) <=> \A q, k : ~Boxed(c, q, k)
         /\ OnceBoxed(c) <=> \E q, k : /\ Boxed(c, q, k)
                                       /\ \A p, j : Boxed(c, p, j) => p = q /\ j = k
BY DEF NotBoxed, OnceBoxed, Boxed

\* ... after a step.
LEMMA BoxesOfNext ==
  ASSUME NEW c
  PROVE  /\ NotBoxed(c)' <=> \A q, k : ~Boxed(c, q, k)'
         /\ OnceBoxed(c)' <=> \E q, k : /\ Boxed(c, q, k)'
                                        /\ \A p, j : Boxed(c, p, j)' => p = q /\ j = k
BY DEF NotBoxed, OnceBoxed, Boxed

\* As long as no reply is added or taken, every reply is where it was.
LEMMA RepliesStay ==
  ASSUME UNCHANGED boxes, NEW c
  PROVE  (NotBoxed(c)' <=> NotBoxed(c)) /\ (OnceBoxed(c)' <=> OnceBoxed(c))
<1>1. \A q, k : Boxed(c, q, k)' <=> Boxed(c, q, k)
  BY DEF Boxed
<1>2. NotBoxed(c)' <=> NotBoxed(c)
  BY <1>1 DEF NotBoxed
<1>3. OnceBoxed(c)' <=> OnceBoxed(c)
  BY <1>1 DEF OnceBoxed
<1> QED BY <1>2, <1>3

\* As long as none is sent or received, so is every request.
LEMMA RequestsStay ==
  ASSUME UNCHANGED requests, NEW c
  PROVE  (NotQueued(c)' <=> NotQueued(c)) /\ (OnceQueued(c)' <=> OnceQueued(c))
<1>1. \A k : Queued(c, k)' <=> Queued(c, k)
  BY DEF Queued
<1>2. NotQueued(c)' <=> NotQueued(c)
  BY <1>1 DEF NotQueued
<1>3. OnceQueued(c)' <=> OnceQueued(c)
  BY <1>1 DEF OnceQueued
<1> QED BY <1>2, <1>3

\* A request or reply is somewhere or nowhere, and not both.
LEMMA NowhereOrSomewhere ==
  ASSUME NEW c
  PROVE  /\ ~(Nowhere(c) /\ Somewhere(c)) /\ ~(Nowhere(c)' /\ Somewhere(c)')
         /\ ~(NotQueued(c) /\ OnceQueued(c)) /\ ~(NotBoxed(c) /\ OnceBoxed(c))
BY DEF Nowhere, Somewhere, NotQueued, OnceQueued, NotBoxed, OnceBoxed

\* The next request comes into the server's hands.
LEMMA RequestTaken ==
  ASSUME TokenInv, ReceiveRequest
  PROVE  TokenInv'
<1>1. TokenTypes
  BY TypesOfToken DEF TokenInv
<1>2. /\ server.at \in {"first", "receive"} /\ requests # <<>>
      /\ ServerAt(IF server.at = "first" THEN "open first" ELSE "open",
                  Head(requests), server.qd, server.fds)
      /\ requests' = Tail(requests)
      /\ UNCHANGED <<variant, queues, boxes, cli, users, lost>>
  BY <1>1 DEF ReceiveRequest, ServerAt, TokenTypes, ServerRecords
<1>3. /\ Head(requests) = requests[1] /\ requests[1] \in Requests
      /\ Len(requests) \in Nat /\ Len(requests) > 0 /\ DOMAIN requests = 1..Len(requests)
      /\ requests' \in Seq(Requests) /\ Len(requests') = Len(requests) - 1
      /\ DOMAIN requests' = 1..Len(requests) - 1
      /\ \A k \in 1..Len(requests) - 1 : requests'[k] = requests[k + 1]
  <2>1. requests \in Seq(Requests) /\ requests # <<>> /\ requests' = Tail(requests)
    BY <1>1, <1>2 DEF TokenTypes
  <2>2. Len(requests) \in Nat /\ Len(requests) > 0 /\ DOMAIN requests = 1..Len(requests)
    BY <2>1
  <2>3. Head(requests) = requests[1] /\ requests[1] \in Requests
    BY <2>1, <2>2
  <2>4. requests' \in Seq(Requests) /\ Len(requests') = Len(requests) - 1
    BY <2>1
  <2>5. DOMAIN requests' = 1..Len(requests) - 1
    BY <2>4
  <2>6. \A k \in 1..Len(requests) - 1 : requests'[k] = requests[k + 1]
    BY <2>1, <2>2
  <2> QED BY <2>2, <2>3, <2>4, <2>5, <2>6
<1>4. /\ server'.at \in {"open first", "open"} /\ server'.request = requests[1]
      /\ server'.qd = server.qd /\ server'.fds = server.fds /\ server'.runs = server.runs
      /\ server.at = "first" <=> server'.at = "open first"
  BY <1>2, <1>3 DEF ServerAt
<1>5. TokenTypes'
  <2>1. server' \in ServerRecords(Len(boxes))
    BY <1>1, <1>2, <1>3, FieldsOfToken DEF ServerRecords, ServerAt
  <2> QED BY <1>1, <1>2, <1>3, <2>1 DEF TokenTypes
<1>6. NamesKept'
  <2>1. server.request = Nobody
    BY <1>2 DEF TokenInv, NamesKept, InHand
  <2>2. server'.at \in InHand /\ server'.request # Nobody
    BY <1>3, <1>4, TokenNumbers DEF InHand
  <2>3. cli[requests[1].from].name = requests[1].name
    BY <1>3 DEF TokenInv, NamesKept
  <2>4. \A k \in DOMAIN requests' : cli[requests'[k].from].name = requests'[k].name
    BY <1>3 DEF TokenInv, NamesKept
  <2> QED BY <1>2, <1>3, <1>4, <2>2, <2>3, <2>4 DEF TokenInv, NamesKept
<1>7. QueuesOwned' /\ RepliesOwned' /\ WithinLimits'
  BY <1>2, <1>4 DEF TokenInv, QueuesOwned, Owned, RepliesOwned, WithinLimits
<1>8. ASSUME NEW c \in Clients
      PROVE  RequestLife(c)'
  <2>1. \A k \in DOMAIN requests' : Queued(c, k)' <=> Queued(c, k + 1)
    BY <1>3 DEF Queued
  <2>2. \A k \in DOMAIN requests : k # 1 => k - 1 \in DOMAIN requests' /\ (k - 1) + 1 = k
    BY <1>3
  <2>3. ~Held(c)
    BY ZenonT(30), <1>2, TokenNumbers DEF TokenInv, NamesKept, InHand, Held
  <2>4. Held(c)' <=> Queued(c, 1)
    <3>1. 1 \in DOMAIN requests
      BY <1>3
    <3> QED BY <1>4, <3>1 DEF Held, Queued
  <2>5. (NotBoxed(c)' <=> NotBoxed(c)) /\ (OnceBoxed(c)' <=> OnceBoxed(c))
    BY <1>2, RepliesStay
  <2>6. NotQueued(c) => NotQueued(c)' /\ ~Held(c)'
    BY <1>3, <2>1, <2>4 DEF NotQueued
  <2>7. OnceQueued(c) => \/ OnceQueued(c)' /\ ~Held(c)'
                         \/ NotQueued(c)' /\ Held(c)'
    <3>1. ASSUME NEW k \in DOMAIN requests, Queued(c, k),
                 \A j \in DOMAIN requests : Queued(c, j) => j = k
          PROVE  \/ OnceQueued(c)' /\ ~Held(c)'
                 \/ NotQueued(c)' /\ Held(c)'
      <4>1. CASE k = 1
        BY <1>3, <2>1, <2>4, <3>1, <4>1 DEF NotQueued
      <4>2. CASE k # 1
        <5>1. k - 1 \in DOMAIN requests' /\ Queued(c, k - 1)'
          BY <2>1, <2>2, <3>1, <4>2
        <5>2. \A j \in DOMAIN requests' : Queued(c, j)' => j = k - 1
          BY <1>3, <2>1, <3>1
        <5>3. ~Held(c)'
          BY <1>3, <2>4, <3>1, <4>2
        <5> QED BY <5>1, <5>2, <5>3 DEF OnceQueued
      <4> QED BY <4>1, <4>2
    <3> QED BY <3>1 DEF OnceQueued
  <2>8. (Nowhere(c) => Nowhere(c)') /\ (Somewhere(c) => Somewhere(c)')
    BY <2>3, <2>5, <2>6, <2>7 DEF Nowhere, Somewhere
  <2>9. RequestLife(c) /\ UNCHANGED <<cli, users, queues, lost>>
    BY <1>2 DEF TokenInv, RequestLives
  <2> QED BY <2>8, <2>9, NowhereOrSomewhere DEF RequestLife, Sole
<1>9. NobodyLost'
  BY <1>2, <1>4 DEF TokenInv, NobodyLost, GivesUpNobody, Sole
<1> QED BY <1>5, <1>6, <1>7, <1>8, <1>9, TypesKeptOfToken DEF TokenInv, RequestLives

\* The server opens the queue of a client, or fails to: srv.c only when nobody
\* needs that queue any more, as it has no other one open.
LEMMA ClientOpened ==
  ASSUME TokenInv, OpenClient
  PROVE  TokenInv'
<1>1. TokenTypes
  BY TypesOfToken DEF TokenInv
<1>2. /\ server.at = "open"
      /\ ServerAt("send", server.request, Opened,
                  IF Opened = 0 THEN server.fds ELSE server.fds + 1)
      /\ UNCHANGED <<variant, requests, queues, boxes, cli, users, lost>>
  BY <1>1 DEF OpenClient, ServerAt, TokenTypes, ServerRecords
<1>3. /\ server.request \in Requests /\ server.request # Nobody
      /\ server.request.from \in Clients /\ server.request.name \in Names
      /\ cli[server.request.from].name = server.request.name
      /\ cli[server.request.from].at # "new"
  <2>1. server.request # Nobody /\ server.request \in Requests
    BY <1>2 DEF TokenInv, NamesKept, InHand
  <2>2. server.request.from \in Clients /\ server.request.name \in Names
    BY <2>1 DEF Requests
  <2> QED BY <2>1, <2>2, TokenNumbers DEF TokenInv, NamesKept
<1>4. /\ Opened \in 0..Len(boxes)
      /\ Opened # 0 => Opened = queues[server.request.name] /\ server.fds < MaxDescriptors
      /\ server.fds < MaxDescriptors => Opened = queues[server.request.name]
  BY <1>1, <1>3 DEF Opened, TokenTypes
<1>5. /\ server'.at = "send" /\ server'.request = server.request /\ server'.qd = Opened
      /\ server'.fds = (IF Opened = 0 THEN server.fds ELSE server.fds + 1)
      /\ server'.runs = server.runs
  BY <1>2 DEF ServerAt
<1>6. TokenTypes'
  <2>1. (IF Opened = 0 THEN server.fds ELSE server.fds + 1) \in 0..MaxDescriptors
    <3>1. server.fds \in 0..MaxDescriptors /\ MaxDescriptors \in Nat
      BY <1>1, FieldsOfToken, TokenNumbers
    <3>2. CASE Opened = 0
      BY <3>1, <3>2
    <3>3. CASE Opened # 0
      BY <1>4, <3>1, <3>3
    <3> QED BY <3>2, <3>3
  <2>2. server' \in ServerRecords(Len(boxes))
    BY <1>1, <1>2, <1>4, <2>1, FieldsOfToken DEF ServerRecords, ServerAt
  <2> QED BY <1>1, <1>2, <2>2 DEF TokenTypes
<1>7. NamesKept' /\ RepliesOwned'
  BY <1>2, <1>5 DEF TokenInv, NamesKept, InHand, RepliesOwned
<1>8. QueuesOwned'
  BY <1>2, <1>3, <1>4, <1>5 DEF TokenInv, QueuesOwned, Owned
<1>9. WithinLimits'
  BY <1>1, <1>2, <1>4, <1>5, FieldsOfToken DEF TokenInv, WithinLimits
<1>10. RequestLives'
  BY <1>2, <1>5, LivesSame DEF TokenInv
<1>11. variant = "srv" /\ Opened = 0 => ~Sole(server.request.from)
  <2>1. SUFFICES ASSUME variant = "srv", Opened = 0, Sole(server.request.from)
                 PROVE  FALSE
    OBVIOUS
  <2>2. queues[server.request.name] = 0
    BY <1>2, <1>4, <2>1, TokenNumbers DEF TokenInv, WithinLimits
  <2>3. RequestLife(server.request.from) /\ Held(server.request.from)
    BY <1>3 DEF TokenInv, RequestLives, Held
  <2> QED BY <1>3, <2>1, <2>2, <2>3 DEF RequestLife, Nowhere
<1>12. NobodyLost'
  BY <1>2, <1>5, <1>11 DEF TokenInv, NobodyLost, GivesUpNobody, Sole
<1> QED BY <1>6, <1>7, <1>8, <1>9, <1>10, <1>12, TypesKeptOfToken DEF TokenInv

\* The server puts a request down without a reply, and keeps count of that: its
\* name was not to be opened, it was the first message, or the server is killed.
LEMMA RequestDropped ==
  ASSUME TokenInv, server'.request = Nobody,
         lost' = lost \cup ({server.request.from} \ {"none"}),
         UNCHANGED <<requests, queues, boxes, cli, users>>
  PROVE  RequestLives'
<1>1. SUFFICES ASSUME NEW c \in Clients
               PROVE  RequestLife(c)'
  BY DEF RequestLives
<1>2. ~Held(c)'
  BY TokenNumbers DEF Held
<1>3. c \in lost' <=> c \in lost \/ Held(c)
  BY TokenNumbers DEF Held
<1>4. /\ (NotQueued(c)' <=> NotQueued(c)) /\ (OnceQueued(c)' <=> OnceQueued(c))
      /\ (NotBoxed(c)' <=> NotBoxed(c)) /\ (OnceBoxed(c)' <=> OnceBoxed(c))
  BY RepliesStay, RequestsStay
<1>5. /\ Nowhere(c) => Nowhere(c)'
      /\ Somewhere(c) /\ Held(c) => Nowhere(c)'
      /\ Somewhere(c) /\ ~Held(c) => Somewhere(c)'
  BY <1>2, <1>4 DEF Nowhere, Somewhere
<1>6. RequestLife(c)
  BY DEF TokenInv, RequestLives
<1>7. Nowhere(c) => ~Held(c)
  BY DEF Nowhere
<1> QED BY <1>3, <1>5, <1>6, <1>7, NowhereOrSomewhere DEF RequestLife, Sole

\* OpenFirst, SendFails and KillServer, each of which puts the request down.
LEMMA ServerGivesUp ==
  ASSUME TokenInv, OpenFirst \/ SendFails \/ KillServer
  PROVE  TokenInv'
<1>1. TokenTypes
  BY TypesOfToken DEF TokenInv
<1> DEFINE Cases ==
      \/ server.at = "open first" /\ server'.at = "receive" /\ variant # "srv"
      \/ /\ server.at = "send" /\ server.qd = 0 /\ server'.at = "receive" /\ server'.qd = 0
         /\ server'.fds = server.fds
      \/ server'.at = "off" /\ server'.qd = 0 /\ server'.fds = 0
<1>2. /\ server.at # "off"
      /\ server' \in ServerRecords(Len(boxes))
      /\ server'.request = Nobody /\ server'.runs = server.runs
      /\ server'.at \in {"receive", "off"}
      /\ UNCHANGED <<variant, requests, queues, boxes, cli, users>>
      /\ lost' = lost \cup ({server.request.from} \ {"none"}) /\ Cases
  <2>1. CASE OpenFirst
    <3>1. server.request \in Requests /\ server.at = "open first" /\ variant = "monitor"
      BY <2>1 DEF OpenFirst, TokenInv, NamesKept, InHand, WithinLimits
    <3>2. server.request.name \in Names /\ server.request.from \in Clients
      BY <3>1 DEF Requests
    <3>3. Opened \in 0..Len(boxes) /\ (Opened # 0 => server.fds < MaxDescriptors)
      BY <1>1, <3>2 DEF Opened, TokenTypes
    <3>4. server.fds \in 0..MaxDescriptors /\ MaxDescriptors \in Nat
      BY <1>1, FieldsOfToken, TokenNumbers
    <3>5. (IF Opened = 0 THEN server.fds ELSE server.fds + 1) \in 0..MaxDescriptors
      <4>1. CASE Opened = 0
        BY <3>4, <4>1
      <4>2. CASE Opened # 0
        BY <3>3, <3>4, <4>2
      <4> QED BY <4>1, <4>2
    <3>6. /\ ServerAt("receive", Nobody, Opened,
                      IF Opened = 0 THEN server.fds ELSE server.fds + 1)
          /\ UNCHANGED <<variant, requests, queues, boxes, cli, users>>
          /\ lost' = lost \cup {server.request.from}
      BY <1>1, <2>1 DEF OpenFirst, ServerAt, TokenTypes, ServerRecords
    <3>7. lost' = lost \cup ({server.request.from} \ {"none"})
      BY <3>2, <3>6, TokenNumbers
    <3>8. server' \in ServerRecords(Len(boxes))
      BY <1>1, <3>3, <3>5, <3>6, FieldsOfToken DEF ServerRecords, ServerAt
    <3> QED BY <3>1, <3>6, <3>7, <3>8 DEF ServerAt
  <2>2. CASE SendFails
    <3>1. server.request \in Requests /\ server.at = "send" /\ server.qd = 0
      BY <2>2 DEF SendFails, TokenInv, NamesKept, InHand
    <3>2. server.request.from \in Clients
      BY <3>1 DEF Requests
    <3>3. /\ ServerAt("receive", Nobody, 0, server.fds)
          /\ UNCHANGED <<variant, requests, queues, boxes, cli, users>>
          /\ lost' = lost \cup {server.request.from}
      BY <1>1, <2>2, <3>1 DEF SendFails, ServerAt, TokenTypes, ServerRecords
    <3>4. lost' = lost \cup ({server.request.from} \ {"none"})
      BY <3>2, <3>3, TokenNumbers
    <3>5. server.qd \in 0..Len(boxes)
      BY <1>1, FieldsOfToken
    <3>6. server' \in ServerRecords(Len(boxes))
      BY <1>1, <3>1, <3>3, <3>5, FieldsOfToken DEF ServerRecords, ServerAt
    <3> QED BY <3>1, <3>3, <3>4, <3>6 DEF ServerAt
  <2>3. CASE KillServer
    <3>1. /\ server.at # "off" /\ ServerAt("off", Nobody, 0, 0)
          /\ UNCHANGED <<variant, requests, queues, boxes, cli, users>>
          /\ lost' = lost \cup ({server.request.from} \ {"none"})
      BY <1>1, <2>3 DEF KillServer, ServerAt, TokenTypes, ServerRecords
    <3>2. 0 \in 0..MaxDescriptors /\ 0 \in 0..Len(boxes)
      BY <1>1, TokenNumbers DEF TokenTypes
    <3>3. server' \in ServerRecords(Len(boxes))
      BY <1>1, <3>1, <3>2, FieldsOfToken DEF ServerRecords, ServerAt
    <3> QED BY <3>1, <3>3 DEF ServerAt
  <2> QED BY <2>1, <2>2, <2>3
<1>4. lost' \subseteq Clients
  <2>1. server.request \in Requests \cup {Nobody}
    BY <1>1, FieldsOfToken
  <2>2. server.request.from \in Clients \cup {"none"}
    BY <2>1 DEF Requests, Nobody
  <2> QED BY <1>1, <1>2, <2>2 DEF TokenTypes
<1>5. TokenTypes'
  BY <1>1, <1>2, <1>4 DEF TokenTypes
<1>6. \A c \in lost' : cli[c].at # "new"
  <2>1. ASSUME NEW c \in lost', c \notin lost
        PROVE  cli[c].at # "new"
    <3>1. c = server.request.from /\ c # "none"
      BY <1>2, <2>1
    <3>2. server.request \in Requests
      <4>1. server.request # Nobody
        BY <3>1 DEF Nobody
      <4> QED BY <1>1, <4>1, FieldsOfToken
    <3>3. c \in Clients /\ cli[c].name = server.request.name /\ server.request.name \in Names
      BY <3>1, <3>2, TokenNumbers DEF TokenInv, NamesKept, Requests
    <3> QED BY <3>3, TokenNumbers DEF TokenInv, NamesKept
  <2> QED BY <2>1 DEF TokenInv, NamesKept
<1>7. NamesKept' /\ RepliesOwned'
  BY <1>2, <1>6 DEF TokenInv, NamesKept, InHand, RepliesOwned
<1>8. QueuesOwned'
  BY <1>2 DEF TokenInv, QueuesOwned, Owned
<1>9. WithinLimits'
  BY <1>2 DEF TokenInv, WithinLimits
<1>10. RequestLives'
  BY <1>2, RequestDropped
<1>11. NobodyLost'
  <2>1. server.runs # 0
    BY <1>2 DEF TokenInv, NobodyLost
  <2>2. ASSUME variant = "srv", server.runs = 1, server'.at # "off", NEW c \in lost'
        PROVE  ~Sole(c)
    <3>1. server.at = "send" /\ server.qd = 0
      BY <1>2, <2>2
    <3>2. c \in lost \/ c = server.request.from
      BY <1>2
    <3> QED BY <2>2, <3>1, <3>2 DEF TokenInv, NobodyLost, GivesUpNobody
  <2> QED BY <1>2, <2>1, <2>2 DEF NobodyLost, GivesUpNobody, Sole
<1> QED BY <1>5, <1>7, <1>8, <1>9, <1>10, <1>11, TypesKeptOfToken DEF TokenInv

\* One queue of a client changes, the others do not.
LEMMA OneBoxChanges ==
  ASSUME TokenTypes, NEW q \in 1..Len(boxes), NEW b \in Seq(Replies),
         boxes' = [boxes EXCEPT ![q] = b]
  PROVE  /\ boxes' \in Seq(Seq(Replies)) /\ Len(boxes') = Len(boxes) /\ Len(boxes) \in Nat
         /\ DOMAIN boxes = 1..Len(boxes) /\ DOMAIN boxes' = 1..Len(boxes)
         /\ boxes'[q] = b /\ \A p \in 1..Len(boxes) : p # q => boxes'[p] = boxes[p]
<1>1. boxes \in Seq(Seq(Replies)) /\ Len(boxes) \in Nat
  BY DEF TokenTypes
<1>2. /\ boxes' \in Seq(Seq(Replies)) /\ Len(boxes') = Len(boxes)
      /\ \A p \in 1..Len(boxes) : boxes'[p] = IF p = q THEN b ELSE boxes[p]
  BY <1>1, ExceptSeq
<1>3. DOMAIN boxes = 1..Len(boxes) /\ DOMAIN boxes' = 1..Len(boxes)
  BY <1>1, <1>2
<1> QED BY <1>1, <1>2, <1>3

\* The token goes into the queue that was opened for the request, which becomes
\* a reply there.
LEMMA TokenSent ==
  ASSUME TokenInv, SendToken
  PROVE  TokenInv'
<1> DEFINE q0  == server.qd
           c0  == server.request.from
           msg == [token |-> server.token_number, to |-> c0]
           b   == Append(boxes[q0], msg)
<1>1. TokenTypes
  BY TypesOfToken DEF TokenInv
<1>2. /\ server.at = "send" /\ q0 # 0 /\ Len(boxes[q0]) < MaxMessages
      /\ boxes' = [boxes EXCEPT ![q0] = b]
      /\ server' = [at |-> "receive", request |-> Nobody, qd |-> q0,
                    fds |-> IF Closed THEN server.fds - 1 ELSE server.fds,
                    token_number |-> server.token_number + 1, runs |-> server.runs]
      /\ UNCHANGED <<variant, requests, queues, cli, users, lost>>
  BY <1>1 DEF SendToken, TokenTypes, ServerRecords
<1>3. /\ server'.at = "receive" /\ server'.request = Nobody /\ server'.qd = q0
      /\ server'.fds = (IF Closed THEN server.fds - 1 ELSE server.fds)
      /\ server'.runs = server.runs
  BY <1>2
<1>4. /\ server.request \in Requests /\ c0 \in Clients /\ q0 \in 1..Len(boxes)
      /\ cli[c0].name = server.request.name
  <2>1. server.request \in Requests /\ cli[c0].name = server.request.name
    BY <1>2 DEF TokenInv, NamesKept, InHand
  <2>2. q0 \in 0..Len(boxes) /\ Len(boxes) \in Nat
    BY <1>1, FieldsOfToken DEF TokenTypes
  <2> QED BY <1>2, <2>1, <2>2 DEF Requests
<1>5. /\ boxes[q0] \in Seq(Replies) /\ msg \in Replies /\ b \in Seq(Replies)
      /\ Len(boxes[q0]) \in Nat /\ DOMAIN boxes[q0] = 1..Len(boxes[q0])
      /\ Len(b) = Len(boxes[q0]) + 1 /\ DOMAIN b = 1..Len(boxes[q0]) + 1
      /\ \A k \in 1..Len(boxes[q0]) : b[k] = boxes[q0][k]
      /\ b[Len(boxes[q0]) + 1] = msg /\ msg.to = c0
  <2>1. boxes[q0] \in Seq(Replies) /\ server.token_number \in Nat
    BY <1>1, <1>4, FieldsOfToken
  <2>2. msg \in Replies /\ msg.to = c0
    BY <1>4, <2>1 DEF Replies
  <2> HIDE DEF msg
  <2> QED BY <2>1, <2>2, AppendProperties
<1> HIDE DEF msg, b
<1>6. /\ boxes' \in Seq(Seq(Replies)) /\ Len(boxes') = Len(boxes) /\ Len(boxes) \in Nat
      /\ DOMAIN boxes = 1..Len(boxes) /\ DOMAIN boxes' = 1..Len(boxes)
      /\ boxes'[q0] = b /\ \A p \in 1..Len(boxes) : p # q0 => boxes'[p] = boxes[p]
  BY <1>1, <1>2, <1>4, <1>5, OneBoxChanges
<1>7. TokenTypes'
  <2>1. (IF Closed THEN server.fds - 1 ELSE server.fds) \in 0..MaxDescriptors
    <3>1. server.fds > 0 /\ server.fds \in 0..MaxDescriptors /\ MaxDescriptors \in Nat
      BY <1>1, <1>2, FieldsOfToken, TokenNumbers DEF TokenInv, WithinLimits
    <3> QED BY <3>1
  <2>2. /\ server.token_number + 1 \in Nat \ {0} /\ server.runs \in 0..MaxServerRuns
        /\ q0 \in 0..Len(boxes)
    <3>1. /\ server.token_number \in Nat \ {0} /\ server.runs \in 0..MaxServerRuns
          /\ q0 \in 0..Len(boxes)
      BY <1>1, FieldsOfToken
    <3> QED BY <3>1
  <2>3. server' \in ServerRecords(Len(boxes))
    BY <1>2, <2>1, <2>2 DEF ServerRecords
  <2> QED BY <1>1, <1>2, <1>6, <2>3 DEF TokenTypes
<1>8. NamesKept' /\ RepliesOwned'
  BY <1>2, <1>3 DEF TokenInv, NamesKept, InHand, RepliesOwned
<1>9. QueuesOwned'
  <2>1. PICK owner \in [DOMAIN boxes -> Names] : Owned(owner)
    BY DEF TokenInv, QueuesOwned
  <2>2. owner[q0] = server.request.name
    BY <1>2, <2>1 DEF Owned
  <2>3. ASSUME NEW q \in DOMAIN boxes', NEW k \in DOMAIN boxes'[q]
        PROVE  boxes'[q][k].to \in Clients /\ cli[boxes'[q][k].to].name = owner[q]
    <3>1. CASE q = q0 /\ k = Len(boxes[q0]) + 1
      BY <1>4, <1>5, <1>6, <2>2, <3>1
    <3>2. CASE q = q0 /\ k # Len(boxes[q0]) + 1
      <4>1. k \in DOMAIN boxes[q0] /\ boxes'[q][k] = boxes[q0][k]
        <5>1. boxes'[q] = b /\ k \in DOMAIN b
          BY <1>6, <2>3, <3>2
        <5>2. k \in 1..Len(boxes[q0])
          BY <1>5, <3>2, <5>1
        <5> QED BY <1>5, <5>1, <5>2
      <4> QED BY <1>4, <1>6, <2>1, <3>2, <4>1 DEF Owned
    <3>3. CASE q # q0
      BY <1>6, <2>1, <2>3, <3>3 DEF Owned
    <3> QED BY <3>1, <3>2, <3>3
  <2>4. Owned(owner)'
    BY <1>2, <1>3, <2>1, <2>3 DEF Owned
  <2> QED BY <1>6, <2>1, <2>4 DEF QueuesOwned
<1>10. WithinLimits'
  <2>1. \A q \in DOMAIN boxes' : Len(boxes'[q]) <= MaxMessages
    BY <1>2, <1>5, <1>6, TokenNumbers DEF TokenInv, WithinLimits
  <2>2. variant = "srv" => server'.fds = 0
    BY <1>2, <1>3 DEF TokenInv, WithinLimits, Closed
  <2> QED BY <1>2, <1>3, <2>1, <2>2 DEF TokenInv, WithinLimits
<1>11. ASSUME NEW c \in Clients
       PROVE  RequestLife(c)'
  <2>1. \A q, k : Boxed(c, q, k)' <=> \/ Boxed(c, q, k)
                                      \/ c = c0 /\ q = q0 /\ k = Len(boxes[q0]) + 1
    <3>1. SUFFICES ASSUME NEW q, NEW k
                   PROVE  Boxed(c, q, k)' <=> \/ Boxed(c, q, k)
                                              \/ c = c0 /\ q = q0 /\ k = Len(boxes[q0]) + 1
      OBVIOUS
    <3>2. CASE q = q0
      <4>1. Boxed(c, q, k)' <=> k \in 1..Len(boxes[q0]) + 1 /\ b[k].to = c
        BY <1>4, <1>5, <1>6, <3>2 DEF Boxed
      <4>2. Boxed(c, q, k) <=> k \in 1..Len(boxes[q0]) /\ boxes[q0][k].to = c
        BY <1>4, <1>5, <1>6, <3>2 DEF Boxed
      <4>3. k \in 1..Len(boxes[q0]) + 1 <=> k \in 1..Len(boxes[q0]) \/ k = Len(boxes[q0]) + 1
        BY <1>5
      <4>4. Len(boxes[q0]) + 1 \notin 1..Len(boxes[q0])
        BY <1>5
      <4> QED BY <1>5, <3>2, <4>1, <4>2, <4>3, <4>4
    <3>3. CASE q # q0
      BY <1>6, <3>3 DEF Boxed
    <3> QED BY <3>2, <3>3
  <2>2. Held(c) <=> c = c0
    BY DEF Held
  <2>3. ~Held(c)'
    BY <1>3, TokenNumbers DEF Held
  <2>4. (NotQueued(c)' <=> NotQueued(c)) /\ (OnceQueued(c)' <=> OnceQueued(c))
    BY <1>2, RequestsStay
  <2>5. RequestLife(c) /\ UNCHANGED <<cli, users, queues, lost>>
    BY <1>2 DEF TokenInv, RequestLives
  <2>6. CASE c # c0
    <3>1. \A q, k : Boxed(c, q, k)' <=> Boxed(c, q, k)
      BY <2>1, <2>6
    <3>2. (NotBoxed(c)' <=> NotBoxed(c)) /\ (OnceBoxed(c)' <=> OnceBoxed(c))
      BY <3>1, BoxesOf, BoxesOfNext
    <3>3. (Nowhere(c)' <=> Nowhere(c)) /\ (Somewhere(c)' <=> Somewhere(c))
      BY <2>2, <2>3, <2>4, <2>6, <3>2 DEF Nowhere, Somewhere
    <3> QED BY <2>5, <3>3 DEF RequestLife, Sole
  <2>7. CASE c = c0
    <3>1. NotBoxed(c) => OnceBoxed(c)'
      <4>1. NotBoxed(c) => \A q, k : ~Boxed(c, q, k)
        BY BoxesOf
      <4>2. NotBoxed(c) => \E q, k : /\ Boxed(c, q, k)'
                                     /\ \A p, j : Boxed(c, p, j)' => p = q /\ j = k
        <5>1. PICK q, k : q = q0 /\ k = Len(boxes[q0]) + 1
          OBVIOUS
        <5>2. Boxed(c, q, k)'
          BY <2>1, <2>7, <5>1
        <5>3. NotBoxed(c) => \A p, j : Boxed(c, p, j)' => p = q /\ j = k
          BY <2>1, <4>1, <5>1
        <5> QED BY <5>2, <5>3
      <4> QED BY <4>2, BoxesOfNext
    <3>2. Somewhere(c) => Somewhere(c)'
      BY <2>2, <2>3, <2>4, <2>7, <3>1 DEF Somewhere
    <3>3. ~Nowhere(c)
      BY <2>2, <2>7 DEF Nowhere
    <3> QED BY <2>5, <3>2, <3>3, NowhereOrSomewhere DEF RequestLife, Sole
  <2> QED BY <2>6, <2>7
<1>12. NobodyLost'
  BY <1>2, <1>3 DEF TokenInv, NobodyLost, GivesUpNobody, Sole
<1> QED BY <1>7, <1>8, <1>9, <1>10, <1>11, <1>12, TypesKeptOfToken DEF TokenInv, RequestLives

\* A client that has started goes on to another place; its name, its queue and
\* those of the others stay.
GoesOn(c, to) ==
  /\ cli[c].at # "new" /\ to # "new"
  /\ \A d \in Clients : /\ cli'[d].name = cli[d].name /\ cli'[d].qd = cli[d].qd
                        /\ cli'[d].at = IF d = c THEN to ELSE cli[d].at

\* The names behind the requests, queues and replies remain, when a client goes
\* on: a queue's name may go, and a request of a client that has started come.
LEMMA OwnersRemain ==
  ASSUME TokenInv, NEW c \in Clients, NEW to, GoesOn(c, to),
         \A d \in Clients : cli'[d].reply = cli[d].reply,
         \A n \in Names : queues'[n] \in {queues[n], 0},
         requests' \in Seq(Requests),
         \A k \in DOMAIN requests' : cli[requests'[k].from].name = requests'[k].name,
         UNCHANGED <<variant, server, boxes, users, lost>>
  PROVE  NamesKept' /\ QueuesOwned' /\ RepliesOwned' /\ WithinLimits' /\ NobodyLost'
<1>1. TokenTypes
  BY TypesOfToken DEF TokenInv
<1>2. \A k \in DOMAIN requests' : requests'[k].from \in Clients
  <2>1. \A k \in DOMAIN requests' : requests'[k] \in Requests
    OBVIOUS
  <2> QED BY <2>1 DEF Requests
<1>3. server.request # Nobody => server.request.from \in Clients
  BY <1>1, FieldsOfToken DEF Requests
<1>4. NamesKept'
  <2>1. /\ server.at \in InHand <=> server.request # Nobody
        /\ server.request # Nobody => /\ server.request \in Requests
                                      /\ cli'[server.request.from].name = server.request.name
    BY <1>3 DEF TokenInv, NamesKept, GoesOn
  <2>2. \A k \in DOMAIN requests' : cli'[requests'[k].from].name = requests'[k].name
    BY <1>2 DEF GoesOn
  <2>3. \A d \in Clients : cli'[d].at # "new" <=> cli'[d].name # "none"
    BY DEF GoesOn, TokenInv, NamesKept
  <2>4. \A n \in Names, d \in Clients : d \in users[n] <=> cli'[d].name = n
    BY DEF GoesOn, TokenInv, NamesKept
  <2>5. \A d \in lost : cli'[d].at # "new"
    BY <1>1 DEF GoesOn, TokenInv, NamesKept, TokenTypes
  <2> QED BY <2>1, <2>2, <2>3, <2>4, <2>5 DEF NamesKept
<1>5. QueuesOwned'
  <2>1. PICK owner \in [DOMAIN boxes -> Names] : Owned(owner)
    BY DEF TokenInv, QueuesOwned
  <2>2. \A n \in Names : queues'[n] # 0 => owner[queues'[n]] = n
    BY <2>1 DEF Owned
  <2>3. \A d \in Clients : cli'[d].at # "new" =>
          cli'[d].qd # 0 /\ owner[cli'[d].qd] = cli'[d].name
    BY <2>1 DEF Owned, GoesOn
  <2>4. \A q \in DOMAIN boxes : \A k \in DOMAIN boxes[q] :
          boxes[q][k].to \in Clients /\ cli'[boxes[q][k].to].name = owner[q]
    BY <2>1 DEF Owned, GoesOn
  <2>5. Owned(owner)'
    BY <2>1, <2>2, <2>3, <2>4 DEF Owned
  <2> QED BY <2>1, <2>5 DEF QueuesOwned
<1>6. RepliesOwned'
  <2>1. \A d \in Clients : cli[d].reply.to \in Clients \cup {"none"}
    BY <1>1, FieldsOfToken DEF Replies
  <2> QED BY <2>1 DEF TokenInv, RepliesOwned, GoesOn
<1>7. WithinLimits'
  BY DEF TokenInv, WithinLimits
<1>8. \A d \in Clients : Sole(d)' <=> Sole(d)
  BY DEF Sole, GoesOn
<1>9. NobodyLost'
  <2>1. server.at = "send" => server.request # Nobody
    BY DEF TokenInv, NamesKept, InHand
  <2> QED BY <1>1, <1>3, <1>8, <2>1 DEF TokenInv, NobodyLost, GivesUpNobody, TokenTypes
<1> QED BY <1>4, <1>5, <1>6, <1>7, <1>9

\* A client is killed, or ends and removes the name of its queue.
LEMMA ClientEnds ==
  ASSUME TokenInv, NEW c \in Clients, Quit(c) \/ KillClient(c)
  PROVE  TokenInv'
<1>1. TokenTypes
  BY TypesOfToken DEF TokenInv
<1>2. /\ cli[c].at \in {"prompt", "wait"} /\ cli' = [cli EXCEPT ![c].at = "gone"]
      /\ UNCHANGED <<variant, server, requests, boxes, users, lost>>
      /\ \/ queues' = queues
         \/ cli[c].at = "prompt" /\ queues' = [queues EXCEPT ![cli[c].name] = 0]
  BY DEF Quit, KillClient
<1>3. cli[c].name \in Names
  <2>1. cli[c].name \in Names \cup {"none"}
    BY <1>1, FieldsOfToken
  <2> QED BY <1>2, <2>1 DEF TokenInv, NamesKept
<1>4. /\ GoesOn(c, "gone") /\ \A d \in Clients : cli'[d].reply = cli[d].reply
      /\ cli' \in [Clients -> ClientRecords(Len(boxes))]
  <2>1. cli[c] \in ClientRecords(Len(boxes))
    BY <1>1 DEF TokenTypes
  <2> QED BY <1>1, <1>2, <2>1 DEF GoesOn, TokenTypes, ClientRecords
<1>5. /\ queues' \in [Names -> 0..Len(boxes)]
      /\ \A n \in Names : queues'[n] \in {queues[n], 0}
      /\ \A n \in Names : n # cli[c].name => queues'[n] = queues[n]
      /\ cli[c].at = "wait" => queues' = queues
  <2>1. queues \in [Names -> 0..Len(boxes)] /\ 0 \in 0..Len(boxes)
    BY <1>1 DEF TokenTypes
  <2>2. CASE queues' = queues
    BY <2>1, <2>2
  <2>3. CASE cli[c].at = "prompt" /\ queues' = [queues EXCEPT ![cli[c].name] = 0]
    BY <1>3, <2>1, <2>3
  <2> QED BY <1>2, <2>2, <2>3
<1>6. TokenTypes'
  BY <1>1, <1>2, <1>4, <1>5 DEF TokenTypes
<1>7. NamesKept' /\ QueuesOwned' /\ RepliesOwned' /\ WithinLimits' /\ NobodyLost'
  BY <1>1, <1>2, <1>4, <1>5, OwnersRemain DEF TokenInv, NamesKept, TokenTypes
<1>8. ASSUME NEW d \in Clients
      PROVE  RequestLife(d)'
  <2>1. RequestLife(d)
    BY DEF TokenInv, RequestLives
  <2>2. (Nowhere(d)' <=> Nowhere(d)) /\ (Somewhere(d)' <=> Somewhere(d))
    BY <1>2, RepliesStay, RequestsStay DEF Nowhere, Somewhere, Held
  <2>3. /\ Sole(d)' <=> Sole(d)
        /\ cli'[d].name = cli[d].name
        /\ (cli[d].at = "new" <=> cli'[d].at = "new")
    BY <1>2, <1>4 DEF Sole, GoesOn
  <2>4. CASE d = c
    <3>1. cli'[d].at = "gone"
      BY <1>4, <2>4 DEF GoesOn
    <3>2. Sole(d) /\ Somewhere(d) => queues' = queues
      BY <1>2, <1>5, <2>1, <2>4, NowhereOrSomewhere DEF RequestLife
    <3>3. cli[d].at # "new"
      BY <1>2, <2>4
    <3> QED BY <1>2, <2>1, <2>2, <2>3, <3>1, <3>2, <3>3 DEF RequestLife
  <2>5. CASE d # c
    <3>1. cli'[d].at = cli[d].at
      BY <1>4, <2>5 DEF GoesOn
    <3>2. cli[d].at # "new" /\ Sole(d) => queues'[cli[d].name] = queues[cli[d].name]
      <4>1. SUFFICES ASSUME cli[d].at # "new", Sole(d)
                     PROVE  cli[d].name \in Names /\ cli[d].name # cli[c].name
        BY <1>5
      <4>2. cli[d].name \in Names
        BY <1>1, <4>1, FieldsOfToken DEF TokenInv, NamesKept
      <4>3. c \in users[cli[c].name]
        BY <1>3 DEF TokenInv, NamesKept
      <4> QED BY <2>5, <4>1, <4>2, <4>3 DEF Sole
    <3> QED BY <1>2, <2>1, <2>2, <2>3, <3>1, <3>2 DEF RequestLife
  <2> QED BY <2>4, <2>5
<1> QED BY <1>6, <1>7, <1>8, TypesKeptOfToken DEF TokenInv, RequestLives

\* A client asks: its request is the last one in the server's queue.
LEMMA TokenAsked ==
  ASSUME TokenInv, NEW c \in Clients, Ask(c)
  PROVE  TokenInv'
<1> DEFINE r == [name |-> cli[c].name, from |-> c]
<1>1. TokenTypes
  BY TypesOfToken DEF TokenInv
<1>2. /\ cli[c].at = "prompt" /\ cli[c].asks < MaxAsks
      /\ cli' = [cli EXCEPT ![c].at = "wait", ![c].asks = @ + 1]
      /\ requests' = Append(requests, r)
      /\ UNCHANGED <<variant, server, queues, boxes, users, lost>>
  BY DEF Ask
<1>3. cli[c].name \in Names
  <2>1. cli[c].name \in Names \cup {"none"}
    BY <1>1, FieldsOfToken
  <2> QED BY <1>2, <2>1 DEF TokenInv, NamesKept
<1>4. /\ GoesOn(c, "wait") /\ \A d \in Clients : cli'[d].reply = cli[d].reply
      /\ cli' \in [Clients -> ClientRecords(Len(boxes))]
  <2>1. cli[c] \in ClientRecords(Len(boxes)) /\ cli[c].asks + 1 \in 0..MaxAsks
    <3>1. cli[c].asks \in 0..MaxAsks /\ MaxAsks \in Nat
      BY <1>1, FieldsOfToken, TokenNumbers
    <3>2. cli[c] \in ClientRecords(Len(boxes))
      BY <1>1 DEF TokenTypes
    <3> QED BY <1>2, <3>1, <3>2
  <2>2. cli \in [Clients -> ClientRecords(Len(boxes))]
    BY <1>1 DEF TokenTypes
  <2>3. [cli[c] EXCEPT !.at = "wait", !.asks = @ + 1] \in ClientRecords(Len(boxes))
    BY <2>1 DEF ClientRecords
  <2>4. cli' = [cli EXCEPT ![c] = [cli[c] EXCEPT !.at = "wait", !.asks = @ + 1]]
    BY <1>2, <2>1, <2>2 DEF ClientRecords
  <2>5. cli' \in [Clients -> ClientRecords(Len(boxes))]
    BY <2>2, <2>3, <2>4
  <2>6. \A d \in Clients : d # c => cli'[d] = cli[d]
    BY <2>2, <2>4
  <2>7. /\ cli'[c].name = cli[c].name /\ cli'[c].qd = cli[c].qd /\ cli'[c].at = "wait"
        /\ cli'[c].reply = cli[c].reply
    BY <2>1, <2>2, <2>4 DEF ClientRecords
  <2> QED BY <1>2, <2>5, <2>6, <2>7 DEF GoesOn
<1>5. /\ r \in Requests /\ requests \in Seq(Requests) /\ Len(requests) \in Nat
      /\ requests' \in Seq(Requests)
      /\ DOMAIN requests = 1..Len(requests) /\ DOMAIN requests' = 1..Len(requests) + 1
      /\ \A k \in 1..Len(requests) : requests'[k] = requests[k]
      /\ requests'[Len(requests) + 1] = r
  <2>1. r \in Requests /\ requests \in Seq(Requests)
    BY <1>1, <1>3 DEF Requests, TokenTypes
  <2> HIDE DEF r
  <2> QED BY <1>2, <2>1, AppendProperties
<1>6. TokenTypes'
  BY <1>1, <1>2, <1>4, <1>5 DEF TokenTypes
<1>7. NamesKept' /\ QueuesOwned' /\ RepliesOwned' /\ WithinLimits' /\ NobodyLost'
  <2>1. \A k \in DOMAIN requests' : cli[requests'[k].from].name = requests'[k].name
    <3>1. ASSUME NEW k \in DOMAIN requests'
          PROVE  cli[requests'[k].from].name = requests'[k].name
      <4>1. k \in 1..Len(requests) \/ k = Len(requests) + 1
        BY <1>5
      <4> QED BY <1>5, <4>1 DEF TokenInv, NamesKept
    <3> QED BY <3>1
  <2> QED BY <1>2, <1>4, <1>5, <2>1, OwnersRemain
<1>8. ASSUME NEW d \in Clients
      PROVE  RequestLife(d)'
  <2>1. RequestLife(d)
    BY DEF TokenInv, RequestLives
  <2>2. (NotBoxed(d)' <=> NotBoxed(d)) /\ (OnceBoxed(d)' <=> OnceBoxed(d))
    BY <1>2, RepliesStay
  <2>3. (Sole(d)' <=> Sole(d)) /\ cli'[d].name = cli[d].name /\ (Held(d)' <=> Held(d))
    BY <1>2, <1>4 DEF Sole, GoesOn, Held
  <2>4. \A k : Queued(d, k)' <=> Queued(d, k) \/ (d = c /\ k = Len(requests) + 1)
    <3>1. SUFFICES ASSUME NEW k
                   PROVE  Queued(d, k)' <=> Queued(d, k) \/ (d = c /\ k = Len(requests) + 1)
      OBVIOUS
    <3>2. CASE k \in 1..Len(requests)
      <4>1. k \in DOMAIN requests' /\ k # Len(requests) + 1 /\ requests'[k] = requests[k]
        BY <1>5, <3>2
      <4> QED BY <1>5, <3>2, <4>1 DEF Queued
    <3>3. CASE k = Len(requests) + 1
      <4>1. k \in DOMAIN requests' /\ k \notin DOMAIN requests /\ requests'[k].from = c
        BY <1>5, <3>3
      <4> QED BY <3>3, <4>1 DEF Queued
    <3>4. CASE k \notin 1..Len(requests) + 1
      <4>1. k \notin DOMAIN requests /\ k \notin DOMAIN requests' /\ k # Len(requests) + 1
        BY <1>5, <3>4
      <4> QED BY <4>1 DEF Queued
    <3> QED BY <1>5, <3>2, <3>3, <3>4
  <2>5. CASE d = c
    <3>1. cli'[d].at = "wait" /\ cli[d].at = "prompt"
      BY <1>2, <1>4, <2>5 DEF GoesOn
    <3>2. NotQueued(d) => OnceQueued(d)'
      <4>1. PICK k : k = Len(requests) + 1
        OBVIOUS
      <4>2. Queued(d, k)'
        BY <2>4, <2>5, <4>1
      <4>3. NotQueued(d) => \A j : ~Queued(d, j)
        BY DEF NotQueued, Queued
      <4>4. NotQueued(d) => \A j : Queued(d, j)' => j = k
        BY <2>4, <4>1, <4>3
      <4>5. k \in DOMAIN requests'
        BY <1>5, <4>1
      <4> QED BY <4>2, <4>4, <4>5 DEF OnceQueued
    <3>3. Nowhere(d) => Somewhere(d)'
      BY <2>2, <2>3, <3>2 DEF Nowhere, Somewhere
    <3> QED BY <1>2, <2>1, <2>3, <3>1, <3>3, NowhereOrSomewhere DEF RequestLife
  <2>6. CASE d # c
    <3>1. cli'[d].at = cli[d].at
      BY <1>4, <2>6 DEF GoesOn
    <3>2. \A k : Queued(d, k)' <=> Queued(d, k)
      BY <2>4, <2>6
    <3>3. /\ NotQueued(d) <=> \A k : ~Queued(d, k)
          /\ NotQueued(d)' <=> \A k : ~Queued(d, k)'
          /\ OnceQueued(d) <=> \E k : Queued(d, k) /\ \A j : Queued(d, j) => j = k
          /\ OnceQueued(d)' <=> \E k : Queued(d, k)' /\ \A j : Queued(d, j)' => j = k
      BY DEF NotQueued, OnceQueued, Queued
    <3>4. (NotQueued(d)' <=> NotQueued(d)) /\ (OnceQueued(d)' <=> OnceQueued(d))
      BY <3>2, <3>3
    <3>5. (Nowhere(d)' <=> Nowhere(d)) /\ (Somewhere(d)' <=> Somewhere(d))
      BY <2>2, <2>3, <3>4 DEF Nowhere, Somewhere
    <3> QED BY <1>2, <2>1, <2>3, <3>1, <3>5 DEF RequestLife
  <2> QED BY <2>5, <2>6
<1> QED BY <1>6, <1>7, <1>8, TypesKeptOfToken DEF TokenInv, RequestLives

\* A client takes the first reply out of its queue; if it alone has its name, that
\* is the reply to its own request.
LEMMA TokenReceived ==
  ASSUME TokenInv, NEW c \in Clients, ReceiveToken(c)
  PROVE  TokenInv'
<1> DEFINE q0  == cli[c].qd
           msg == Head(boxes[q0])
           b   == Tail(boxes[q0])
<1>1. TokenTypes
  BY TypesOfToken DEF TokenInv
<1>2. /\ cli[c].at = "wait" /\ boxes[q0] # <<>>
      /\ cli' = [cli EXCEPT ![c].at = "prompt", ![c].reply = msg]
      /\ boxes' = [boxes EXCEPT ![q0] = b]
      /\ UNCHANGED <<variant, server, requests, queues, users, lost>>
  BY DEF ReceiveToken
<1>3. PICK owner \in [DOMAIN boxes -> Names] : Owned(owner)
  BY DEF TokenInv, QueuesOwned
<1>4. /\ q0 \in 1..Len(boxes) /\ owner[q0] = cli[c].name /\ cli[c].name \in Names
  <2>1. q0 # 0 /\ owner[q0] = cli[c].name
    BY <1>2, <1>3 DEF Owned
  <2>2. q0 \in 0..Len(boxes) /\ cli[c].name \in Names \cup {"none"}
    BY <1>1, FieldsOfToken
  <2>3. cli[c].name # "none"
    BY <1>2 DEF TokenInv, NamesKept
  <2>4. Len(boxes) \in Nat
    BY <1>1 DEF TokenTypes
  <2> QED BY <2>1, <2>2, <2>3, <2>4
<1>5. /\ boxes[q0] \in Seq(Replies) /\ msg \in Replies /\ b \in Seq(Replies)
      /\ Len(boxes[q0]) \in Nat /\ Len(boxes[q0]) > 0
      /\ DOMAIN boxes[q0] = 1..Len(boxes[q0]) /\ DOMAIN b = 1..Len(boxes[q0]) - 1
      /\ Len(b) = Len(boxes[q0]) - 1 /\ msg = boxes[q0][1]
      /\ \A k \in 1..Len(boxes[q0]) - 1 : b[k] = boxes[q0][k + 1]
  <2>1. boxes[q0] \in Seq(Replies)
    BY <1>1, <1>4, FieldsOfToken
  <2>2. ASSUME NEW s \in Seq(Replies), s # <<>>
        PROVE  /\ Head(s) \in Replies /\ Tail(s) \in Seq(Replies)
               /\ Len(s) \in Nat /\ Len(s) > 0 /\ DOMAIN s = 1..Len(s)
               /\ DOMAIN Tail(s) = 1..Len(s) - 1 /\ Len(Tail(s)) = Len(s) - 1
               /\ Head(s) = s[1] /\ \A k \in 1..Len(s) - 1 : Tail(s)[k] = s[k + 1]
    <3>1. Len(s) \in Nat /\ Len(s) > 0 /\ DOMAIN s = 1..Len(s) /\ Head(s) = s[1]
      BY <2>2
    <3>2. Head(s) \in Replies /\ Tail(s) \in Seq(Replies) /\ Len(Tail(s)) = Len(s) - 1
      BY <2>2
    <3>3. DOMAIN Tail(s) = 1..Len(s) - 1
      BY <3>2
    <3>4. \A k \in 1..Len(s) - 1 : Tail(s)[k] = s[k + 1]
      BY <2>2, <3>1
    <3> QED BY <3>1, <3>2, <3>3, <3>4
  <2> QED BY <1>2, <2>1, <2>2
<1> HIDE DEF msg, b
<1>6. /\ boxes' \in Seq(Seq(Replies)) /\ Len(boxes') = Len(boxes) /\ Len(boxes) \in Nat
      /\ DOMAIN boxes = 1..Len(boxes) /\ DOMAIN boxes' = 1..Len(boxes)
      /\ boxes'[q0] = b /\ \A p \in 1..Len(boxes) : p # q0 => boxes'[p] = boxes[p]
  BY <1>1, <1>2, <1>4, <1>5, OneBoxChanges
<1>7. /\ cli' \in [Clients -> ClientRecords(Len(boxes))]
      /\ \A d \in Clients : d # c => cli'[d] = cli[d]
      /\ cli'[c].name = cli[c].name /\ cli'[c].qd = cli[c].qd /\ cli'[c].at = "prompt"
      /\ cli'[c].reply = msg
  <2>1. cli[c] \in ClientRecords(Len(boxes)) /\ cli \in [Clients -> ClientRecords(Len(boxes))]
    BY <1>1 DEF TokenTypes
  <2>2. [cli[c] EXCEPT !.at = "prompt", !.reply = msg] \in ClientRecords(Len(boxes))
    BY <1>5, <2>1 DEF ClientRecords
  <2>3. cli' = [cli EXCEPT ![c] = [cli[c] EXCEPT !.at = "prompt", !.reply = msg]]
    BY <1>2, <2>1 DEF ClientRecords
  <2> QED BY <2>1, <2>2, <2>3 DEF ClientRecords
<1>8. TokenTypes'
  BY <1>1, <1>2, <1>6, <1>7 DEF TokenTypes
<1>9. \A d \in Clients : cli'[d].name = cli[d].name /\ cli'[d].qd = cli[d].qd
  BY <1>7
<1>10. \A d \in Clients : cli'[d].at # "new" <=> cli[d].at # "new"
  BY <1>2, <1>7
<1>11. NamesKept'
  <2>1. server.request # Nobody => server.request.from \in Clients
    BY <1>1, FieldsOfToken DEF Requests
  <2>2. \A k \in DOMAIN requests : requests[k].from \in Clients
    <3>1. \A k \in 1..Len(requests) : requests[k] \in Requests
      BY <1>1, FieldsOfToken
    <3>2. DOMAIN requests = 1..Len(requests)
      BY <1>1 DEF TokenTypes
    <3> QED BY <3>1, <3>2 DEF Requests
  <2>3. lost \subseteq Clients
    BY <1>1 DEF TokenTypes
  <2>4. server'.at \in InHand <=> server'.request # Nobody
    BY <1>2 DEF TokenInv, NamesKept
  <2>5. server'.request # Nobody => /\ server'.request \in Requests
                                    /\ cli'[server'.request.from].name = server'.request.name
    BY <1>2, <1>9, <2>1 DEF TokenInv, NamesKept
  <2>6. \A k \in DOMAIN requests' : cli'[requests'[k].from].name = requests'[k].name
    <3>1. \A k \in DOMAIN requests : cli[requests[k].from].name = requests[k].name
      BY DEF TokenInv, NamesKept
    <3>2. requests' = requests
      BY <1>2
    <3>3. \A k \in DOMAIN requests : cli'[requests[k].from].name = cli[requests[k].from].name
      BY <1>9, <2>2
    <3> QED BY <3>1, <3>2, <3>3
  <2>7. \A d \in Clients : cli'[d].at # "new" <=> cli'[d].name # "none"
    BY <1>9, <1>10 DEF TokenInv, NamesKept
  <2>8. \A n \in Names, d \in Clients : d \in users'[n] <=> cli'[d].name = n
    BY <1>2, <1>9 DEF TokenInv, NamesKept
  <2>9. \A d \in lost' : cli'[d].at # "new"
    BY <1>2, <1>10, <2>3 DEF TokenInv, NamesKept
  <2> QED BY <2>4, <2>5, <2>6, <2>7, <2>8, <2>9 DEF NamesKept
<1>12. \A q \in DOMAIN boxes' : \A k \in DOMAIN boxes'[q] :
         boxes'[q][k].to \in Clients /\ cli[boxes'[q][k].to].name = owner[q]
  <2>1. SUFFICES ASSUME NEW q \in DOMAIN boxes', NEW k \in DOMAIN boxes'[q]
                 PROVE  boxes'[q][k].to \in Clients /\ cli[boxes'[q][k].to].name = owner[q]
    OBVIOUS
  <2>2. CASE q = q0
    <3>1. k \in 1..Len(boxes[q0]) - 1 /\ boxes'[q][k] = b[k]
      BY <1>5, <1>6, <2>1, <2>2
    <3>2. k + 1 \in DOMAIN boxes[q0] /\ b[k] = boxes[q0][k + 1]
      BY <1>5, <3>1
    <3> QED BY SMTT(30), <1>3, <1>4, <1>6, <2>2, <3>1, <3>2 DEF Owned
  <2>3. CASE q # q0
    BY <1>3, <1>6, <2>1, <2>3 DEF Owned
  <2> QED BY <2>2, <2>3
<1>13. QueuesOwned'
  <2>1. Owned(owner)'
    <3>1. \A n \in Names : queues'[n] # 0 => owner[queues'[n]] = n
      BY <1>2, <1>3 DEF Owned
    <3>2. \A d \in Clients : cli'[d].at # "new" =>
            cli'[d].qd # 0 /\ owner[cli'[d].qd] = cli'[d].name
      BY <1>3, <1>9, <1>10 DEF Owned
    <3>3. server'.at = "send" /\ server'.qd # 0 => owner[server'.qd] = server'.request.name
      BY <1>2, <1>3 DEF Owned
    <3>4. \A q \in DOMAIN boxes' : \A k \in DOMAIN boxes'[q] :
            boxes'[q][k].to \in Clients /\ cli'[boxes'[q][k].to].name = owner[q]
      BY <1>9, <1>12
    <3> QED BY <3>1, <3>2, <3>3, <3>4 DEF Owned
  <2> QED BY <1>3, <1>6, <2>1 DEF QueuesOwned
<1>14. msg.to \in Clients /\ cli[msg.to].name = cli[c].name
  <2>1. 1 \in DOMAIN boxes[q0]
    BY <1>5
  <2> QED BY <1>3, <1>4, <1>5, <1>6, <2>1 DEF Owned
<1>15. RepliesOwned'
  <2>1. \A d \in Clients : cli[d].reply.to \in Clients \cup {"none"}
    BY <1>1, FieldsOfToken DEF Replies
  <2>2. ASSUME NEW d \in Clients, cli'[d].reply.to # "none"
        PROVE  cli'[d].at # "new" /\ cli'[cli'[d].reply.to].name = cli'[d].name
    <3>1. CASE d = c
      BY <1>7, <1>9, <1>14, <3>1
    <3>2. CASE d # c
      BY <1>7, <1>9, <2>1, <2>2, <3>2 DEF TokenInv, RepliesOwned
    <3> QED BY <3>1, <3>2
  <2> QED BY <2>2 DEF RepliesOwned
<1>16. WithinLimits'
  <2>1. \A q \in DOMAIN boxes' : Len(boxes'[q]) <= MaxMessages
    <3>1. SUFFICES ASSUME NEW q \in DOMAIN boxes'
                   PROVE  Len(boxes'[q]) <= MaxMessages
      OBVIOUS
    <3>2. CASE q = q0
      <4>1. Len(boxes[q0]) <= MaxMessages
        BY <1>4, <1>6 DEF TokenInv, WithinLimits
      <4> QED BY <1>5, <1>6, <3>2, <4>1, TokenNumbers
    <3>3. CASE q # q0
      BY <1>6, <3>1, <3>3 DEF TokenInv, WithinLimits
    <3> QED BY <3>2, <3>3
  <2> QED BY <1>2, <2>1 DEF TokenInv, WithinLimits
<1>17. \A d \in Clients : Sole(d)' <=> Sole(d)
  BY <1>2, <1>9 DEF Sole
<1>18. NobodyLost'
  <2>1. server.at = "send" => server.request.from \in Clients
    BY <1>1, FieldsOfToken DEF TokenInv, NamesKept, InHand, Requests
  <2>2. lost \subseteq Clients
    BY <1>1 DEF TokenTypes
  <2> QED BY <1>2, <1>17, <2>1, <2>2 DEF TokenInv, NobodyLost, GivesUpNobody
\* Whoever alone has its name has no reply in the queue of another name.
<1>19. ASSUME NEW d \in Clients, Sole(d), cli[d].at # "new", NEW k \in 1..Len(boxes[q0]),
              boxes[q0][k].to = d \/ d = c
       PROVE  d = c /\ boxes[q0][k].to = c
  <2>1. boxes[q0][k].to \in Clients /\ cli[boxes[q0][k].to].name = cli[c].name
    BY ZenonT(30), <1>3, <1>4, <1>5, <1>6 DEF Owned
  <2>2. boxes[q0][k].to \in users[cli[c].name] /\ c \in users[cli[c].name]
    BY <1>4, <2>1 DEF TokenInv, NamesKept
  <2>3. users[cli[c].name] = {d}
    BY <1>19, <2>1 DEF Sole
  <2> QED BY <2>2, <2>3
<1>20. ASSUME NEW d \in Clients
       PROVE  RequestLife(d)'
  <2>1. RequestLife(d)
    BY DEF TokenInv, RequestLives
  <2>2. (NotQueued(d)' <=> NotQueued(d)) /\ (OnceQueued(d)' <=> OnceQueued(d))
        /\ (Held(d)' <=> Held(d))
    BY <1>2, RequestsStay DEF Held
  <2>3. \A q, k : q # q0 => (Boxed(d, q, k)' <=> Boxed(d, q, k))
    BY <1>6 DEF Boxed
  <2>4. \A k : Boxed(d, q0, k) <=> k \in 1..Len(boxes[q0]) /\ boxes[q0][k].to = d
    BY <1>4, <1>5, <1>6 DEF Boxed
  <2>5. PICK p : p = q0
    OBVIOUS
  <2>6. \A k : Boxed(d, p, k)' => k \in Nat /\ k > 0 /\ Boxed(d, p, k + 1)
    <3>1. SUFFICES ASSUME NEW k, Boxed(d, p, k)'
                   PROVE  k \in Nat /\ k > 0 /\ Boxed(d, p, k + 1)
      OBVIOUS
    <3>2. k \in 1..Len(boxes[q0]) - 1 /\ b[k].to = d
      BY <1>4, <1>5, <1>6, <2>5, <3>1 DEF Boxed
    <3>3. k + 1 \in 1..Len(boxes[q0]) /\ b[k] = boxes[q0][k + 1] /\ k \in Nat /\ k > 0
      BY <1>5, <3>2
    <3> QED BY <2>4, <2>5, <3>2, <3>3
  <2>7. CASE d # c /\ cli[d].at # "new" /\ Sole(d)
    <3>1. \A k : ~Boxed(d, q0, k)
      BY <1>19, <2>4, <2>7
    <3>2. \A q, k : Boxed(d, q, k)' <=> Boxed(d, q, k)
      BY <2>3, <2>5, <2>6, <3>1
    <3>3. (NotBoxed(d)' <=> NotBoxed(d)) /\ (OnceBoxed(d)' <=> OnceBoxed(d))
      BY <3>2, BoxesOf, BoxesOfNext
    <3>4. (Nowhere(d)' <=> Nowhere(d)) /\ (Somewhere(d)' <=> Somewhere(d))
      BY <2>2, <3>3 DEF Nowhere, Somewhere
    <3>5. cli'[d] = cli[d]
      BY <1>7, <2>7
    <3> QED BY <1>2, <2>1, <3>4, <3>5 DEF RequestLife, Sole
  <2>8. CASE d = c /\ Sole(d)
    <3>1. Boxed(d, q0, 1)
      <4>1. 1 \in 1..Len(boxes[q0])
        BY <1>5
      <4> QED BY <1>2, <1>19, <2>4, <2>8, <4>1
    <3>2. ~NotBoxed(d)
      BY <3>1, BoxesOf
    <3>3. Somewhere(d) /\ ~Nowhere(d)
      BY <1>2, <2>1, <2>8, <3>2 DEF RequestLife, Nowhere
    <3>4. OnceBoxed(d) /\ NotQueued(d) /\ ~Held(d)
      BY <3>2, <3>3 DEF Somewhere
    <3>5. \A q, k : Boxed(d, q, k) => q = q0 /\ k = 1
      BY <3>1, <3>4, BoxesOf
    <3>6. \A q, k : ~Boxed(d, q, k)'
      BY <2>3, <2>5, <2>6, <3>5
    <3>7. Nowhere(d)'
      BY <2>2, <3>4, <3>6, BoxesOfNext DEF Nowhere
    <3>8. /\ d \notin lost /\ queues[cli[d].name] # 0
          /\ cli'[d].at = "prompt" /\ cli'[d].name = cli[d].name
      BY <1>2, <1>7, <2>1, <2>8, <3>3 DEF RequestLife
    <3> QED BY <1>2, <3>7, <3>8, NowhereOrSomewhere DEF RequestLife
  <2>9. CASE ~(cli[d].at # "new" /\ Sole(d))
    BY <1>10, <1>17, <2>9 DEF RequestLife
  <2> QED BY <1>2, <2>7, <2>8, <2>9
<1> QED BY <1>8, <1>11, <1>13, <1>15, <1>16, <1>18, <1>20, TypesKeptOfToken
        DEF TokenInv, RequestLives

\* A client starts under a name, which may be one in use: nothing is on its way
\* to it, and whoever shares the name is not alone with it any more.
LEMMA TokenClientStarts ==
  ASSUME TokenInv, NEW c \in Clients, NEW name \in Names, StartClient(c, name)
  PROVE  TokenInv'
<1>1. TokenTypes
  BY TypesOfToken DEF TokenInv
<1>2. /\ cli[c].at = "new" /\ cli[c].name = "none"
      /\ UNCHANGED <<variant, server, requests, lost>>
  BY DEF StartClient, TokenInv, NamesKept
<1>3. PICK n \in Nat, m \in Nat : n = Len(boxes) /\ m = Len(boxes')
  <2>1. boxes \in Seq(Seq(Replies)) /\ <<>> \in Seq(Replies)
    BY <1>1 DEF TokenTypes
  <2>2. boxes' \in Seq(Seq(Replies))
    BY <2>1, AppendProperties DEF StartClient
  <2> QED BY <2>1, <2>2, LenProperties
<1>4. /\ DOMAIN boxes = 1..n /\ DOMAIN boxes' = 1..m /\ boxes' \in Seq(Seq(Replies))
      /\ queues[name] # 0 => boxes' = boxes /\ m = n
      /\ queues[name] = 0 => m = n + 1 /\ boxes'[m] = <<>>
      /\ \A q \in 1..n : boxes'[q] = boxes[q]
  <2>1. boxes \in Seq(Seq(Replies)) /\ <<>> \in Seq(Replies) /\ DOMAIN boxes = 1..n
    BY <1>1, <1>3 DEF TokenTypes
  <2>2. CASE queues[name] = 0
    <3>1. boxes' = Append(boxes, <<>>)
      BY <2>2 DEF StartClient
    <3>2. /\ boxes' \in Seq(Seq(Replies)) /\ Len(boxes') = Len(boxes) + 1
          /\ \A q \in 1..Len(boxes) : boxes'[q] = boxes[q]
          /\ boxes'[Len(boxes) + 1] = <<>>
      BY <2>1, <3>1, AppendProperties
    <3>3. DOMAIN boxes' = 1..m
      BY <1>3, <3>2
    <3> QED BY <1>3, <2>1, <2>2, <3>2, <3>3
  <2>3. CASE queues[name] # 0
    <3>1. boxes' = boxes
      BY <2>3 DEF StartClient
    <3> QED BY <1>3, <2>1, <2>3, <3>1
  <2> QED BY <2>2, <2>3
<1>5. /\ 1..n \subseteq 1..m /\ 0..n \subseteq 0..m /\ m \in 0..m /\ n <= m
      /\ \A q \in 1..m : q \in 1..n \/ (q = m /\ m = n + 1)
  BY <1>3, <1>4
\* The queue that was made is the last one, and empty.
<1>6. \A q \in 1..m : q \notin 1..n => boxes'[q] = <<>> /\ queues[name] = 0 /\ q = m
  BY <1>3, <1>4, <1>5
<1>7. /\ queues \in [Names -> 0..n] /\ queues' \in [Names -> 0..m]
      /\ \A x \in Names : x # name => queues'[x] = queues[x]
      /\ queues'[name] # 0
      /\ queues[name] # 0 => queues'[name] = queues[name]
      /\ queues[name] = 0 => queues'[name] = m
  <2>1. queues \in [Names -> 0..n] /\ queues \in [Names -> 0..m]
    BY <1>1, <1>3, <1>5 DEF TokenTypes
  <2>2. CASE queues[name] = 0
    <3>1. queues' = [queues EXCEPT ![name] = m]
      BY <1>3, <2>2 DEF StartClient
    <3>2. m # 0
      BY <1>3, <1>4, <2>2
    <3> QED BY <1>5, <2>1, <2>2, <3>1, <3>2
  <2>3. CASE queues[name] # 0
    <3>1. queues' = queues
      BY <2>3 DEF StartClient
    <3> QED BY <2>1, <2>3, <3>1
  <2> QED BY <2>2, <2>3
<1>8. PICK to \in {"prompt", "gone"} :
        cli' = [cli EXCEPT ![c] = [cli[c] EXCEPT !.at = to, !.name = name,
                                                 !.qd = queues'[name]]]
  <2>1. cli \in [Clients -> ClientRecords(n)]
    BY <1>1, <1>3 DEF TokenTypes
  <2>2. cli' = [cli EXCEPT ![c].at = IF server.runs = 0 THEN "gone" ELSE "prompt",
                           ![c].name = name, ![c].qd = queues'[name]]
    BY DEF StartClient
  <2>3. CASE server.runs = 0
    BY <2>1, <2>2, <2>3
  <2>4. CASE server.runs # 0
    BY <2>1, <2>2, <2>4
  <2> QED BY <2>3, <2>4
<1>9. /\ cli' \in [Clients -> ClientRecords(m)]
      /\ \A d \in Clients : d # c => cli'[d] = cli[d]
      /\ cli'[c].name = name /\ cli'[c].qd = queues'[name] /\ cli'[c].at = to
      /\ cli'[c].reply = cli[c].reply
  <2>1. cli \in [Clients -> ClientRecords(n)]
    BY <1>1, <1>3 DEF TokenTypes
  <2>2. \A r \in ClientRecords(n) : r \in ClientRecords(m)
    BY <1>5 DEF ClientRecords
  <2>3. queues'[name] \in 0..m /\ cli[c] \in ClientRecords(m)
    BY <1>7, <2>1, <2>2
  <2>4. PICK new \in ClientRecords(m) :
          /\ new = [cli[c] EXCEPT !.at = to, !.name = name, !.qd = queues'[name]]
          /\ new.name = name /\ new.qd = queues'[name] /\ new.at = to
          /\ new.reply = cli[c].reply
    <3>1. PICK qd \in 0..m, old \in ClientRecords(m) : qd = queues'[name] /\ old = cli[c]
      BY <2>3
    <3>2. [old EXCEPT !.at = to, !.name = name, !.qd = qd] \in ClientRecords(m)
      BY <1>8, <3>1 DEF ClientRecords
    <3>3. PICK new : new = [old EXCEPT !.at = to, !.name = name, !.qd = qd]
      OBVIOUS
    <3>4. /\ new.name = name /\ new.qd = qd /\ new.at = to
          /\ new.reply = old.reply
      BY <3>1, <3>3 DEF ClientRecords
    <3> QED BY <3>1, <3>2, <3>3, <3>4
  <2>5. cli' = [cli EXCEPT ![c] = new]
    BY <1>8, <2>4
  <2> QED BY <2>1, <2>2, <2>4, <2>5
<1>10. /\ users' \in [Names -> SUBSET Clients]
       /\ \A x \in Names, d \in Clients :
            d \in users'[x] <=> d \in users[x] \/ (d = c /\ x = name)
       /\ \A x \in Names : x # name => users'[x] = users[x]
  BY <1>1 DEF TokenTypes, StartClient
<1>11. TokenTypes'
  <2>1. server' \in ServerRecords(m)
    <3>1. server \in ServerRecords(n)
      BY <1>1, <1>3 DEF TokenTypes
    <3>2. \A r \in ServerRecords(n) : r \in ServerRecords(m)
      BY <1>5 DEF ServerRecords
    <3> QED BY <1>2, <3>1, <3>2
  <2>2. variant' \in Variants /\ requests' \in Seq(Requests) /\ lost' \subseteq Clients
    BY <1>1, <1>2 DEF TokenTypes
  <2>3. Len(boxes') \in Nat
    BY <1>3
  <2> QED BY <1>3, <1>4, <1>7, <1>9, <1>10, <2>1, <2>2, <2>3 DEF TokenTypes
\* No request and no reply is of a client that has not started.
<1>12. \A d \in Clients : cli[d].name \in Names => d # c /\ cli'[d] = cli[d]
  BY <1>2, <1>9, TokenNumbers
<1>13. server.request # Nobody => /\ server.request \in Requests
                                  /\ server.request.from \in Clients
                                  /\ cli[server.request.from].name = server.request.name
                                  /\ cli[server.request.from].name \in Names
  BY DEF TokenInv, NamesKept, Requests
<1>14. \A k \in DOMAIN requests : /\ requests[k].from \in Clients
                                  /\ cli[requests[k].from].name = requests[k].name
                                  /\ cli[requests[k].from].name \in Names
  <2>1. DOMAIN requests = 1..Len(requests)
    BY <1>1 DEF TokenTypes
  <2>2. \A k \in DOMAIN requests : requests[k] \in Requests
    BY <1>1, <2>1, FieldsOfToken
  <2>3. \A k \in DOMAIN requests : cli[requests[k].from].name = requests[k].name
    BY DEF TokenInv, NamesKept
  <2> QED BY <2>2, <2>3 DEF Requests
<1>15. PICK owner \in [1..n -> Names] : Owned(owner)
  BY <1>4 DEF TokenInv, QueuesOwned
<1>16. \A q \in 1..n : \A k \in DOMAIN boxes[q] :
         /\ boxes[q][k].to \in Clients /\ owner[q] \in Names
         /\ cli[boxes[q][k].to].name = owner[q]
  BY <1>4, <1>15 DEF Owned
<1>17. NamesKept'
  <2>1. server'.at \in InHand <=> server'.request # Nobody
    BY <1>2 DEF TokenInv, NamesKept
  <2>2. server'.request # Nobody => /\ server'.request \in Requests
                                    /\ cli'[server'.request.from].name = server'.request.name
    <3>1. server' = server
      BY <1>2
    <3>2. server.request # Nobody => cli'[server.request.from] = cli[server.request.from]
      BY <1>12, <1>13
    <3> QED BY <1>13, <3>1, <3>2
  <2>3. \A k \in DOMAIN requests' : cli'[requests'[k].from].name = requests'[k].name
    <3>1. requests' = requests
      BY <1>2
    <3>2. \A k \in DOMAIN requests : cli'[requests[k].from] = cli[requests[k].from]
      BY <1>12, <1>14
    <3> QED BY <1>14, <3>1, <3>2
  <2>4. \A d \in Clients : cli'[d].at # "new" <=> cli'[d].name # "none"
    BY <1>9, TokenNumbers DEF TokenInv, NamesKept
  <2>5. \A x \in Names, d \in Clients : d \in users'[x] <=> cli'[d].name = x
    BY <1>2, <1>9, <1>10, TokenNumbers DEF TokenInv, NamesKept
  <2>6. \A d \in lost' : cli'[d].at # "new"
    BY SMTT(30), <1>1, <1>2, <1>9 DEF TokenInv, NamesKept, TokenTypes
  <2> QED BY <2>1, <2>2, <2>3, <2>4, <2>5, <2>6 DEF NamesKept
<1>18. QueuesOwned'
  <2>1. PICK own \in [1..m -> Names] :
          (\A q \in 1..n : own[q] = owner[q]) /\ (m = n + 1 => own[m] = name)
    <3>1. [q \in 1..m |-> IF q \in 1..n THEN owner[q] ELSE name] \in [1..m -> Names]
      BY <1>15
    <3>2. m = n + 1 => m \in 1..m /\ m \notin 1..n
      BY <1>3
    <3> QED BY <1>5, <3>1, <3>2
  <2>2. \A x \in Names : queues[x] # 0 => queues[x] \in 1..n /\ owner[queues[x]] = x
    <3>1. \A x \in Names : queues[x] \in 0..n
      BY <1>7
    <3>2. \A x \in 0..n : x # 0 => x \in 1..n
      BY <1>3
    <3> QED BY <1>15, <3>1, <3>2 DEF Owned
  <2>3. own[queues'[name]] = name
    BY <1>4, <1>7, <2>1, <2>2
  <2>4. \A x \in Names : queues'[x] # 0 => own[queues'[x]] = x
    BY ZenonT(30), <1>7, <2>1, <2>2, <2>3
  <2>5. ASSUME NEW d \in Clients, cli'[d].at # "new"
        PROVE  cli'[d].qd # 0 /\ own[cli'[d].qd] = cli'[d].name
    <3>1. CASE d = c
      BY <1>7, <1>9, <2>3, <3>1
    <3>2. CASE d # c
      <4>1. cli'[d] = cli[d]
        BY <1>9, <3>2
      <4>2. cli[d].qd # 0 /\ owner[cli[d].qd] = cli[d].name
        BY <1>15, <2>5, <4>1 DEF Owned
      <4>3. cli[d].qd \in 0..n
        BY <1>1, <1>3, FieldsOfToken
      <4>4. cli[d].qd \in 1..n
        BY <1>3, <4>2, <4>3
      <4> QED BY <2>1, <4>1, <4>2, <4>4
    <3> QED BY <3>1, <3>2
  <2>6. server'.at = "send" /\ server'.qd # 0 => own[server'.qd] = server'.request.name
    <3>1. server.qd \in 0..n
      BY <1>1, <1>3, FieldsOfToken
    <3>2. server.qd # 0 => server.qd \in 1..n
      BY <1>3, <3>1
    <3>3. server.at = "send" /\ server.qd # 0 => owner[server.qd] = server.request.name
      BY <1>15 DEF Owned
    <3>4. server' = server
      BY <1>2
    <3> QED BY <2>1, <3>2, <3>3, <3>4
  <2>7. ASSUME NEW q \in 1..m, NEW k \in DOMAIN boxes'[q]
        PROVE  boxes'[q][k].to \in Clients /\ cli'[boxes'[q][k].to].name = own[q]
    <3>1. CASE q \in 1..n
      <4>1. boxes'[q] = boxes[q] /\ own[q] = owner[q]
        BY <1>4, <2>1, <3>1
      <4>2. k \in DOMAIN boxes[q]
        BY <2>7, <4>1
      <4>3. /\ boxes[q][k].to \in Clients /\ owner[q] \in Names
            /\ cli[boxes[q][k].to].name = owner[q]
        BY <1>16, <3>1, <4>2
      <4> QED BY <1>12, <4>1, <4>3
    <3>2. CASE q \notin 1..n
      <4>1. boxes'[q] = <<>>
        BY <1>6, <2>7, <3>2
      <4> QED BY <2>7, <4>1
    <3> QED BY <3>1, <3>2
  <2>8. Owned(own)'
    BY <1>4, <2>4, <2>5, <2>6, <2>7 DEF Owned
  <2> QED BY <1>4, <2>8 DEF QueuesOwned
<1>19. RepliesOwned'
  <2>1. \A d \in Clients : cli[d].reply.to \in Clients \cup {"none"}
    <3>1. \A d \in Clients : cli[d].reply \in Replies
      BY <1>1, FieldsOfToken
    <3> QED BY <3>1 DEF Replies
  <2>2. cli[c].reply.to = "none"
    BY <1>2 DEF TokenInv, RepliesOwned
  <2>3. ASSUME NEW d \in Clients, cli'[d].reply.to # "none"
        PROVE  cli'[d].at # "new" /\ cli'[cli'[d].reply.to].name = cli'[d].name
    <3>1. d # c /\ cli'[d] = cli[d]
      BY <1>9, <2>2, <2>3
    <3>2. cli[d].at # "new" /\ cli[cli[d].reply.to].name = cli[d].name
      BY <2>3, <3>1 DEF TokenInv, RepliesOwned
    <3>3. cli[d].name \in Names \cup {"none"}
      BY <1>1, FieldsOfToken
    <3>4. cli[d].name \in Names
      BY <3>2, <3>3 DEF TokenInv, NamesKept
    <3>5. cli[d].reply.to \in Clients
      BY <2>1, <2>3, <3>1
    <3> QED BY <1>12, <3>1, <3>2, <3>4, <3>5
  <2> QED BY <2>3 DEF RepliesOwned
<1>20. WithinLimits'
  <2>1. \A q \in DOMAIN boxes' : Len(boxes'[q]) <= MaxMessages
    <3>1. SUFFICES ASSUME NEW q \in 1..m
                   PROVE  Len(boxes'[q]) <= MaxMessages
      BY <1>4
    <3>2. CASE q \in 1..n
      BY <1>4, <3>2 DEF TokenInv, WithinLimits
    <3>3. CASE q \notin 1..n
      <4>1. Len(boxes'[q]) = 0
        BY <1>6, <3>1, <3>3
      <4> QED BY <4>1, TokenNumbers
    <3> QED BY <3>2, <3>3
  <2>2. server' = server /\ variant' = variant
    BY <1>2
  <2> QED BY <2>1, <2>2 DEF TokenInv, WithinLimits
\* Who is alone with its name after the step was so before.
<1>21. ASSUME NEW d \in Clients, d # c, cli[d].at # "new"
       PROVE  /\ cli'[d] = cli[d] /\ cli[d].name \in Names
              /\ Sole(d)' => Sole(d) /\ cli[d].name # name
  <2>1. cli'[d] = cli[d]
    BY <1>9, <1>21
  <2>2. cli[d].name \in Names
    <3>1. cli[d].name \in Names \cup {"none"}
      BY <1>1, FieldsOfToken
    <3> QED BY <1>21, <3>1 DEF TokenInv, NamesKept
  <2>3. cli[d].name = name => c \in users'[cli[d].name]
    BY <1>10
  <2>4. cli[d].name # name => users'[cli[d].name] = users[cli[d].name]
    BY <1>10, <2>2
  <2> QED BY <1>21, <2>1, <2>2, <2>3, <2>4 DEF Sole
<1>22. NobodyLost'
  <2>1. \A d \in lost : d \in Clients /\ d # c /\ cli[d].at # "new"
    BY <1>1, <1>2 DEF TokenInv, NamesKept, TokenTypes
  <2>2. server.at = "send" => /\ server.request.from \in Clients /\ server.request.from # c
                              /\ cli[server.request.from].at # "new"
    <3>1. SUFFICES ASSUME server.at = "send"
                   PROVE  /\ server.request.from \in Clients /\ server.request.from # c
                          /\ cli[server.request.from].at # "new"
      OBVIOUS
    <3>2. server.request # Nobody
      BY <3>1 DEF TokenInv, NamesKept, InHand
    <3>3. /\ server.request.from \in Clients /\ server.request.from # c
          /\ cli[server.request.from].name \in Names
      BY <1>12, <1>13, <3>2
    <3> QED BY <3>3, TokenNumbers DEF TokenInv, NamesKept
  <2>3. server' = server /\ variant' = variant /\ lost' = lost
    BY <1>2
  <2>4. variant' = "srv" /\ server'.at = "send" /\ server'.qd = 0 => ~Sole(server.request.from)'
    <3>1. SUFFICES ASSUME variant = "srv", server.at = "send", server.qd = 0
                   PROVE  ~Sole(server.request.from)'
      BY <2>3
    <3>2. PICK d \in Clients : d = server.request.from /\ d # c /\ cli[d].at # "new"
      BY <2>2, <3>1
    <3>3. ~Sole(d)
      BY <3>1, <3>2 DEF TokenInv, NobodyLost
    <3>4. ~Sole(d)'
      BY <1>21, <3>2, <3>3
    <3>5. users'[cli'[d].name] # {d}
      BY <3>4 DEF Sole
    <3>6. d = server'.request.from
      BY <2>3, <3>2
    <3> QED BY <3>5, <3>6 DEF Sole
  <2>5. GivesUpNobody'
    BY <1>21, <2>1, <2>3 DEF TokenInv, NobodyLost, GivesUpNobody
  <2>6. server'.runs = 0 => lost' = {} /\ server'.at = "off"
    BY <2>3 DEF TokenInv, NobodyLost
  <2> QED BY <2>4, <2>5, <2>6 DEF NobodyLost
<1>23. ASSUME NEW d \in Clients
       PROVE  RequestLife(d)'
  <2>1. \A q, k : Boxed(d, q, k)' <=> Boxed(d, q, k)
    <3>1. SUFFICES ASSUME NEW q, NEW k
                   PROVE  Boxed(d, q, k)' <=> Boxed(d, q, k)
      OBVIOUS
    <3>2. CASE q \in 1..n
      <4>1. boxes'[q] = boxes[q] /\ q \in DOMAIN boxes /\ q \in DOMAIN boxes'
        BY <1>4, <1>5, <3>2
      <4> QED BY <4>1 DEF Boxed
    <3>3. CASE q \notin 1..n
      <4>1. q \in DOMAIN boxes' => DOMAIN boxes'[q] = {}
        BY <1>4, <1>6, <3>3
      <4>2. q \notin DOMAIN boxes
        BY <1>4, <3>3
      <4> QED BY <4>1, <4>2 DEF Boxed
    <3> QED BY <3>2, <3>3
  <2>2. (NotBoxed(d)' <=> NotBoxed(d)) /\ (OnceBoxed(d)' <=> OnceBoxed(d))
    BY <2>1, BoxesOf, BoxesOfNext
  <2>3. (NotQueued(d)' <=> NotQueued(d)) /\ (OnceQueued(d)' <=> OnceQueued(d))
        /\ (Held(d)' <=> Held(d))
    BY <1>2, RequestsStay DEF Held
  <2>4. (Nowhere(d)' <=> Nowhere(d)) /\ (Somewhere(d)' <=> Somewhere(d))
    BY <2>2, <2>3 DEF Nowhere, Somewhere
  <2>5. CASE d = c
    <3>1. NotQueued(c)
      BY <1>12, <1>14 DEF NotQueued, Queued
    <3>2. ~Held(c)
      BY <1>12, <1>13, TokenNumbers DEF Held
    <3>3. NotBoxed(c)
      BY SMTT(60), <1>4, <1>12, <1>16 DEF NotBoxed, Boxed
    <3>4. Nowhere(d)' /\ ~Somewhere(d)'
      BY <2>4, <2>5, <3>1, <3>2, <3>3, NowhereOrSomewhere DEF Nowhere
    <3>5. d \notin lost'
      BY <1>2, <2>5 DEF TokenInv, NamesKept
    <3>6. cli'[d].at # "wait" /\ queues'[cli'[d].name] # 0
      BY <1>7, <1>9, <2>5
    <3> QED BY <3>4, <3>5, <3>6 DEF RequestLife
  <2>6. CASE d # c /\ cli[d].at # "new" /\ Sole(d)'
    <3>1. RequestLife(d)
      BY DEF TokenInv, RequestLives
    <3>2. cli'[d] = cli[d] /\ Sole(d)
      BY <1>21, <2>6
    <3>3. queues'[cli[d].name] = queues[cli[d].name]
      BY <1>7, <1>21, <2>6
    <3>4. lost' = lost
      BY <1>2
    <3> QED BY <2>4, <2>6, <3>1, <3>2, <3>3, <3>4 DEF RequestLife
  <2>7. CASE d # c /\ ~(cli[d].at # "new" /\ Sole(d)')
    <3>1. cli'[d] = cli[d]
      BY <1>9, <2>7
    <3> QED BY <2>7, <3>1 DEF RequestLife
  <2> QED BY <2>5, <2>6, <2>7
<1> QED BY <1>11, <1>17, <1>18, <1>19, <1>20, <1>22, <1>23, TypesKeptOfToken
        DEF TokenInv, RequestLives

\* At the start nothing is on its way, and no queue has been made.
LEMMA TokenBegins ==
  ASSUME Init, started = "token" \/ variant = "srv"
  PROVE  TokenInv
<1>1. /\ variant \in Variants
      /\ server = [at |-> "off", request |-> Nobody, qd |-> 0, fds |-> 0,
                   token_number |-> 1, runs |-> 0]
      /\ requests = <<>> /\ boxes = <<>> /\ lost = {}
      /\ queues = [n \in Names |-> 0] /\ users = [n \in Names |-> {}]
      /\ cli = [c \in Clients |-> [at |-> "new", name |-> "none", qd |-> 0,
                                   reply |-> NoReply, asks |-> 0]]
  BY DEF Init
<1>2. /\ Len(boxes) = 0 /\ DOMAIN boxes = {} /\ DOMAIN requests = {}
      /\ requests \in Seq(Requests) /\ boxes \in Seq(Seq(Replies))
  BY <1>1
<1>3. /\ server.at = "off" /\ server.request = Nobody /\ server.qd = 0 /\ server.fds = 0
      /\ server.runs = 0
      /\ \A c \in Clients : cli[c].at = "new" /\ cli[c].name = "none"
                            /\ cli[c].reply.to = "none"
  BY <1>1 DEF NoReply
<1>4. TypeOK
  <2>1. NoReply \in Replies
    BY DEF NoReply, Replies
  <2>2. server \in [at : {"off", "first", "open first", "receive", "open", "send"},
                    request : Requests \cup {Nobody}, qd : 0..0,
                    fds : 0..MaxDescriptors, token_number : Nat \ {0},
                    runs : 0..MaxServerRuns]
    BY <1>1, TokenNumbers
  <2>3. cli \in [Clients -> [at : {"new", "prompt", "wait", "gone"},
                             name : Names \cup {"none"}, qd : 0..0,
                             reply : Replies, asks : 0..MaxAsks]]
    BY <1>1, <2>1, TokenNumbers
  <2> QED BY <1>1, <1>2, <2>2, <2>3 DEF TypeOK
<1>5. NamesKept
  BY <1>1, <1>2, <1>3, TokenNumbers DEF NamesKept, InHand
<1>6. QueuesOwned
  <2>1. [q \in DOMAIN boxes |-> "none"] \in [DOMAIN boxes -> Names]
    BY <1>2
  <2>2. Owned([q \in DOMAIN boxes |-> "none"])
    BY <1>1, <1>2, <1>3 DEF Owned
  <2> QED BY <2>1, <2>2 DEF QueuesOwned
<1>7. RepliesOwned /\ RequestLives
  BY <1>3 DEF RepliesOwned, RequestLives, RequestLife
<1>8. WithinLimits
  BY <1>2, <1>3 DEF WithinLimits
<1>9. NobodyLost
  BY <1>1, <1>3 DEF NobodyLost, GivesUpNobody
<1> QED BY <1>4, <1>5, <1>6, <1>7, <1>8, <1>9 DEF TokenInv

\* Every step of the token programs keeps the invariant.
LEMMA TokenStep ==
  ASSUME TokenInv, Next
  PROVE  TokenInv'
<1>1. CASE StartServer
  BY <1>1, TokenServerStarts
<1>2. CASE ReceiveRequest
  BY <1>2, RequestTaken
<1>3. CASE OpenClient
  BY <1>3, ClientOpened
<1>4. CASE SendToken
  BY <1>4, TokenSent
<1>5. CASE OpenFirst \/ SendFails \/ KillServer
  BY <1>5, ServerGivesUp
<1>6. ASSUME NEW c \in Clients, Client(c)
      PROVE  TokenInv'
  <2>1. CASE Ask(c)
    BY <2>1, TokenAsked
  <2>2. CASE ReceiveToken(c)
    BY <2>2, TokenReceived
  <2>3. CASE Quit(c) \/ KillClient(c)
    BY <2>3, ClientEnds
  <2> QED BY <1>6, <2>1, <2>2, <2>3 DEF Client
<1>7. ASSUME NEW c \in Clients, NEW name \in Names, StartClient(c, name)
      PROVE  TokenInv'
  BY <1>7, TokenClientStarts
<1> QED BY <1>1, <1>2, <1>3, <1>4, <1>5, <1>6, <1>7 DEF Next, Server

\* A step of the socket programs leaves the queues alone.
LEMMA TokenSame ==
  ASSUME TokenInv, UNCHANGED token_vars
  PROVE  TokenInv'
<1>1. UNCHANGED <<variant, server, requests, queues, boxes, cli, users, lost>>
  BY DEF token_vars
<1>2. TypeOK' /\ NamesKept' /\ WithinLimits' /\ RepliesOwned'
  BY <1>1 DEF TokenInv, TypeOK, NamesKept, WithinLimits, RepliesOwned
<1>3. QueuesOwned' /\ NobodyLost'
  BY <1>1 DEF TokenInv, QueuesOwned, Owned, NobodyLost, GivesUpNobody, Sole
<1>4. RequestLives'
  BY <1>1, LivesSame DEF TokenInv
<1> QED BY <1>2, <1>3, <1>4 DEF TokenInv

-----------------------------------------------------------------------------
(* What the two invariants say.                                            *)

\* A reply that has been read by the only client of its name was for it.
LEMMA ReplyIsOwn ==
  ASSUME TokenInv
  PROVE  OwnReply
<1>1. SUFFICES ASSUME NEW c \in Clients, cli[c].reply.to # "none", Sole(c)
               PROVE  cli[c].reply.to = c
  BY DEF OwnReply
<1>2. TokenTypes
  BY TypesOfToken DEF TokenInv
<1>3. cli[c].reply.to \in Clients
  <2>1. cli[c].reply \in Replies
    BY <1>2, FieldsOfToken
  <2> QED BY <1>1, <2>1 DEF Replies
<1>4. cli[c].name \in Names /\ cli[cli[c].reply.to].name = cli[c].name
  <2>1. cli[c].at # "new" /\ cli[cli[c].reply.to].name = cli[c].name
    BY <1>1 DEF TokenInv, RepliesOwned
  <2>2. cli[c].name \in Names \cup {"none"}
    BY <1>2, FieldsOfToken
  <2> QED BY <2>1, <2>2 DEF TokenInv, NamesKept
<1>5. cli[c].reply.to \in users[cli[c].name]
  BY <1>3, <1>4 DEF TokenInv, NamesKept
<1> QED BY <1>1, <1>5 DEF Sole

\* How many requests and replies of a client there are, by where they are.
LEMMA Counted ==
  ASSUME TokenInv, NEW c \in Clients
  PROVE  /\ Nowhere(c) => Outstanding(c) = 0
         /\ Somewhere(c) => Outstanding(c) = 1
<1> DEFINE asked == {k \in DOMAIN requests : requests[k].from = c}
           given == {p \in (DOMAIN boxes) \X (1..MaxMessages) :
                       p[2] <= Len(boxes[p[1]]) /\ boxes[p[1]][p[2]].to = c}
<1>1. TokenTypes
  BY TypesOfToken DEF TokenInv
<1>2. \A q \in DOMAIN boxes : /\ DOMAIN boxes[q] = 1..Len(boxes[q])
                              /\ Len(boxes[q]) \in Nat /\ Len(boxes[q]) <= MaxMessages
  <2>1. DOMAIN boxes = 1..Len(boxes)
    BY <1>1 DEF TokenTypes
  <2>2. \A q \in DOMAIN boxes : boxes[q] \in Seq(Replies)
    BY <1>1, <2>1, FieldsOfToken
  <2>3. \A q \in DOMAIN boxes : Len(boxes[q]) <= MaxMessages
    BY DEF TokenInv, WithinLimits
  <2> QED BY <2>2, <2>3, LenProperties
<1>3. \A p : p \in given <=> \E q, k : p = <<q, k>> /\ Boxed(c, q, k)
  <2>1. ASSUME NEW q, NEW k
        PROVE  <<q, k>> \in given <=> Boxed(c, q, k)
    <3>1. CASE q \in DOMAIN boxes
      BY <1>2, <3>1, TokenNumbers DEF Boxed
    <3>2. CASE q \notin DOMAIN boxes
      BY <3>2 DEF Boxed
    <3> QED BY <3>1, <3>2
  <2>2. \A p \in given : \E q, k : p = <<q, k>>
    OBVIOUS
  <2> HIDE DEF given
  <2> QED BY <2>1, <2>2
<1>4. \A k : k \in asked <=> Queued(c, k)
  BY DEF Queued
<1>5. Outstanding(c) = Cardinality(asked) + (IF Held(c) THEN 1 ELSE 0) + Cardinality(given)
  BY DEF Outstanding, Held
<1> HIDE DEF asked, given
<1>6. NotQueued(c) => Cardinality(asked) = 0
  BY <1>4, FS_EmptySet DEF NotQueued, Queued
<1>7. OnceQueued(c) => Cardinality(asked) = 1
  <2>1. SUFFICES ASSUME NEW k, Queued(c, k), \A j : Queued(c, j) => j = k
                 PROVE  Cardinality(asked) = 1
    BY DEF OnceQueued, Queued
  <2>2. asked = {k}
    BY <1>4, <2>1
  <2> QED BY <2>2, FS_Singleton
<1>8. NotBoxed(c) => Cardinality(given) = 0
  <2>1. NotBoxed(c) => given = {}
    BY <1>3, BoxesOf
  <2> QED BY <2>1, FS_EmptySet
<1>9. OnceBoxed(c) => Cardinality(given) = 1
  <2>1. SUFFICES ASSUME NEW q, NEW k, Boxed(c, q, k),
                        \A p, j : Boxed(c, p, j) => p = q /\ j = k
                 PROVE  Cardinality(given) = 1
    BY BoxesOf
  <2>2. given = {<<q, k>>}
    BY <1>3, <2>1
  <2> QED BY <2>2, FS_Singleton
<1> QED BY <1>5, <1>6, <1>7, <1>8, <1>9 DEF Nowhere, Somewhere

\* A client that waits alone under its name has one request or reply, and
\* otherwise none.
LEMMA OneIsOutstanding ==
  ASSUME TokenInv
  PROVE  OneOutstanding
<1>1. SUFFICES ASSUME NEW c \in Clients, cli[c].at \in {"prompt", "wait"}, Sole(c),
                      c \notin lost
               PROVE  Outstanding(c) = (IF cli[c].at = "wait" THEN 1 ELSE 0)
  BY DEF OneOutstanding
<1>2. RequestLife(c)
  BY DEF TokenInv, RequestLives
<1>3. IF cli[c].at = "wait" THEN Somewhere(c) ELSE Nowhere(c)
  BY <1>1, <1>2 DEF RequestLife
<1> QED BY <1>3, Counted

\* While the server holds the request of such a client, its queue is empty.
LEMMA RoomForReply ==
  ASSUME TokenInv
  PROVE  NeverBlocks
<1>1. SUFFICES ASSUME server.at = "send", server.qd # 0, Sole(server.request.from)
               PROVE  Len(boxes[server.qd]) < MaxMessages
  BY DEF NeverBlocks
<1>2. TokenTypes
  BY TypesOfToken DEF TokenInv
<1>3. PICK c \in Clients : /\ c = server.request.from /\ cli[c].name = server.request.name
                           /\ cli[c].name \in Names /\ cli[c].at # "new"
  <2>1. /\ server.request \in Requests
        /\ cli[server.request.from].name = server.request.name
    BY <1>1 DEF TokenInv, NamesKept, InHand
  <2>2. server.request.from \in Clients /\ server.request.name \in Names
    BY <2>1 DEF Requests
  <2> QED BY <2>1, <2>2, TokenNumbers DEF TokenInv, NamesKept
<1>4. NotBoxed(c)
  <2>1. RequestLife(c) /\ Held(c)
    BY <1>3 DEF TokenInv, RequestLives, Held
  <2> QED BY <1>1, <1>3, <2>1 DEF RequestLife, Nowhere, Somewhere
<1>5. PICK owner \in [DOMAIN boxes -> Names] : Owned(owner)
  BY DEF TokenInv, QueuesOwned
<1>6. server.qd \in DOMAIN boxes /\ boxes[server.qd] \in Seq(Replies)
  <2>1. server.qd \in 1..Len(boxes) /\ DOMAIN boxes = 1..Len(boxes)
    BY <1>1, <1>2, FieldsOfToken DEF TokenTypes
  <2> QED BY <1>2, <2>1, FieldsOfToken
<1>7. owner[server.qd] = cli[c].name
  BY <1>1, <1>3, <1>5 DEF Owned
<1>8. ASSUME NEW k \in DOMAIN boxes[server.qd]
      PROVE  FALSE
  <2>1. /\ boxes[server.qd][k].to \in Clients
        /\ cli[boxes[server.qd][k].to].name = cli[c].name
    BY <1>5, <1>6, <1>7, <1>8 DEF Owned
  <2>2. boxes[server.qd][k].to \in users[cli[c].name]
    BY <1>3, <2>1 DEF TokenInv, NamesKept
  <2>3. boxes[server.qd][k].to = c
    BY <1>1, <1>3, <2>2 DEF Sole
  <2> QED BY <1>4, <1>6, <1>8, <2>3 DEF NotBoxed, Boxed
<1>9. Len(boxes[server.qd]) = 0
  <2>1. PICK s \in Seq(Replies) : s = boxes[server.qd]
    BY <1>6
  <2>2. DOMAIN s = {}
    BY <1>8, <2>1
  <2>3. s = <<>>
    BY <2>2, LenProperties, EmptySeq
  <2> QED BY <2>1, <2>3
<1> QED BY <1>9, TokenNumbers

\* Whoever was answered came first, in the same order.
LEMMA AnsweredInOrder ==
  ASSUME StreamInv
  PROVE  Stream!FirstComeFirstServed
<1>1. StreamTypes
  BY TypesOfStream DEF StreamInv
<1>2. Len(answered) <= Len(came) /\ \A k \in DOMAIN answered : answered[k] = came[k]
  <2>1. CASE srv.at # "off"
    <3>1. InService \in Seq(Callers)
      BY <1>1, <2>1, StreamNumbers DEF StreamInv, ServerPlaces, InService, StreamTypes
    <3>2. PICK s \in Seq(Callers) : s = InService \o backlog
      <4>1. backlog \in Seq(Callers)
        BY <1>1 DEF StreamTypes
      <4> QED BY <3>1, <4>1, ConcatProperties
    <3>3. came = answered \o s
      <4>1. came = answered \o InService \o backlog
        BY <2>1 DEF StreamInv, ComeInOrder
      <4>2. answered \in Seq(Callers) /\ backlog \in Seq(Callers)
        BY <1>1 DEF StreamTypes
      <4>3. (answered \o InService) \o backlog = answered \o (InService \o backlog)
        BY SMTT(60), <3>1, <4>2, ConcatAssociative
      <4> QED BY <3>2, <4>1, <4>3
    <3> QED BY <1>1, <3>2, <3>3, StartIsPrefix DEF StreamTypes
  <2>2. CASE srv.at = "off"
    BY <2>2 DEF StreamInv, ComeInOrder
  <2> QED BY <2>1, <2>2
<1>3. PICK n \in Nat : n = Len(answered) /\ n <= Len(came)
  BY <1>1, <1>2 DEF StreamTypes
<1>4. /\ \A k \in 1..n : answered[k] = came[k]
      /\ SubSeq(answered, 1, n) = [k \in 1..n |-> answered[k]]
      /\ SubSeq(came, 1, n) = [k \in 1..n |-> came[k]]
  BY <1>1, <1>2, <1>3 DEF StreamTypes
<1>5. SubSeq(answered, 1, n) = SubSeq(came, 1, n)
  BY <1>4
<1> QED BY <1>3, <1>5 DEF Stream!FirstComeFirstServed, Stream!IsPrefix

-----------------------------------------------------------------------------
(* The theorems.                                                           *)

\* Both invariants hold in every state: whichever programs run, the others stay
\* as they are.
LEMMA MessagesKept == MessagesSpec => [](StreamInv /\ TokenInv)
<1>1. MessagesInit => StreamInv /\ TokenInv
  BY StreamBegins, TokenBegins DEF MessagesInit
<1>2. StreamInv /\ TokenInv /\ [MessagesNext]_all_messages => (StreamInv /\ TokenInv)'
  <2> SUFFICES ASSUME StreamInv, TokenInv, [MessagesNext]_all_messages
               PROVE  (StreamInv /\ TokenInv)'
    OBVIOUS
  <2>1. CASE RunsToken /\ Next
    BY <2>1, TokenStep, StreamSame DEF RunsToken
  <2>2. CASE RunsStream /\ Stream!Next
    BY <2>2, StreamStep, TokenSame DEF RunsStream
  <2>3. CASE UNCHANGED all_messages
    BY <2>3, StreamSame, TokenSame DEF all_messages
  <2> QED BY <2>1, <2>2, <2>3 DEF MessagesNext
<1> QED BY <1>1, <1>2, PTL DEF MessagesSpec

\* Every variable of the servers and their clients stays in its range; above
\* all, the token server never has more queues open than it may
\* (ipc/mq/srv.c:59), and the socket server's backlog stays within what it asked
\* for (ipc/srv.c:71).
THEOREM MessagesTypeCorrect == MessagesSpec => []MessagesTypeOK
<1>1. StreamInv /\ TokenInv => MessagesTypeOK
  BY DEF StreamInv, TokenInv, MessagesTypeOK
<1> QED BY <1>1, MessagesKept, PTL

\* A client reads the token that was made for it (mq/cli.c:62); it has one
\* request or reply on its way as long as it waits and none when it does not,
\* also over a restart of the server; so the server never waits in mq_send
\* (mq/srv.c:68), and srv.c gives up nobody in its first run (mq/srv.c:59-72).
THEOREM RepliesGoRight == MessagesSpec => []RepliesRight
<1>1. TokenInv => RepliesRight
  BY ReplyIsOwn, OneIsOutstanding, RoomForReply DEF RepliesRight, TokenInv, NobodyLost
<1> QED BY <1>1, MessagesKept, PTL

\* The clients of the socket are answered in the order in which they connected
\* (srv.c:83), what one prints as its answer is one unless the server was killed
\* (cli.c:94-100), and of those that fail to bind one goes on (cli.c:50-56).
THEOREM AnswersAreRight == MessagesSpec => []AnswersRight
<1>1. StreamInv => AnswersRight
  BY AnsweredInOrder DEF StreamInv, Linked, AnswersRight
<1> QED BY <1>1, MessagesKept, PTL

=============================================================================
