---------------------------- MODULE TokenServer -----------------------------
(***************************************************************************)
(* ipc/mq/srv.c, ipc/mq/example/srv.c and monitor/monitor.c with clients   *)
(* like ipc/mq/cli.c.  A client makes a queue named after its pid, sends   *)
(* that name to the server's queue and waits for a token.  The queues      *)
(* outlive the programs, which may be killed.  Containers share the names  *)
(* of queues and not the pids, so two clients may have one name.           *)
(***************************************************************************)
EXTENDS Integers, Sequences, FiniteSets

CONSTANTS
  Clients,          \* the runs of cli.c
  Names,            \* names of client queues, one for each pid
  MaxMessages,      \* messages that fit into a client's queue (10)
  MaxDescriptors,   \* queues the server may have open at a time (RLIMIT_NOFILE)
  MaxAsks,          \* bound: lines that are typed into one client
  MaxServerRuns     \* bound: how often the server is started

ASSUME SizesAssumption ==
  MaxMessages \in Nat \ {0} /\ MaxDescriptors \in Nat /\ MaxDescriptors > 2
ASSUME NamesAssumption == "none" \notin Names \cup Clients
ASSUME BoundsAssumption == MaxAsks \in Nat /\ MaxServerRuns \in Nat

\* srv.c closes what it opens, example/srv.c never does, and monitor.c takes
\* its first message for a registration and keeps that queue open.
Variants == {"srv", "example", "monitor"}

VARIABLES
  variant,    \* which server it is
  server,     \* where it is, what it has received, its descriptor and counters
  requests,   \* the server's queue
  queues,     \* the queue each name stands for, 0 for none
  boxes,      \* the messages of every client queue made so far
  cli,        \* every client: where it is, its name, its queue, its last reply
  users,      \* auxiliary: the clients that ever used a name
  lost        \* auxiliary: clients with a request the server gave up

token_vars == <<variant, server, requests, queues, boxes, cli, users, lost>>

Nobody == [name |-> "none", from |-> "none"]
NoReply == [token |-> 0, to |-> "none"]

Init ==
  /\ variant \in Variants
  /\ server = [at |-> "off", request |-> Nobody, qd |-> 0, fds |-> 0,
               token_number |-> 1, runs |-> 0]
  /\ requests = <<>> /\ boxes = <<>> /\ lost = {}
  /\ queues = [n \in Names |-> 0] /\ users = [n \in Names |-> {}]
  /\ cli = [c \in Clients |-> [at |-> "new", name |-> "none", qd |-> 0,
                               reply |-> NoReply, asks |-> 0]]

-----------------------------------------------------------------------------
(* The server.                                                             *)

\* Its queue stays from one run to the next, with what is in it.
StartServer ==
  /\ server.at = "off" /\ server.runs < MaxServerRuns
  /\ server' = [at |-> IF variant = "monitor" THEN "first" ELSE "receive",
                request |-> Nobody, qd |-> 0, fds |-> 0,
                token_number |-> 1, runs |-> server.runs + 1]
  /\ UNCHANGED <<variant, requests, queues, boxes, cli, users, lost>>

ReceiveRequest ==
  /\ server.at \in {"first", "receive"} /\ requests # <<>>
  /\ server' = [server EXCEPT !.request = Head(requests),
                              !.at = IF @ = "first" THEN "open first" ELSE "open"]
  /\ requests' = Tail(requests)
  /\ UNCHANGED <<variant, queues, boxes, cli, users, lost>>

\* mq_open fails when the name is gone or all descriptors are in use.
Opened_Unlimited == queues[server.request.name]   \* mutant
Opened == IF server.fds < MaxDescriptors THEN queues[server.request.name] ELSE 0

\* The test for failure compares with 1: the server goes on in either case.
OpenClient ==
  /\ server.at = "open"
  /\ server' = [server EXCEPT !.at = "send", !.qd = Opened,
                              !.fds = IF Opened = 0 THEN @ ELSE @ + 1]
  /\ UNCHANGED <<variant, requests, queues, boxes, cli, users, lost>>

\* monitor.c gives no token for the first message.
OpenFirst ==
  /\ server.at = "open first"
  /\ server' = [server EXCEPT !.at = "receive", !.request = Nobody, !.qd = Opened,
                              !.fds = IF Opened = 0 THEN @ ELSE @ + 1]
  /\ lost' = lost \cup {server.request.from}
  /\ UNCHANGED <<variant, requests, queues, boxes, cli, users>>

Closed_Never == FALSE   \* mutant: no mq_close
Closed == variant # "example"

\* mq_send waits while the queue is full.
SendToken ==
  /\ server.at = "send" /\ server.qd # 0
  /\ Len(boxes[server.qd]) < MaxMessages
  /\ boxes' = [boxes EXCEPT ![server.qd] =
                 Append(@, [token |-> server.token_number, to |-> server.request.from])]
  /\ server' = [server EXCEPT !.at = "receive", !.request = Nobody,
                              !.token_number = @ + 1,
                              !.fds = IF Closed THEN @ - 1 ELSE @]
  /\ UNCHANGED <<variant, requests, queues, cli, users, lost>>

SendFails_Retries ==   \* mutant: the same client is opened and sent to again
  /\ server.at = "send" /\ server.qd = 0
  /\ server' = [server EXCEPT !.at = "open"]
  /\ UNCHANGED <<variant, requests, queues, boxes, cli, users, lost>>
SendFails ==
  /\ server.at = "send" /\ server.qd = 0
  /\ server' = [server EXCEPT !.at = "receive", !.request = Nobody]
  /\ lost' = lost \cup {server.request.from}
  /\ UNCHANGED <<variant, requests, queues, boxes, cli, users>>

\* The request in its hands is lost with it.
KillServer ==
  /\ server.at # "off"
  /\ server' = [server EXCEPT !.at = "off", !.request = Nobody, !.qd = 0, !.fds = 0]
  /\ lost' = lost \cup ({server.request.from} \ {"none"})
  /\ UNCHANGED <<variant, requests, queues, boxes, cli, users>>

Server == \/ ReceiveRequest \/ OpenClient \/ OpenFirst
          \/ SendToken \/ SendFails

-----------------------------------------------------------------------------
(* The clients.                                                            *)

\* The client's queue is made, or opened when it is there already; without
\* the server's queue the client exits and leaves its own behind.
StartClient(c, name) ==
  /\ cli[c].at = "new"
  /\ boxes' = IF queues[name] = 0 THEN Append(boxes, <<>>) ELSE boxes
  /\ queues' = IF queues[name] = 0 THEN [queues EXCEPT ![name] = Len(boxes')]
                                   ELSE queues
  /\ cli' = [cli EXCEPT ![c].at = IF server.runs = 0 THEN "gone" ELSE "prompt",
                        ![c].name = name, ![c].qd = queues'[name]]
  /\ users' = [users EXCEPT ![name] = @ \cup {c}]
  /\ UNCHANGED <<variant, server, requests, lost>>

\* The server's queue is taken to be large enough for one request per client.
Ask(c) ==
  /\ cli[c].at = "prompt" /\ cli[c].asks < MaxAsks
  /\ cli' = [cli EXCEPT ![c].at = "wait", ![c].asks = @ + 1]
  /\ requests' = Append(requests, [name |-> cli[c].name, from |-> c])
  /\ UNCHANGED <<variant, server, queues, boxes, users, lost>>

ReceiveToken(c) ==
  /\ cli[c].at = "wait" /\ boxes[cli[c].qd] # <<>>
  /\ cli' = [cli EXCEPT ![c].at = "prompt", ![c].reply = Head(boxes[cli[c].qd])]
  /\ boxes' = [boxes EXCEPT ![cli[c].qd] = Tail(@)]
  /\ UNCHANGED <<variant, server, requests, queues, users, lost>>

\* The end of its input: mq_unlink, by name.
Quit(c) ==
  /\ cli[c].at = "prompt"
  /\ cli' = [cli EXCEPT ![c].at = "gone"]
  /\ queues' = [queues EXCEPT ![cli[c].name] = 0]
  /\ UNCHANGED <<variant, server, requests, boxes, users, lost>>

KillClient(c) ==
  /\ cli[c].at \in {"prompt", "wait"}
  /\ cli' = [cli EXCEPT ![c].at = "gone"]
  /\ UNCHANGED <<variant, server, requests, queues, boxes, users, lost>>

Client(c) == Ask(c) \/ ReceiveToken(c) \/ Quit(c) \/ KillClient(c)

Next == \/ StartServer \/ Server \/ KillServer
        \/ \E c \in Clients : Client(c) \/ \E name \in Names : StartClient(c, name)

Spec == Init /\ [][Next]_token_vars

\* The server runs, and a client that is alive takes what is in its queue.
FairSpec == Spec /\ WF_token_vars(Server)
                 /\ \A c \in Clients : WF_token_vars(ReceiveToken(c))

-----------------------------------------------------------------------------
(* What must hold.                                                         *)

Replies == [token : Nat, to : Clients \cup {"none"}]
Requests == [name : Names, from : Clients]

\* Every variable stays in its range, and the server never exceeds its
\* descriptors.
TypeOK ==
  /\ variant \in Variants
  /\ server \in [at : {"off", "first", "open first", "receive", "open", "send"},
                 request : Requests \cup {Nobody}, qd : 0..Len(boxes),
                 fds : 0..MaxDescriptors, token_number : Nat \ {0},
                 runs : 0..MaxServerRuns]
  /\ requests \in Seq(Requests) /\ boxes \in Seq(Seq(Replies))
  /\ queues \in [Names -> 0..Len(boxes)]
  /\ cli \in [Clients -> [at : {"new", "prompt", "wait", "gone"},
                          name : Names \cup {"none"}, qd : 0..Len(boxes),
                          reply : Replies, asks : 0..MaxAsks]]
  /\ users \in [Names -> SUBSET Clients] /\ lost \subseteq Clients

Sole(c) == users[cli[c].name] = {c}

\* The token a client takes is the one for its own request, for a client that
\* never shared its name with an earlier or another one (ipc/mq/cli.c:29-64);
\* who did may take the token of one that was killed or runs elsewhere.
OwnReply == \A c \in Clients : cli[c].reply.to # "none" /\ Sole(c) => cli[c].reply.to = c

Outstanding(c) ==
  Cardinality({k \in DOMAIN requests : requests[k].from = c})
    + (IF server.request.from = c THEN 1 ELSE 0)
    + Cardinality({p \in (DOMAIN boxes) \X (1..MaxMessages) :
                     p[2] <= Len(boxes[p[1]]) /\ boxes[p[1]][p[2]].to = c})

\* Its request, or the reply to it, is in one place as long as it waits, also
\* when the server is started again meanwhile, and nothing is left over when
\* it does not wait (srv.c:53-72).
OneOutstanding ==
  \A c \in Clients :
    cli[c].at \in {"prompt", "wait"} /\ Sole(c) /\ c \notin lost =>
      Outstanding(c) = (IF cli[c].at = "wait" THEN 1 ELSE 0)

\* So the server, which has but one thread, never waits for a client to make
\* room in its queue, unless the name of that queue was used twice (srv.c:68).
NeverBlocks ==
  server.at = "send" /\ server.qd # 0 /\ Sole(server.request.from) =>
    Len(boxes[server.qd]) < MaxMessages

\* srv.c gives up nobody in one run, however many it has answered and however
\* often a send has failed: it closes what it opens, and only that
\* (srv.c:59-72).  example/srv.c comes to where it can open no queue any more.
GivesUpNobody ==
  variant = "srv" /\ server.runs = 1 /\ server.at # "off" =>
    \A c \in lost : ~Sole(c)

\* The server waits in mq_send on a full queue that nobody takes from, for a
\* client whose name another one has used, too.
Stuck ==
  /\ server.at = "send" /\ server.qd # 0 /\ Len(boxes[server.qd]) = MaxMessages
  /\ ~Sole(server.request.from)
  /\ \A c \in Clients : cli[c].at = "wait" => cli[c].qd # server.qd

\* Who waits is answered, unless the server was killed with the request in its
\* hands or is not there, gave the request up, or the name was used twice.  Two
\* others that share a name and are gone can keep it waiting, too, as they leave
\* their queue full and srv.c, with its one thread, waits for room in it
\* (srv.c:68).
Answered ==
  \A c \in Clients :
    cli[c].at = "wait" ~>
      cli[c].at # "wait" \/ c \in lost \/ ~Sole(c) \/ server.at = "off" \/ Stuck

=============================================================================
