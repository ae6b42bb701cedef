----------------------------- MODULE IpcMessages -----------------------------
(***************************************************************************)
(* The servers and clients that talk through queues and sockets, for one   *)
(* run: those of TokenServer and StreamSocket.  They have no object in     *)
(* common; a behaviour is that of one of them, the other one stays as it   *)
(* is.                                                                     *)
(***************************************************************************)
EXTENDS TokenServer

CONSTANTS Callers, Backlog, MaxServers

VARIABLES started,   \* which programs they are
          srv, backlog, file, caller, link, came, answered

Stream == INSTANCE StreamSocket

ASSUME StreamAssumption == Stream!BoundsOK

stream == <<srv, backlog, file, caller, link, came, answered>>
all_messages == <<token_vars, started, stream>>

RunsToken  == started = "token"  /\ UNCHANGED <<started, stream>>
RunsStream == started = "stream" /\ UNCHANGED <<started, token_vars>>

MessagesInit ==
  /\ started \in {"token", "stream"} /\ Init /\ Stream!Init
  /\ (started = "token" \/ variant = "srv") /\ (started = "stream" \/ ~file)

MessagesNext == \/ RunsToken /\ Next
                \/ RunsStream /\ Stream!Next

\* The fairness of either, as it is stated in its module.
MessagesSpec ==
  /\ MessagesInit /\ [][MessagesNext]_all_messages
  /\ WF_all_messages(RunsToken /\ Server)
  /\ \A c \in Clients : WF_all_messages(RunsToken /\ ReceiveToken(c))
  /\ WF_all_messages(RunsStream /\ Stream!Server)
  /\ \A c \in Callers : WF_all_messages(RunsStream /\ Stream!Caller(c))

\* Every variable of the servers and their clients stays in its range.
MessagesTypeOK == TypeOK /\ Stream!TypeOK

\* A client reads the reply that is for it (mq/cli.c:62); no name has two
\* replies outstanding for one request, so that the server never waits in
\* mq_send (mq/srv.c:68); and it gives up no client whose queue it could
\* have opened (mq/srv.c:59-72).
RepliesRight == OwnReply /\ OneOutstanding /\ NeverBlocks /\ GivesUpNobody

\* Clients of the socket are answered in the order in which they connected
\* (srv.c:83), what one prints as the data it received is an answer
\* (cli.c:94-100), and one that fails to bind has lost to one that goes on
\* (cli.c:50-56).
AnswersRight == /\ Stream!FirstComeFirstServed /\ Stream!NoEmptyAnswer
                /\ Stream!LoserHasWinner

\* A client that asked for a token gets it (mq/srv.c:53-72), and no client of
\* the socket is left waiting, whoever dies (srv.c:83-154).
NobodyWaits == Answered /\ Stream!NobodyHangs

=============================================================================
