------------------------------ MODULE MiniRpc ------------------------------
(***************************************************************************)
(* mini-rpc: the procedure calls between the switch daemons.  A server     *)
(* selects on its listening socket and on the sockets of its clients; a    *)
(* client has one call under way, gives up after a time, and may then call *)
(* again on the same connection.  Requests and answers carry no number.    *)
(*                                                                         *)
(* A request is the function's name and, for the properties, the number of *)
(* the call; an answer is the request it answers, or an error.             *)
(***************************************************************************)
EXTENDS Integers, Sequences, FiniteSetsExt

CONSTANTS
  Clients,      \* client processes
  MaxClients,   \* MINIPC_MAX_CLIENTS
  FirstFd,      \* lowest descriptor that is free in the server
  SelectMax,    \* the constant 64 in minipc_server_action()
  Functions,    \* names of the procedures that may be exported
  MaxCalls,     \* calls of all clients together, a bound
  MaxConnects   \* connections of all clients together, a bound

ASSUME RpcAssumption == MaxClients \in Nat /\ FirstFd \in Nat \ {0}

VARIABLES
  rpClient,     \* of each client: pc, connections, calls, calls timed out on this
                \* connection, the answer taken last
  rpConn,       \* of each client: server's fd (0: not accepted), both directions, closed ends
  rpSlot,       \* link->fd[]: MaxClients descriptors, 0 for -1
  rpServer,     \* pc, the set select() returned, the next slot
  rpExports     \* link->flist

rpVars == <<rpClient, rpConn, rpSlot, rpServer, rpExports>>

Slots == 1..MaxClients
NoConn == [fd |-> 0, req |-> <<>>, rep |-> <<>>, clientShut |-> FALSE, serverShut |-> FALSE]
Idle == [pc |-> "select", set |-> {}, slot |-> 1]

RpInit ==
  /\ rpClient = [c \in Clients |-> [pc |-> "off", conns |-> 0, n |-> 0, late |-> 0, took |-> <<>>]]
  /\ rpConn = [c \in Clients |-> NoConn]
  /\ rpSlot = [i \in Slots |-> 0]
  /\ rpServer = Idle
  /\ rpExports = {}

-----------------------------------------------------------------------------
(* minipc_export() and minipc_unexport(), called by the server between two *)
(* actions.  minipc_unexport() looks for the entry, then asks              *)
(* mpc_free_flist() to release the address of its own parameter, which is  *)
(* in no list: nothing is removed.                                         *)

Selecting == rpServer.pc = "select"

minipc_export(f) ==
  /\ Selecting
  /\ f \notin rpExports
  /\ rpExports' = rpExports \cup {f}
  /\ UNCHANGED <<rpClient, rpConn, rpSlot, rpServer>>

FreedFlist(f) == {}

minipc_unexport(f) ==
  /\ Selecting
  /\ f \in rpExports
  /\ rpExports' = rpExports \ FreedFlist(f)
  /\ UNCHANGED <<rpClient, rpConn, rpSlot, rpServer>>

-----------------------------------------------------------------------------
(* The client.                                                             *)

ServerOnly == UNCHANGED <<rpSlot, rpServer, rpExports>>
MayConnect == MapThenSumSet(LAMBDA d : rpClient[d].conns, Clients) < MaxConnects
MayCall == MapThenSumSet(LAMBDA d : rpClient[d].n, Clients) < MaxCalls
ClientTo(c, pc) == rpClient' = [rpClient EXCEPT ![c].pc = pc]

(* minipc_client_create(): the connection waits in the listen queue.       *)
minipc_client_create(c) ==
  /\ rpClient[c].pc = "off"
  /\ MayConnect
  /\ rpClient' = [rpClient EXCEPT ![c] =
                    [pc |-> "ready", conns |-> @.conns + 1, n |-> @.n, late |-> 0, took |-> <<>>]]
  /\ rpConn' = [rpConn EXCEPT ![c] = NoConn]
  /\ ServerOnly

(* minipc_call() sends; to a connection the server has closed it fails     *)
(* (the signal that send() raises ends the process).                       *)
SendRequest(c, f) ==
  /\ rpClient[c].pc = "ready"
  /\ MayCall
  /\ IF rpConn[c].serverShut
     THEN ClientTo(c, "closing") /\ UNCHANGED rpConn
     ELSE /\ rpClient' = [rpClient EXCEPT ![c].pc = "waiting", ![c].n = @ + 1]
          /\ rpConn' = [rpConn EXCEPT ![c].req = Append(@, <<f, rpClient[c].n + 1>>)]
  /\ ServerOnly

(* ... polls, and takes what is first in the socket: an answer, or the end *)
(* of the connection, which is a short answer.                             *)
TakeAnswer(c) ==
  /\ rpClient[c].pc = "waiting"
  /\ \/ /\ rpConn[c].rep # <<>>
        /\ rpClient' = [rpClient EXCEPT ![c].pc = "ready", ![c].took = Head(rpConn[c].rep)]
        /\ rpConn' = [rpConn EXCEPT ![c].rep = Tail(@)]
     \/ /\ rpConn[c].rep = <<>> /\ rpConn[c].serverShut
        /\ ClientTo(c, "closing") /\ UNCHANGED rpConn
  /\ ServerOnly

(* ... or poll() times out.                                                *)
TimeOut(c) ==
  /\ rpClient[c].pc = "waiting"
  /\ rpClient' = [rpClient EXCEPT ![c].pc = "ready", ![c].late = @ + 1]
  /\ UNCHANGED rpConn /\ ServerOnly

minipc_close(c) ==
  /\ rpClient[c].pc \in {"ready", "closing"}
  /\ rpClient' = [rpClient EXCEPT ![c].pc = IF rpConn[c].serverShut THEN "off" ELSE "gone"]
  /\ rpConn' = [rpConn EXCEPT ![c].clientShut = TRUE]
  /\ ServerOnly

-----------------------------------------------------------------------------
(* The server: minipc_server_action() takes the set of descriptors that    *)
(* are ready, then goes through its slots, then accepts one connection.    *)
(* Clients go on meanwhile.                                                *)

UsedFds == {rpConn[c].fd : c \in Clients} \ {0}
Of(fd) == CHOOSE c \in Clients : rpConn[c].fd = fd
Readable(c) == rpConn[c].req # <<>> \/ rpConn[c].clientShut
Listening == {c \in Clients : rpClient[c].pc # "off" /\ rpConn[c].fd = 0 /\ ~rpConn[c].serverShut}

(* Descriptor 0 of the set stands for the listening socket.  select() is   *)
(* asked for descriptors below SelectMax only.                             *)
Ready == {rpConn[c].fd : c \in {d \in Clients : rpConn[d].fd \in (1..SelectMax - 1) /\ Readable(d)}}
           \cup (IF Listening = {} THEN {} ELSE {0})

Select ==
  /\ Selecting
  /\ Ready # {}
  /\ rpServer' = [pc |-> "slots", set |-> Ready, slot |-> 1]
  /\ UNCHANGED <<rpClient, rpConn, rpSlot, rpExports>>

NextSlot == rpServer' = [rpServer EXCEPT !.slot = @ + 1]

(* mpc_handle_client(): a request is answered, unknown functions with an   *)
(* error; the end of the connection, or an answer that cannot be sent,     *)
(* frees the slot.                                                         *)
Reply(request) ==
  IF request[1] \in rpExports THEN request ELSE <<"EOPNOTSUPP", request[2]>>

(* Mutant: the slot keeps the descriptor that was closed.                  *)
close_client_KeepsSlot(i) == rpSlot

close_client(i) == [rpSlot EXCEPT ![i] = 0]

HasRequest(fd) == fd \in UsedFds /\ rpConn[Of(fd)].req # <<>>
HasEnd(fd) == fd \in UsedFds /\ rpConn[Of(fd)].req = <<>> /\ rpConn[Of(fd)].clientShut

AnswerRequest(i) ==
  /\ HasRequest(rpSlot[i])
  /\ LET c == Of(rpSlot[i]) IN
     IF rpConn[c].clientShut
     THEN /\ rpConn' = [rpConn EXCEPT ![c] = [NoConn EXCEPT !.serverShut = TRUE]]
          /\ rpSlot' = close_client(i)
          /\ rpClient' = [rpClient EXCEPT ![c].pc = "off"]
     ELSE /\ rpConn' = [rpConn EXCEPT ![c].req = Tail(@), ![c].rep = Append(@, Reply(Head(rpConn[c].req)))]
          /\ UNCHANGED <<rpSlot, rpClient>>

HangUp(i) ==
  /\ HasEnd(rpSlot[i])
  /\ rpConn' = [rpConn EXCEPT ![Of(rpSlot[i])] = [NoConn EXCEPT !.serverShut = TRUE]]
  /\ rpClient' = [rpClient EXCEPT ![Of(rpSlot[i])].pc = "off"]
  /\ rpSlot' = close_client(i)

SlotReady(i) == rpSlot[i] # 0 /\ rpSlot[i] \in rpServer.set

mpc_handle_client ==
  /\ rpServer.pc = "slots" /\ rpServer.slot \in Slots
  /\ SlotReady(rpServer.slot)
  /\ AnswerRequest(rpServer.slot) \/ HangUp(rpServer.slot)
  /\ NextSlot
  /\ UNCHANGED rpExports

SkipSlot ==
  /\ rpServer.pc = "slots" /\ rpServer.slot \in Slots
  /\ ~SlotReady(rpServer.slot)
  /\ NextSlot
  /\ UNCHANGED <<rpClient, rpConn, rpSlot, rpExports>>

(* mpc_handle_connection(): the first free slot, or the client is turned   *)
(* away.                                                                   *)
NewFd == Min((FirstFd..FirstFd + MaxClients + 1) \ UsedFds)

mpc_handle_connection(c) ==
  /\ c \in Listening
  /\ IF \E i \in Slots : rpSlot[i] = 0
     THEN /\ rpSlot' = [rpSlot EXCEPT ![Min({i \in Slots : rpSlot[i] = 0})] = NewFd]
          /\ rpConn' = [rpConn EXCEPT ![c].fd = NewFd]
          /\ UNCHANGED rpClient
     ELSE /\ rpConn' = [rpConn EXCEPT ![c] = [NoConn EXCEPT !.serverShut = TRUE]]
          /\ rpClient' = [rpClient EXCEPT ![c].pc = IF @ = "gone" THEN "off" ELSE @]
          /\ UNCHANGED rpSlot

EndOfAction ==
  /\ rpServer.pc = "slots" /\ rpServer.slot \notin Slots
  /\ IF 0 \in rpServer.set
     THEN \E c \in Listening : mpc_handle_connection(c)
     ELSE UNCHANGED <<rpSlot, rpConn, rpClient>>
  /\ rpServer' = Idle
  /\ UNCHANGED rpExports

-----------------------------------------------------------------------------
Call(c) ==
  \/ minipc_client_create(c)
  \/ \E f \in Functions : SendRequest(c, f)
  \/ TakeAnswer(c)
  \/ TimeOut(c)
  \/ minipc_close(c)

minipc_server_action == Select \/ mpc_handle_client \/ SkipSlot \/ EndOfAction

RpNext ==
  \/ \E c \in Clients : Call(c)
  \/ minipc_server_action
  \/ \E f \in Functions : minipc_export(f) \/ minipc_unexport(f)

RpSpec == RpInit /\ [][RpNext]_rpVars

-----------------------------------------------------------------------------
(* The server never waits in recv(): every descriptor in a slot belongs to *)
(* one connection, so what select() found ready is still there when its    *)
(* slot is reached, however clients hang up and descriptors are reused.    *)
ServerNeverBlocks ==
  rpServer.pc = "slots" /\ rpServer.slot \in Slots /\ SlotReady(rpServer.slot)
    => HasRequest(rpSlot[rpServer.slot]) \/ HasEnd(rpSlot[rpServer.slot])

(* A call gets its own answer as long as no call on this connection has    *)
(* timed out; after k late answers it gets one of the last k calls' own.   *)
OwnAnswer ==
  \A c \in Clients : rpClient[c].pc = "ready" /\ rpClient[c].took # <<>>
    => rpClient[c].took[2] \in (rpClient[c].n - rpClient[c].late)..rpClient[c].n

(* The server never waits in recv(), and a client gets the answer of its   *)
(* call, or of one as many back as calls timed out on its connection       *)
(* (minipc_server_action(), mpc_handle_client(), minipc_call()).           *)
RpcSound == ServerNeverBlocks /\ OwnAnswer
=============================================================================
