------------------------------- MODULE MemRpc -------------------------------
(***************************************************************************)
(* mini-rpc over shared memory.  One request and one answer live in the    *)
(* memory, each with a counter; the process on either side has a child     *)
(* that polls the other side's counter and writes one byte into a pipe for *)
(* every change.  A server without operating system (minipc-mem-server.c)  *)
(* polls the counter itself.  A request has two parts, name and arguments, *)
(* written one after the other; an answer is the request it was made from. *)
(***************************************************************************)
EXTENDS Integers

CONSTANTS
  Hosted,       \* which kinds of server, a set of Booleans
  MaxMemCalls   \* calls of the client, a bound

ASSUME HostedAssumption == Hosted \subseteq BOOLEAN

VARIABLES
  mrShm,        \* struct mpc_shmem
  mrServer,     \* hosted; pc; name taken; child's prev and bytes in the pipe
  mrClient      \* pc; calls; timed out; child's prev and bytes in the pipe; answer taken

mrVars == <<mrShm, mrServer, mrClient>>

MrInit ==
  /\ mrShm = [nrequest |-> 0, nreply |-> 0, name |-> 0, args |-> 0, reply |-> <<0, 0>>]
  /\ mrServer \in {[hosted |-> b, pc |-> "idle", name |-> 0, prev |-> 0, bytes |-> 0] : b \in Hosted}
  /\ mrClient = [pc |-> "ready", n |-> 0, late |-> 0, prev |-> 0, bytes |-> 0, took |-> <<0, 0>>]

-----------------------------------------------------------------------------
(* The client's minipc_call().                                             *)

CallName ==
  /\ mrClient.pc = "ready" /\ mrClient.n < MaxMemCalls
  /\ mrClient' = [mrClient EXCEPT !.pc = "args", !.n = @ + 1]
  /\ mrShm' = [mrShm EXCEPT !.name = mrClient.n + 1]
  /\ UNCHANGED mrServer

CallArgs ==
  /\ mrClient.pc = "args"
  /\ mrClient' = [mrClient EXCEPT !.pc = "count"]
  /\ mrShm' = [mrShm EXCEPT !.args = mrClient.n]
  /\ UNCHANGED mrServer

CallCount ==
  /\ mrClient.pc = "count"
  /\ mrClient' = [mrClient EXCEPT !.pc = "poll"]
  /\ mrShm' = [mrShm EXCEPT !.nrequest = @ + 1]
  /\ UNCHANGED mrServer

TakeReply ==
  /\ mrClient.pc = "poll" /\ mrClient.bytes > 0
  /\ mrClient' = [mrClient EXCEPT !.pc = "ready", !.bytes = @ - 1, !.took = mrShm.reply]
  /\ UNCHANGED <<mrShm, mrServer>>

CallTimesOut ==
  /\ mrClient.pc = "poll" /\ mrClient.bytes = 0
  /\ mrClient' = [mrClient EXCEPT !.pc = "ready", !.late = @ + 1]
  /\ UNCHANGED <<mrShm, mrServer>>

-----------------------------------------------------------------------------
(* __minipc_child() of the client and of the server.                       *)

(* Mutant: the child never notes that it has reported a change.            *)
Reported_Again(prev) == prev

Reported(prev) == prev + 1

ClientChild ==
  /\ mrShm.nreply # mrClient.prev
  /\ mrClient.bytes < MaxMemCalls         \* the pipe holds more than that
  /\ mrClient' = [mrClient EXCEPT !.bytes = @ + 1, !.prev = Reported(@)]
  /\ UNCHANGED <<mrShm, mrServer>>

ServerChild ==
  /\ mrServer.hosted
  /\ mrShm.nrequest # mrServer.prev
  /\ mrServer.bytes < MaxMemCalls
  /\ mrServer' = [mrServer EXCEPT !.bytes = @ + 1, !.prev = Reported(@)]
  /\ UNCHANGED <<mrShm, mrClient>>

(* mpc_handle_client() with shared memory, or the freestanding action,     *)
(* which keeps the counter in link->pid: look up the name, run the         *)
(* function with the arguments, count the answer.                          *)
TakeRequest ==
  /\ mrServer.pc = "idle"
  /\ \/ /\ mrServer.hosted /\ mrServer.bytes > 0
        /\ mrServer' = [mrServer EXCEPT !.pc = "run", !.name = mrShm.name, !.bytes = @ - 1]
     \/ /\ ~mrServer.hosted /\ mrShm.nrequest # mrServer.prev
        /\ mrServer' = [mrServer EXCEPT !.pc = "run", !.name = mrShm.name, !.prev = mrShm.nrequest]
  /\ UNCHANGED <<mrShm, mrClient>>

RunFunction ==
  /\ mrServer.pc = "run"
  /\ mrServer' = [mrServer EXCEPT !.pc = "reply"]
  /\ mrShm' = [mrShm EXCEPT !.reply = <<mrServer.name, mrShm.args>>]
  /\ UNCHANGED mrClient

CountReply ==
  /\ mrServer.pc = "reply"
  /\ mrServer' = [mrServer EXCEPT !.pc = "idle"]
  /\ mrShm' = [mrShm EXCEPT !.nreply = @ + 1]
  /\ UNCHANGED mrClient

MrNext ==
  \/ CallName \/ CallArgs \/ CallCount \/ TakeReply \/ CallTimesOut
  \/ ClientChild \/ ServerChild
  \/ TakeRequest \/ RunFunction \/ CountReply

MrSpec == MrInit /\ [][MrNext]_mrVars

-----------------------------------------------------------------------------
(* Until a call times out, every answer taken is that of the call that     *)
(* waits for it and was made from the name and the arguments of one call:  *)
(* the two counters and the bytes in the pipes keep the two sides in step. *)
InStep ==
  mrClient.late = 0 /\ mrClient.pc = "ready" => mrClient.took = <<mrClient.n, mrClient.n>>
=============================================================================
