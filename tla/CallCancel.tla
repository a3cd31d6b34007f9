------------------------------- MODULE CallCancel -------------------------------
(***************************************************************************)
(* Cancelling a call with Ctrl-C (cppipc/client/comm_client.hpp, call):    *)
(* while a call runs, the client's own handler replaces the one of the     *)
(* host, which is Python.  It notes the command that was running and tells *)
(* the server.  Afterwards the client raises the signal again for the host *)
(* if the server has shown no interest in it.                              *)
(*                                                                         *)
(* The handler and the server are not in the repository: what they do is   *)
(* taken from the names they go by (get_cancelled_command, must_cancel)    *)
(* and the use that call makes of them.  Only the main thread calls.       *)
(***************************************************************************)
EXTENDS Integers

CONSTANT MaxCalls      \* bound: the number of calls

ASSUME MaxCallsNat == MaxCalls \in Nat

VARIABLES
  enabled,     \* cancel_handling_enabled
  commandId,   \* m_command_id
  running,     \* get_running_command()
  cancelled,   \* get_cancelled_command()
  handler,     \* whose handler gets SIGINT: "host" or "client"
  doing,       \* how far call has come
  checked,     \* the property "cancel" of the reply: the server has asked must_cancel
  told,        \* the host was told of an interrupt of this call
  hit,         \* history: an interrupt came while the client's handler was in place
  failed       \* history: the handler of the host could not be put back in this call

cancelVars == <<enabled, commandId, running, cancelled, handler, doing, checked, told, hit, failed>>

Then(from, to) == doing = from /\ doing' = to

\* command_id = m_command_id.inc(), and its store into the running command
StartCall == /\ Then("idle", "install") /\ commandId < MaxCalls
             /\ commandId' = commandId + 1 /\ running' = commandId + 1
             /\ told' = FALSE /\ hit' = FALSE /\ failed' = FALSE /\ checked' = FALSE
             /\ UNCHANGED <<enabled, cancelled, handler>>

\* set_handler: it may fail, and then leaves the handler as it was
SetHandler ==
  /\ Then("install", "wait")
  /\ \/ enabled /\ handler' = "client" /\ UNCHANGED enabled
     \/ enabled' = FALSE /\ UNCHANGED handler
  /\ UNCHANGED <<commandId, running, cancelled, checked, told, hit, failed>>

\* internal_call: the server may ask must_cancel any number of times, or never, and a reply
\* that is lost says nothing.
ServerChecks == /\ doing = "wait" /\ checked' = TRUE
                /\ UNCHANGED <<enabled, commandId, running, cancelled, handler, doing, told, hit, failed>>

Reply == /\ Then("wait", "restore") /\ checked' \in {checked, FALSE}
         /\ UNCHANGED <<enabled, commandId, running, cancelled, handler, told, hit, failed>>

\* unset_handler: if it fails, the client's handler stays.
UnsetHandler ==
  /\ Then("restore", "raise")
  /\ \/ enabled /\ handler' = "host" /\ UNCHANGED <<enabled, failed>>
     \/ enabled /\ enabled' = FALSE /\ failed' = TRUE /\ UNCHANGED handler
     \/ ~enabled /\ UNCHANGED <<enabled, handler, failed>>
  /\ UNCHANGED <<commandId, running, cancelled, checked, told, hit>>

\* Mutant of Raise: the commands are not compared.
Raise_any == /\ Then("raise", "reset")
             /\ told' = (enabled /\ cancelled # 0 /\ ~checked)
             /\ UNCHANGED <<enabled, commandId, running, cancelled, handler, checked, hit, failed>>

\* raise_cancel, if this command was cancelled and the reply has no property "cancel"
Raise == /\ Then("raise", "reset")
         /\ told' = (enabled /\ running # 0 /\ running = cancelled /\ ~checked)
         /\ UNCHANGED <<enabled, commandId, running, cancelled, handler, checked, hit, failed>>

\* get_running_command().store(0)
EndCall == /\ Then("reset", "idle") /\ running' = 0
           /\ UNCHANGED <<enabled, commandId, cancelled, handler, checked, told, hit, failed>>

\* SIGINT, as long as it comes to the client
Interrupt == /\ handler = "client" /\ cancelled' = running /\ hit' = (doing # "idle")
             /\ UNCHANGED <<enabled, commandId, running, handler, doing, checked, told, failed>>

CancelInit == /\ enabled \in BOOLEAN /\ commandId = 0 /\ running = 0 /\ cancelled = 0
              /\ handler = "host" /\ doing = "idle"
              /\ checked = FALSE /\ told = FALSE /\ hit = FALSE /\ failed = FALSE

CancelNext == \/ StartCall \/ SetHandler \/ ServerChecks \/ Reply \/ UnsetHandler \/ Raise
              \/ EndCall \/ Interrupt

CancelSpec == CancelInit /\ [][CancelNext]_cancelVars

-------------------------------------------------------------------------------
(* Properties                                                              *)

\* Every variable stays in its type; outside of a call nothing runs, and the host has its handler
\* unless it could not be put back.
CancelTypeOK == /\ enabled \in BOOLEAN /\ commandId \in 0..MaxCalls
                /\ running \in 0..MaxCalls /\ cancelled \in 0..MaxCalls
                /\ handler \in {"host", "client"}
                /\ doing \in {"idle", "install", "wait", "restore", "raise", "reset"}
                /\ {checked, told, hit, failed} \subseteq BOOLEAN
                /\ doing = "idle" => running = 0 /\ (enabled => handler = "host")

\* The host is told of an interrupt only if there was one in this very call.
NobodyElsesInterrupt == told => hit

\* An interrupt that the client has caught is not lost: the server has asked for it, or the host
\* is told before the call returns, unless its handler could not be put back.
InterruptIsAnswered == doing = "reset" /\ hit /\ enabled => told \/ checked

\* An interrupt goes to the call that was running when it came: it is not lost, and no other call
\* is taken for the cancelled one; and the host has its handler back between two calls.
InterruptFindsItsCall == CancelTypeOK /\ NobodyElsesInterrupt /\ InterruptIsAnswered

===============================================================================
