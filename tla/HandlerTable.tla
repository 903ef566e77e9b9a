---------------------------- MODULE HandlerTable ----------------------------
(***************************************************************************)
(* What signal and raise promise: one table of handlers for all tasks,     *)
(* which each call reads and changes at one moment between its start and   *)
(* its return; a raise runs the handler that was there at that moment; and *)
(* each call returns.                                                      *)
(***************************************************************************)
CONSTANTS
  Clients,          \* tasks that call signal and raise
  Signals, SIGCHLD,
  Handlers,         \* functions given to signal
  signal_default, SIG_ERR, NULL

VARIABLES
  table,     \* the handler of each signal, SIG_ERR for none
  call,      \* the call each client is in
  outcome,   \* the table's answer to it
  ret        \* what the last call returned, and the handler it ran

vars == <<table, call, outcome, ret>>

Request(mode, sig, func) == [mode |-> mode, sig |-> sig, func |-> func]
NoCall == Request("none", NULL, NULL)
Requests ==
  {Request("SIGSET", SIGCHLD, h) : h \in Handlers}
    \union {Request(mode, s, NULL) : mode \in {"SIGDFL", "SIGIGN", "SIGRAISE"}, s \in Signals}

Result(value, ran) == [value |-> value, ran |-> ran]

Init ==
  /\ table = [s \in Signals |-> SIG_ERR]
  /\ call = [c \in Clients |-> NoCall]
  /\ outcome = [c \in Clients |-> NULL]
  /\ ret = [c \in Clients |-> Result(NULL, NULL)]

Begin(c) ==
  /\ call[c] = NoCall
  /\ \E r \in Requests : call' = [call EXCEPT ![c] = r]
  /\ UNCHANGED <<table, outcome, ret>>

\* Setting a handler answers 0; the other calls answer with the handler.  Only a
\* signal that has a handler is given back its default, or none.
Apply(c) ==
  LET r == call[c]
      new == CASE r.mode = "SIGSET" -> r.func
               [] r.mode = "SIGDFL" /\ table[r.sig] # SIG_ERR -> signal_default
               [] r.mode = "SIGIGN" -> SIG_ERR
               [] OTHER -> table[r.sig]
  IN /\ r # NoCall /\ outcome[c] = NULL
     /\ table' = [table EXCEPT ![r.sig] = new]
     /\ outcome' = [outcome EXCEPT ![c] = IF r.mode = "SIGSET" THEN 0 ELSE table[r.sig]]
     /\ UNCHANGED <<call, ret>>

Return(c) ==
  LET o == outcome[c]
  IN /\ o # NULL
     /\ ret' = [ret EXCEPT ![c] =
          CASE call[c].mode = "SIGSET" -> Result(NULL, NULL)
            [] call[c].mode = "SIGRAISE" /\ o = SIG_ERR -> Result(1, NULL)
            [] call[c].mode = "SIGRAISE" /\ o # SIG_ERR -> Result(0, o)
            [] OTHER -> Result(o, NULL)]
     /\ call' = [call EXCEPT ![c] = NoCall]
     /\ outcome' = [outcome EXCEPT ![c] = NULL]
     /\ UNCHANGED table

Next == \E c \in Clients : Begin(c) \/ Apply(c) \/ Return(c)

Spec == Init /\ [][Next]_vars

\* Every call returns.
Served == \A c \in Clients : (call[c] # NoCall) ~> (call[c] = NoCall)
=============================================================================
