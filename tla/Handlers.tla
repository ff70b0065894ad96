------------------------------ MODULE Handlers ------------------------------
(***************************************************************************)
(* The handlers in flight in the server process.  A handler reads, awaits, *)
(* and writes: between two of its statements every other handler may run.  *)
(* What it has read and will still use is its entry of call.               *)
(***************************************************************************)
CONSTANT Calls      \* the handlers that may be in flight at a time
VARIABLE call       \* what each one does next, and what it has read

Idle == [op |-> "idle"]

\* A request whose reads and checks passed: the work that is left.
Start(c, work) ==
    /\ call[c] = Idle
    /\ call' = [call EXCEPT ![c] = work]

Doing(c, op) == call[c].op = op

Finish(c) == call' = [call EXCEPT ![c] = Idle]
=============================================================================
