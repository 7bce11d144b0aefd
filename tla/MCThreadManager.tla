-------------------------- MODULE MCThreadManager --------------------------
(***************************************************************************)
(* ThreadManager on two or three threads.  Either t1 and t2 share a name   *)
(* (a job that is started twice), or every thread has its own.             *)
(***************************************************************************)
EXTENDS ThreadManager

CONSTANTS t1, t2, t3, n1, n2, main

SharedName == [t \in {t1, t2, t3} |-> IF t = t3 THEN n2 ELSE n1]

\* Every caller looks up and waits; nobody waits for error threads.
Waiting == [a \in Actor |-> AllOps \ {"wait_for_error_threads"}]

\* The main thread does all it can, the others fetch errors.
MainWaits == [a \in Actor |-> IF a = Main THEN AllOps ELSE {"add", "raise_if_error"}]

\* One waits for a thread, the main thread for error threads.
ErrorWaits == [a \in Actor |-> {"add", IF a = Main THEN "wait_for_error_threads" ELSE "wait"}]

OwnName2 == [t \in {t1, t2} |-> IF t = t1 THEN n1 ELSE n2]
=============================================================================
