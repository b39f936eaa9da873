----------------------------- MODULE FlThreads ------------------------------
(***************************************************************************)
(* The threads of a program: the ring of awake callbacks (FlAwakeRing),    *)
(* the pipe that wakes the event loop (FlAwakePipe) and the FLTK lock      *)
(* (FlLockStd) are used by the same ones.                                  *)
(***************************************************************************)
CONSTANTS
  Workers,     \* threads that call Fl::lock() and Fl::awake()
  Main,        \* the thread that runs the event loop
  NULL         \* a null pointer: no thread, no callback, no message

ASSUME ThreadsAssumption == Main \notin Workers /\ NULL \notin Workers \union {Main}

Threads == Workers \union {Main}
=============================================================================
