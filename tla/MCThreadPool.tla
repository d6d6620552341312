---------------------------- MODULE MCThreadPool ----------------------------
(* ThreadPool with two clients; each .cfg picks the casts it considers.     *)
EXTENDS ThreadPool

CONSTANTS a, b   \* clients

Cast(first, second) == [c \in Client |-> IF c = a THEN first ELSE second]

\* Two clients at work; an owner who resizes and destroys while another waits;
\* one client that does everything in sequence.
SafeCasts ==
    {Cast({"submit", "waitForDone"}, {"submit", "waitForDone"}),
     Cast({"submit", "setThreadCount", "destroy"}, {"waitForDone"}),
     Cast(Op, {})}

\* Submissions race with a resize.
RacingCast == {Cast({"submit"}, {"setThreadCount"})}
=============================================================================
