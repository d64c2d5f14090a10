---------------------------- MODULE MCChatServer ----------------------------
(***************************************************************************)
(* Small instance of ChatServer: a writes its name, a message and "END", b *)
(* only listens, c comes and goes.                                         *)
(***************************************************************************)
EXTENDS ChatServer, TLC

CONSTANTS a, b, c

Talk == (a :> 2) @@ (b :> 0) @@ (c :> 0)

\* Bounds: three things are explored only while a has written no more than its
\* name, and one at a time: tasks instead of threads, which differ in nothing but
\* an exception of RemoveConnection; what follows a race, of which nothing is
\* claimed; and Disconnect, beside the broadcast of the name of a.
RunBound ==
    /\ isTplVersion \/ torn \/ listener # "accept" => said[a] <= 1
    /\ isTplVersion => ~torn /\ listener = "accept"
    /\ listener # "accept" => ~torn /\ endAt[a] = 0
=============================================================================
