------------------------------ MODULE MCQMuxer ------------------------------
(* Small instances of QMuxer for TLC. *)
EXTENDS QMuxer, TLC

CONSTANTS p1, q1, q2

\* p1 alone takes from q1.
P1TakesQ1  == (q1 :> p1) @@ (q2 :> NoPoller)

AllTypes  == {{Readable}, {Writable}, {Readable, Writable}}
AllOps    == {"clear", "shutdown", "set_queue", "set_type", "reset", "cancel",
              "destroy"}
=============================================================================
