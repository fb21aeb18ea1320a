---------------------------- MODULE BoundedQueue ----------------------------
(***************************************************************************)
(* What cbuffer.c promises its clients: a bounded FIFO queue shared by     *)
(* threads.  Every call takes effect at one instant between its request    *)
(* and its reply; a closed queue is empty, serves nobody and stays closed  *)
(* until it is created again; the values that were in the queue when it    *)
(* was cleaned are released in queue order, or forgotten, as the caller    *)
(* asked.                                                                  *)
(***************************************************************************)
EXTENDS Integers, Sequences

CONSTANTS Threads, Values, NoValue, Capacity, NoCall, NoResult, Calls

VARIABLES
  queue,     \* the values put and not yet fetched
  open,      \* not shut down
  request,   \* request[t]: the call t is executing
  reply,     \* reply[t]: the result of t's last call
  released   \* the values handed to the free-up function by the last clean, until a call begins

vars == <<queue, open, request, reply, released>>

Result(code, out) == [code |-> code, out |-> out]

Init ==
  /\ queue = <<>>
  /\ open = TRUE
  /\ request = [t \in Threads |-> NoCall]
  /\ reply = [t \in Threads |-> NoResult]
  /\ released = <<>>

Asks(t, op) == request[t] # NoCall /\ request[t].op = op

Answer(t, code, out) ==
  /\ request' = [request EXCEPT ![t] = NoCall]
  /\ reply' = [reply EXCEPT ![t] = Result(code, out)]

Request(t) ==
  /\ request[t] = NoCall
  /\ \E c \in Calls : request' = [request EXCEPT ![t] = c]
  /\ reply' = [reply EXCEPT ![t] = NoResult]
  /\ released' = <<>>
  /\ UNCHANGED <<queue, open>>

\* A canceled thread leaves its call without an effect.
Abandon(t) ==
  /\ request[t] # NoCall
  /\ request' = [request EXCEPT ![t] = NoCall]
  /\ UNCHANGED <<queue, open, reply, released>>

Put(t) ==
  /\ Asks(t, "put") /\ open /\ Len(queue) < Capacity
  /\ queue' = Append(queue, request[t].arg)
  /\ Answer(t, "OK", NoValue)
  /\ UNCHANGED <<open, released>>

Get(t) ==
  /\ Asks(t, "get") /\ open /\ queue # <<>>
  /\ queue' = Tail(queue)
  /\ Answer(t, "OK", Head(queue))
  /\ UNCHANGED <<open, released>>

Peek(t) ==
  /\ Asks(t, "peek") /\ open /\ queue # <<>>
  /\ Answer(t, "OK", Head(queue))
  /\ UNCHANGED <<queue, open, released>>

\* A reply that changes nothing: the queue is closed, or the time is over and
\* the caller did ask for a time limit.
Refuse(t) ==
  /\ request[t] # NoCall
  /\ \/ ~open /\ Answer(t, "NOT_OPERATIONAL", NoValue)
     \/ /\ request[t].op \in {"put", "get", "peek"} /\ request[t].flag
        /\ Answer(t, "TIMEDOUT", NoValue)
  /\ UNCHANGED <<queue, open, released>>

Measure(t) ==
  /\ \/ /\ Asks(t, "is_operational")
        /\ Answer(t, "OK", IF open THEN 1 ELSE 0)
     \/ /\ open
        /\ \/ Asks(t, "size") /\ Answer(t, "OK", Len(queue))
           \/ Asks(t, "remaining") /\ Answer(t, "OK", Capacity - Len(queue))
           \/ Asks(t, "max") /\ Answer(t, "OK", Capacity)
           \/ /\ Asks(t, "is_full")
              /\ Answer(t, "OK", IF Len(queue) = Capacity THEN 1 ELSE 0)
           \/ /\ Asks(t, "is_empty")
              /\ Answer(t, "OK", IF queue = <<>> THEN 1 ELSE 0)
           \/ Asks(t, "setup") /\ \E events \in {0, 1, 2} : Answer(t, "OK", events)
  /\ UNCHANGED <<queue, open, released>>

Release(free) ==
  /\ queue' = <<>>
  /\ released' = IF free THEN queue ELSE <<>>

Clear(t) ==
  /\ Asks(t, "clear")
  /\ Release(request[t].flag)
  /\ Answer(t, "OK", NoValue)
  /\ UNCHANGED open

Close(t) ==
  /\ Asks(t, "shutdown")
  /\ open' = FALSE
  /\ IF open THEN Release(request[t].flag) ELSE UNCHANGED <<queue, released>>
  /\ Answer(t, "OK", NoValue)

\* Nobody is inside a call when the queue is destroyed.
Destroy(t) ==
  /\ \A u \in Threads : request[u] = NoCall
  /\ open' = FALSE
  /\ IF open
     THEN \E free \in BOOLEAN : Release(free)
     ELSE UNCHANGED <<queue, released>>
  /\ reply' = [reply EXCEPT ![t] = Result("OK", NoValue)]
  /\ UNCHANGED request

\* A new queue takes the place of a destroyed one.
Create ==
  /\ ~open
  /\ queue = <<>>
  /\ open' = TRUE
  /\ UNCHANGED <<queue, request, reply, released>>

Next ==
  \/ \E t \in Threads :
       \/ Request(t) \/ Abandon(t) \/ Put(t) \/ Get(t) \/ Peek(t)
       \/ Refuse(t) \/ Measure(t) \/ Clear(t) \/ Close(t) \/ Destroy(t)
  \/ Create

Spec == Init /\ [][Next]_vars
=============================================================================
