-------------------------------- MODULE Map ---------------------------------
(***************************************************************************)
(* What a hash map promises to the threads that share it: one value for     *)
(* each different key, calls that take effect one at a time, answers that   *)
(* fit the moment they take effect, and values that are freed by nobody     *)
(* else and only when the caller asks for it (mccp_hashmap.h).              *)
(***************************************************************************)
EXTENDS FiniteSets, Functions

CONSTANTS
  Threads,   \* the callers
  Contents,  \* the different keys
  Values,    \* the values
  null,      \* the value NULL
  None       \* no answer

VARIABLES
  contents,  \* the map, a function on some of Contents
  open,      \* operational
  freed,     \* the values the map has freed and nobody got again
  answer     \* of the last call of each thread: its result and the value or number it hands out

vars == <<contents, open, freed, answer>>

Init == contents = <<>> /\ open = TRUE /\ freed = {} /\ answer = [t \in Threads |-> None]

Answer(t, r, v) == answer' = [answer EXCEPT ![t] = <<r, v>>]

Has(c) == c \in DOMAIN contents

\* the values that are freed when those in vs are given up
Free(vs, free) == freed' = IF free THEN freed \cup (vs \ {null}) ELSE freed

\* a caller forgets the answer and begins again
Forget(t) == answer[t] # None /\ answer' = [answer EXCEPT ![t] = None] /\ UNCHANGED <<contents, open, freed>>

Refuse(t) == ~open /\ Answer(t, "NOT_OPERATIONAL", null) /\ UNCHANGED <<contents, open, freed>>

Find(t, c) ==
    /\ open
    /\ IF Has(c) THEN Answer(t, "OK", contents[c]) ELSE Answer(t, "NOT_FOUND", null)
    /\ UNCHANGED <<contents, open, freed>>

Size(t) == open /\ Answer(t, "OK", Cardinality(DOMAIN contents)) /\ UNCHANGED <<contents, open, freed>>

Describe(t) ==
    /\ open /\ \E r \in {"OK", "NO_MEMORY"} : Answer(t, r, null)
    /\ UNCHANGED <<contents, open, freed>>

\* of a value that may be memory the map has freed before
Add(t, c, v, overwrite) ==
    /\ open /\ freed' = freed \ {v} /\ UNCHANGED open
    /\ IF ~Has(c)
       THEN \/ contents' = [d \in DOMAIN contents \cup {c} |-> IF d = c THEN v ELSE contents[d]]
               /\ Answer(t, "OK", null)
            \/ UNCHANGED contents /\ Answer(t, "NO_MEMORY", null)
       ELSE IF overwrite
       THEN contents' = [contents EXCEPT ![c] = v] /\ Answer(t, "OK", contents[c])
       ELSE UNCHANGED contents /\ Answer(t, "ALREADY_EXISTS", contents[c])

Delete(t, c, free) ==
    /\ open /\ UNCHANGED open
    /\ IF Has(c)
       THEN /\ contents' = Restrict(contents, DOMAIN contents \ {c})
            /\ Free({contents[c]}, free) /\ Answer(t, "OK", contents[c])
       ELSE UNCHANGED <<contents, freed>> /\ Answer(t, "OK", null)

\* some values are replaced by the procedure of an iteration
Modify(t, r) ==
    /\ open /\ UNCHANGED open
    /\ \E v \in Values \cup {null}, ds \in SUBSET DOMAIN contents :
         /\ contents' = [d \in DOMAIN contents |-> IF d \in ds THEN v ELSE contents[d]]
         /\ freed' = freed \ {v}
    /\ r = "ITERATION_HALTED" \/ contents # <<>>
    /\ Answer(t, r, null)

\* clear and shutdown
Empty(t, opens, free) ==
    /\ open /\ open' = opens /\ contents' = <<>>
    /\ Free(Range(contents), free) /\ Answer(t, "OK", null)

\* destroy
Discard(free) ==
    /\ open /\ open' = FALSE /\ contents' = <<>>
    /\ Free(Range(contents), free) /\ UNCHANGED answer

\* a new map in the place of the one that was shut down
Renew == ~open /\ open' /\ UNCHANGED <<contents, freed, answer>>

Call(t) ==
    /\ answer[t] = None /\ answer'[t] # None
    /\ \/ Refuse(t) \/ Size(t) \/ Describe(t)
       \/ \E c \in Contents : Find(t, c)
       \/ \E c \in Contents, v \in Values \cup {null}, overwrite \in BOOLEAN : Add(t, c, v, overwrite)
       \/ \E c \in Contents, free \in BOOLEAN : Delete(t, c, free)
       \/ \E r \in {"OK", "ITERATION_HALTED"} : Modify(t, r)
       \/ \E opens, free \in BOOLEAN : Empty(t, opens, free)

Next ==
    \/ Renew
    \/ \E t \in Threads : Call(t) \/ Forget(t)
    \/ \E free \in BOOLEAN : Discard(free)

Spec == Init /\ [][Next]_vars
=============================================================================
