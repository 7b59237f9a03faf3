------------------------------ MODULE ByteStream ------------------------------
(***************************************************************************)
(* What a pipe promises to the parser that reads the response body: the    *)
(* bytes that were appended, each once and in their order; that it has to  *)
(* wait only when it has them all and more may come; and the end of the    *)
(* body only when it has them all and the writer is gone.                  *)
(***************************************************************************)
EXTENDS Naturals, Sequences

VARIABLES
  sent,      \* how many bytes were appended: the bytes are 1, 2, ...
  received,  \* the bytes the reader was given
  writing,   \* whether there is still a writer
  answer     \* the last answer to the reader; while it reads, whether it was given "some"

svars == <<sent, received, writing, answer>>

StreamInit ==
  /\ sent = 0
  /\ received = <<>>
  /\ writing = TRUE
  /\ answer = "none"

Send ==
  /\ writing
  /\ sent' >= sent
  /\ UNCHANGED <<received, writing, answer>>

Finish ==
  /\ writing' = FALSE
  /\ UNCHANGED <<sent, received, answer>>

\* A read of nothing is answered at once.
Ask == answer' \in {"none", "ready"} /\ UNCHANGED <<sent, received, writing>>

Receive ==
  /\ answer \in {"none", "some"}
  /\ \E n \in 1 .. sent - Len(received) :
       received' = received \o [k \in 1 .. n |-> Len(received) + k]
  /\ answer' \in {"some", "ready"}
  /\ UNCHANGED <<sent, writing>>

\* A reader that was given bytes is told so: it is not asked to wait, nor told that
\* the body ended.
Answer ==
  /\ \/ answer = "some" /\ answer' = "ready"
     \/ answer = "none" /\ answer' = "pending" /\ Len(received) = sent /\ writing
     \/ answer = "none" /\ answer' = "eof" /\ Len(received) = sent /\ ~writing
  /\ UNCHANGED <<sent, received, writing>>

StreamSpec == StreamInit /\ [][Send \/ Finish \/ Ask \/ Receive \/ Answer]_svars
=============================================================================
