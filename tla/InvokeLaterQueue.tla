-------------------------- MODULE InvokeLaterQueue --------------------------
(***************************************************************************)
(* What Application.invokeLater() promises its callers, with none of the   *)
(* machinery that keeps the promise: the runnables are started one after   *)
(* the other, each exactly once, in the order in which they were posted.   *)
(* GlassEventLoop is shown to implement this specification.                *)
(***************************************************************************)
EXTENDS Sequences

CONSTANT Tasks                  \* everything that can be posted

VARIABLES queue,                \* posted and not yet started, oldest first
          ran                   \* started, oldest first

Init == queue = << >> /\ ran = << >>

Post(t) == /\ queue' = Append(queue, t)
           /\ UNCHANGED ran

Start == /\ queue # << >>
         /\ ran' = Append(ran, Head(queue))
         /\ queue' = Tail(queue)

Next == Start \/ \E t \in Tasks : Post(t)

Spec == Init /\ [][Next]_<<queue, ran>>
=============================================================================
