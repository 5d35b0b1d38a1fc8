------------------------------ MODULE WorkQueue ------------------------------
(***************************************************************************)
(* What Policy::post() promises to the rest of the library, and all that   *)
(* the peers rely on: the functions handed over run one at a time, in the  *)
(* order they were handed over, each once, unless the executor discards    *)
(* everything that is still waiting.                                       *)
(***************************************************************************)
EXTENDS Sequences

CONSTANT Jobs   \* the functions handed to post()

VARIABLES
    todo,       \* handed over and not yet run
    done        \* run, in order

Init == todo = <<>> /\ done = <<>>

Post(fn) == todo' = Append(todo, fn) /\ done' = done

Run == /\ todo # <<>>
       /\ done' = Append(done, Head(todo))
       /\ todo' = Tail(todo)

Discard == todo' = <<>> /\ done' = done

Next == (\E fn \in Jobs : Post(fn)) \/ Run \/ Discard

Spec == Init /\ [][Next]_<<todo, done>>
=============================================================================
