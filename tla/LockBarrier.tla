------------------------------ MODULE LockBarrier ------------------------------
(***************************************************************************)
(* What the screen lock promises, with none of its machinery: a barrier    *)
(* is put up for an episode, and it comes down only if an authentication   *)
(* conversation begun in that very episode granted the exit.  Lock.tla     *)
(* (PAM workers, pollers, generations, timers) is shown to implement it.   *)
(***************************************************************************)
EXTENDS Naturals

VARIABLES
    echada,     \* the barrier is up
    episodio,   \* counts every time the barrier went up or down
    concedido   \* a conversation of the current episode said yes

vars == <<echada, episodio, concedido>>

Init == /\ echada = FALSE
        /\ episodio = 0
        /\ concedido = FALSE

\* A new episode.  The barrier goes up, unless the shell that draws it breaks
\* while doing so; either way nothing granted before counts any more.
Echar == /\ echada' \in {echada, TRUE}
         /\ episodio' = episodio + 1
         /\ concedido' = FALSE

Conceder == /\ concedido' = TRUE
            /\ UNCHANGED <<echada, episodio>>

Soltar == /\ concedido
          /\ echada' = FALSE
          /\ episodio' = episodio + 1
          /\ concedido' = FALSE

Next == Echar \/ Conceder \/ Soltar

Spec == Init /\ [][Next]_vars
================================================================================
