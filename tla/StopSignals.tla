----------------------------- MODULE StopSignals -----------------------------
(***************************************************************************)
(* What Player.Stop leaves for the session that runs (player.go:290-296):  *)
(* a flag, which runLoop looks at, and a token, which wakes it where it    *)
(* waits.  Gapless and PlayerLifecycle are both about them.                *)
(***************************************************************************)
VARIABLES
    stopWanted, \* p.stopWanted
    stopCh      \* a token in p.stopCh (capacity 1)
=============================================================================
