---------------------------- MODULE ReplayGuard -----------------------------
(***************************************************************************)
(* What an AP-REQ acceptor promises about replays: a memory that never      *)
(* forgets.  Each presentation of a replay key is judged and remembered in  *)
(* one step; the first presentation of a key is accepted and every later    *)
(* one is reported as a replay, until the owner clears the memory.          *)
(*                                                                          *)
(* ServiceValidator implements this with an aged cache that is read and     *)
(* purged by concurrent threads.                                            *)
(***************************************************************************)
CONSTANTS Validators,   \* validators that present keys
          Caches,       \* replay memories
          CacheOf,      \* the memory each validator uses
          ReplayKeys,   \* identities of authenticators
          OtherErrors   \* verdicts reached before replay detection

VARIABLES presented,    \* <<memory, key>> pairs presented so far
          verdict       \* last verdict of each validator

guardVars == <<presented, verdict>>

GuardInit ==
    /\ presented = {}
    /\ verdict = [v \in Validators |-> "None"]

\* The verdict on key k presented to memory c.
Judge(c, k) == IF <<c, k>> \in presented THEN "Replay" ELSE "Ok"

Present(v, k) ==
    /\ verdict' = [verdict EXCEPT ![v] = Judge(CacheOf[v], k)]
    /\ presented' = presented \cup {<<CacheOf[v], k>>}

\* A validator starts over, or fails before it reaches the memory.
Other(v) ==
    /\ \E e \in OtherErrors \cup {"None"} : verdict' = [verdict EXCEPT ![v] = e]
    /\ UNCHANGED presented

Forget(c) ==
    /\ presented' = {p \in presented : p[1] # c}
    /\ UNCHANGED verdict

GuardNext ==
    \/ \E v \in Validators, k \in ReplayKeys : Present(v, k)
    \/ \E v \in Validators : Other(v)
    \/ \E c \in Caches : Forget(c)

GuardSpec == GuardInit /\ [][GuardNext]_guardVars
=============================================================================
