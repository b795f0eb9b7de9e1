--------------------------- MODULE MCGsyncdEntry ---------------------------
(***************************************************************************)
(* Two gsyncd processes of one session started together (a worker and    *)
(* its agent, or a status query beside a worker), each with one of the   *)
(* command lines below.  The three sub-commands stand for the three kinds *)
(* the start-up code tells apart: one of a session (worker), the          *)
(* secondary side (subordinate), and one without a session               *)
(* (config-check).                                                        *)
(***************************************************************************)
EXTENDS GsyncdEntry

CONSTANTS w1, w2

MCProcs == {w1, w2}

MCCalls == {c \in Invocations :
               /\ c.subcmd \in {"worker", "subordinate", "config-check"}
               /\ c.version => c.subcmd = "worker" /\ ~c.debug /\ ~c.cflag
                                /\ c.form = "ok"}

MCSymmetry == Permutations(MCProcs)
=============================================================================
