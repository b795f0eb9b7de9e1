-------------------------- MODULE MCScheduleGeorep --------------------------
(***************************************************************************)
(* Model-checking instance of ScheduleGeorep: two bricks b1, b2 of the    *)
(* primary volume in the order the volume info lists them.                *)
(***************************************************************************)
EXTENDS ScheduleGeorep

CONSTANTS b1, b2

MCTopo == <<b1, b2>>

\* One replica pair: one worker of the two must sync.
MCReplicaPair == {{b1, b2}}

\* Two single-brick replica sets: both workers must sync.
MCDistribute == {{b1}, {b2}}
=============================================================================
