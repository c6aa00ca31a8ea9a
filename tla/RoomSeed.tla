------------------------------- MODULE RoomSeed -------------------------------
(***************************************************************************)
(* One room between two authorities: the settings, applied by the seed     *)
(* command at every deployment (core/services/rooms.py), and the staff,    *)
(* who take the room out of service and edit its profile under the control *)
(* lock.  The seed runs in a transaction but not under that lock, so staff *)
(* may commit between what it reads and what it writes.                    *)
(***************************************************************************)
EXTENDS Integers

CONSTANTS
  Configs,    \* the settings that may be deployed
  Capacities  \* the values of a profile field (capacity, equipment, approval)

Settings == [listed : BOOLEAN, members : BOOLEAN, capacity : Capacities]

ASSUME RoomSeedAssumption == Configs # {} /\ Configs \subseteq Settings

VARIABLES
  room,    \* the Room row and what its audit events say
  config,  \* ROOM_OVERRIDES as deployed
  seed     \* the run of seed_rooms in progress, or Idle

roomVars == <<room, config, seed>>

Idle == [op |-> "idle"]

(***************************************************************************)
(* outByStaff: the latest of the room's deactivated and reactivated events *)
(* is the former.  profiled: there is a profile_updated event.             *)
(***************************************************************************)
RoomRows == [active : BOOLEAN, members : BOOLEAN, capacity : Capacities,
             outByStaff : BOOLEAN, profiled : BOOLEAN]

\* What a run decided by what it read; overtaken is a history variable: staff
\* changed the room since.
SeedRuns == [op : {"seed"}, restore : BOOLEAN, capacity : Capacities \cup {"keep"},
             overtaken : BOOLEAN]

RoomTypeOK ==
  /\ room \in RoomRows
  /\ config \in Configs
  /\ seed \in SeedRuns \cup {Idle}

RoomInit ==
  /\ config \in Configs
  /\ room = [active |-> config.listed, members |-> config.members,
             capacity |-> config.capacity, outByStaff |-> FALSE, profiled |-> FALSE]
  /\ seed = Idle

--------------------------------------------------------------------------------

\* Mistake: nobody asks who took the room out.
HeldOutNever == FALSE

HeldOut == room.outByStaff

ProfileManaged == room.profiled

SeedRead ==
  /\ seed = Idle
  /\ seed' = [op |-> "seed",
              restore |-> config.listed /\ ~room.active /\ ~HeldOut,
              capacity |-> IF config.listed /\ ~ProfileManaged /\ room.capacity # config.capacity
                             THEN config.capacity ELSE "keep",
              overtaken |-> FALSE]
  /\ UNCHANGED <<room, config>>

(***************************************************************************)
(* A restored room has a reactivated event; a room that is not configured  *)
(* is retired by a bulk update, with none.                                 *)
(***************************************************************************)
SeedWrite ==
  /\ seed # Idle
  /\ room' = [room EXCEPT
       !.active = config.listed /\ (@ \/ seed.restore),
       !.members = IF config.listed THEN config.members ELSE @,
       !.capacity = IF seed.capacity = "keep" THEN @ ELSE seed.capacity,
       !.outByStaff = @ /\ ~seed.restore]
  /\ seed' = Idle
  /\ UNCHANGED config

\* Other settings, with the deployment that brings them: no seed is running.
Deploy(c) ==
  /\ seed = Idle
  /\ config' = c
  /\ UNCHANGED <<room, seed>>

Overtaken == IF seed = Idle THEN seed ELSE [seed EXCEPT !.overtaken = TRUE]

DeactivateRoom ==
  /\ room' = [room EXCEPT !.active = FALSE, !.outByStaff = TRUE]
  /\ seed' = Overtaken
  /\ UNCHANGED config

UpdateProfile(n) ==
  /\ room' = [room EXCEPT !.capacity = n, !.profiled = TRUE]
  /\ seed' = Overtaken
  /\ UNCHANGED config

(* The seed command and the staff.                                           *)

Deployment == SeedRead \/ SeedWrite \/ \E c \in Configs : Deploy(c)

Administration == DeactivateRoom \/ \E n \in Capacities : UpdateProfile(n)

--------------------------------------------------------------------------------

(***************************************************************************)
(* What staff decided stands over every later deployment: the seed puts no *)
(* room back that they took out, and rewrites no field they edited, unless *)
(* they did so while the seed was running (rooms.py:122-150, 201-236).     *)
(***************************************************************************)
StaffWordStands ==
  [][SeedWrite /\ ~seed.overtaken =>
       /\ room.outByStaff => ~room'.active
       /\ room.profiled => room'.capacity = room.capacity]_roomVars
================================================================================
