------------------------------ MODULE EvtUsers ------------------------------
(***************************************************************************)
(* The event registry of am_evt.c and the users of a demultiplexer, two    *)
(* parts that share no state: a behaviour is one of one of the modules,    *)
(* the other stays where it begins.  A program that has crashed stays so.  *)
(***************************************************************************)
EXTENDS Evt, DmxUsers

VARIABLE part

EvtUsersInit == part \in {"evt", "users"} /\ Init /\ DmxUsersInit

EvtUsersNext ==
  \/ part = "evt" /\ Next /\ UNCHANGED <<part, userVars>>
  \/ part = "users" /\ DmxUsersNext /\ UNCHANGED <<part, vars>>
  \/ part = "users" /\ UsersCrashed /\ UNCHANGED <<part, vars, userVars>>

EvtUsersSpec == EvtUsersInit /\ [][EvtUsersNext]_<<part, vars, userVars>>
=============================================================================
