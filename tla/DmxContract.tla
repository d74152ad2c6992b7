---------------------------- MODULE DmxContract ----------------------------
(***************************************************************************)
(* What the demultiplexer promises the owners of callback arguments.       *)
(*                                                                         *)
(* A registration is a filter together with the user_data registered for   *)
(* it.  The library may call a registration while it is live; it makes one *)
(* call at a time; and a registration it has promised silent (AM_DMX_Sync  *)
(* or the last AM_DMX_Close returned) is not being called then, and not    *)
(* later either unless its owner makes it live again.                      *)
(***************************************************************************)
CONSTANT Registrations

VARIABLES live,     \* the registrations that may be called
          inCall,   \* the registration being called, at most one
          silent    \* the registrations promised not to be called

Init == live = {} /\ inCall = {} /\ silent = {}

(* Filters are allocated, freed, started, stopped or given a callback.     *)
Reconfigure ==
  /\ live' \in SUBSET Registrations
  /\ silent' = silent \ live'
  /\ UNCHANGED inCall

BeginCall ==
  /\ inCall = {}
  /\ \E p \in live : inCall' = {p}
  /\ UNCHANGED <<live, silent>>

EndCall ==
  /\ inCall' = {}
  /\ UNCHANGED <<live, silent>>

(* AM_DMX_Sync or the last AM_DMX_Close returns.                           *)
Promise ==
  /\ live' \in SUBSET live
  /\ silent' \in SUBSET Registrations
  /\ silent \subseteq silent'
  /\ silent' \cap (live' \cup inCall) = {}
  /\ UNCHANGED inCall

Next == Reconfigure \/ BeginCall \/ EndCall \/ Promise

Spec == Init /\ [][Next]_<<live, inCall, silent>>
=============================================================================
