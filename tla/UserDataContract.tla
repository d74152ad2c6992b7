-------------------------- MODULE UserDataContract --------------------------
(***************************************************************************)
(* What am_userdata.c promises, without the ring, the waits and the        *)
(* thread: packages are taken out in the order in which they were put in,  *)
(* each once and complete.  One that does not fit, in the ring or in the   *)
(* reader's buffer, is lost as a whole.                                    *)
(***************************************************************************)
EXTENDS Integers, Sequences

CONSTANTS Readers, Header, Lengths, BufSize, Nil

VARIABLES queue, got, num

contractVars == <<queue, got, num>>

Init ==
  /\ queue = <<>> /\ num = 0
  /\ got = [by |-> Nil, bytes |-> <<>>]

Put ==
  /\ num' = num + 1
  /\ \E len \in Lengths : queue' = Append(queue, [no |-> num', len |-> len])
  /\ UNCHANGED got

Drop ==
  /\ num' = num + 1
  /\ UNCHANGED <<queue, got>>

Bytes(p) == [k \in 1 .. p.len |-> [no |-> p.no, off |-> Header + k, len |-> p.len]]

Take(r) ==
  /\ queue # <<>>
  /\ queue' = Tail(queue)
  /\ got' = IF Head(queue).len <= BufSize[r]
            THEN [by |-> r, bytes |-> Bytes(Head(queue))] ELSE got
  /\ UNCHANGED num

Empty ==
  /\ queue' = <<>>
  /\ UNCHANGED <<got, num>>

Next == Put \/ Drop \/ Empty \/ (\E r \in Readers : Take(r))

Spec == Init /\ [][Next]_contractVars
=============================================================================
