------------------------------ MODULE Parsers ------------------------------
(***************************************************************************)
(* The parsers of streams that come in pieces: of sections, in dvr.c, and  *)
(* of PES packets, in am_pes.c.                                            *)
(***************************************************************************)
EXTENDS SectionAsm, PesSplit

(* What a parser puts together from pieces, the sections of the software   *)
(* filters and the packets of AM_PES_Decode, reaches its callback whole    *)
(* and once, wherever the pieces are cut.                                  *)
AssembledWhole == SectionsWhole /\ PacketsWhole
=============================================================================
