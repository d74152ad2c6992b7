-------------------------------- MODULE SmcT0 --------------------------------
(***************************************************************************)
(* AM_SMC_TransferT0 of am_smc.c against a smart card: the host sends the  *)
(* header of a command, and obeys the procedure bytes of the card until it *)
(* gets the two status bytes, or a time-out.                               *)
(*                                                                         *)
(* A read command asks the card for data, a write command carries data for *)
(* it.  The card may ask for time (NULL, 0x60), transfer all the data that *)
(* remains (INS), transfer one byte of it to the host (INS ^ 0xff), or     *)
(* give its status at any time.  What it sends is kept by the driver until *)
(* the host reads it: also what it sends after the host has given up.      *)
(*                                                                         *)
(* One client transfers at a time: the buffers are shared, and filled      *)
(* before dev->lock is taken.                                              *)
(***************************************************************************)
EXTENDS Integers, Sequences

CONSTANTS
  MaxData,        \* bound: bytes of data of a command
  MaxNull,        \* bound: NULL bytes a card sends for a command
  MaxCommands     \* bound: commands

ASSUME SmcT0Assumption == MaxData \in 0 .. 255 /\ MaxNull \in Nat /\ MaxCommands \in Nat

Datum(no, k) == [is |-> "data", no |-> no, k |-> k]
SW1(no)      == [is |-> "sw1", no |-> no, k |-> 0]
SW2(no)      == [is |-> "sw2", no |-> no, k |-> 0]
Ack(no)      == [is |-> "ack", no |-> no, k |-> 0]
AckOne(no)   == [is |-> "one", no |-> no, k |-> 0]
NullByte(no) == [is |-> "null", no |-> no, k |-> 0]

Octets == [is : {"data", "sw1", "sw2", "ack", "one", "null"}, no : 0 .. MaxCommands, k : 0 .. MaxData]

Data(no, n) == [k \in 1 .. n |-> Datum(no, k)]

VARIABLES
  command,        \* the command: its number, whether it reads, its length
  hpc, rxlen, tx, rx,   \* the host: where it is, rxlen, txbuf and rxbuf
  line,           \* the bytes the card has sent and the host has not read
  chip,           \* the card: what it does, the NULLs and data it has sent,
                  \* the bytes it has received
  overdue         \* history: the host has given up a transfer

t0Vars == <<command, hpc, rxlen, tx, rx, line, chip, overdue>>

T0TypeOK ==
  /\ command \in [no : 0 .. MaxCommands, reads : BOOLEAN, n : 0 .. MaxData]
  /\ hpc \in {"idle", "header", "procedure", "sw2", "all", "one"}
  /\ rxlen \in 0 .. 255
  /\ tx \in Seq(Octets) /\ rx \in Seq(Octets) /\ line \in Seq(Octets)
  /\ chip \in [on : BOOLEAN, no : 0 .. MaxCommands, reads : BOOLEAN, n : 0 .. MaxData,
               nulls : 0 .. MaxNull, sent : 0 .. MaxData, got : Seq(Octets), wants : BOOLEAN]
  /\ overdue \in BOOLEAN

T0Init ==
  /\ command = [no |-> 0, reads |-> TRUE, n |-> 0]
  /\ hpc = "idle" /\ rxlen = 0 /\ tx = <<>> /\ rx = <<>> /\ line = <<>>
  /\ chip = [on |-> FALSE, no |-> 0, reads |-> TRUE, n |-> 0, nulls |-> 0, sent |-> 0,
             got |-> <<>>, wants |-> FALSE]
  /\ overdue = FALSE

-----------------------------------------------------------------------------
(* The card.                                                               *)

CardNull ==
  /\ chip.on /\ ~chip.wants /\ chip.nulls < MaxNull
  /\ line' = Append(line, NullByte(chip.no))
  /\ chip' = [chip EXCEPT !.nulls = @ + 1]
  /\ UNCHANGED <<command, hpc, rxlen, tx, rx, overdue>>

CardSendsAll ==
  /\ chip.on /\ chip.reads /\ chip.sent < chip.n
  /\ line' = line \o <<Ack(chip.no)>> \o SubSeq(Data(chip.no, chip.n), chip.sent + 1, chip.n)
  /\ chip' = [chip EXCEPT !.sent = chip.n]
  /\ UNCHANGED <<command, hpc, rxlen, tx, rx, overdue>>

CardSendsOne ==
  /\ chip.on /\ chip.reads /\ chip.sent < chip.n
  /\ line' = line \o <<AckOne(chip.no), Datum(chip.no, chip.sent + 1)>>
  /\ chip' = [chip EXCEPT !.sent = @ + 1]
  /\ UNCHANGED <<command, hpc, rxlen, tx, rx, overdue>>

CardAsksAll ==
  /\ chip.on /\ ~chip.reads /\ ~chip.wants /\ Len(chip.got) < chip.n
  /\ line' = Append(line, Ack(chip.no))
  /\ chip' = [chip EXCEPT !.wants = TRUE]
  /\ UNCHANGED <<command, hpc, rxlen, tx, rx, overdue>>

CardEnds ==
  /\ chip.on /\ ~chip.wants
  /\ line' = line \o <<SW1(chip.no), SW2(chip.no)>>
  /\ chip' = [chip EXCEPT !.on = FALSE]
  /\ UNCHANGED <<command, hpc, rxlen, tx, rx, overdue>>

-----------------------------------------------------------------------------
(* The host.                                                               *)

(* rxlen is the length of a command that ends with it, else 0.             *)
TransferBegin ==
  /\ hpc = "idle" /\ command.no < MaxCommands
  /\ \E reads \in BOOLEAN, n \in 1 .. MaxData :
       /\ command' = [no |-> command.no + 1, reads |-> reads, n |-> n]
       /\ rxlen' = IF reads THEN n ELSE 0
       /\ tx' = IF reads THEN <<>> ELSE Data(command.no + 1, n)
  /\ rx' = <<>> /\ hpc' = "header"
  /\ UNCHANGED <<line, chip, overdue>>

(* The card begins with a command when it gets its header, whatever it was *)
(* doing.                                                                  *)
SendHeader ==
  /\ hpc = "header" /\ hpc' = "procedure"
  /\ chip' = [on |-> TRUE, no |-> command.no, reads |-> command.reads, n |-> command.n,
              nulls |-> 0, sent |-> 0, got |-> <<>>, wants |-> FALSE]
  /\ UNCHANGED <<command, rxlen, tx, rx, line, overdue>>

(* The branches on a procedure byte; any other byte is AM_SMC_ERR_IO.      *)
ReadProcedure ==
  /\ hpc = "procedure" /\ line # <<>>
  /\ LET byte == Head(line)
     IN \/ byte.is = "null" /\ UNCHANGED <<hpc, tx, rx, chip>>
        \/ byte.is = "sw1" /\ hpc' = "sw2" /\ rx' = Append(rx, byte) /\ UNCHANGED <<tx, chip>>
        \/ /\ byte.is = "ack" /\ tx # <<>> /\ tx' = <<>>
           /\ chip' = [chip EXCEPT !.got = @ \o tx, !.wants = FALSE]
           /\ UNCHANGED <<hpc, rx>>
        \/ byte.is = "ack" /\ tx = <<>> /\ hpc' = "all" /\ UNCHANGED <<tx, rx, chip>>
        \/ byte.is = "one" /\ hpc' = "one" /\ UNCHANGED <<tx, rx, chip>>
        \/ byte.is \in {"data", "sw2"} /\ hpc' = "idle" /\ UNCHANGED <<tx, rx, chip>>
  /\ line' = Tail(line)
  /\ UNCHANGED <<command, rxlen, overdue>>

(* rxlen bytes, when they are there.                                       *)
ReadAll ==
  /\ hpc = "all" /\ Len(line) >= rxlen
  /\ rx' = rx \o SubSeq(line, 1, rxlen)
  /\ line' = SubSeq(line, rxlen + 1, Len(line))
  /\ hpc' = "procedure"
  /\ UNCHANGED <<command, rxlen, tx, chip, overdue>>

(* Mutant: rxlen is not counted down.                                      *)
ReadOneKeep ==
  /\ hpc = "one" /\ line # <<>>
  /\ rx' = Append(rx, Head(line)) /\ line' = Tail(line)
  /\ hpc' = "procedure"
  /\ UNCHANGED <<command, tx, chip, overdue, rxlen>>

ReadOne ==
  /\ hpc = "one" /\ line # <<>>
  /\ rx' = Append(rx, Head(line)) /\ line' = Tail(line)
  /\ rxlen' = (rxlen - 1) % 256
  /\ hpc' = "procedure"
  /\ UNCHANGED <<command, tx, chip, overdue>>

ReadSW2 ==
  /\ hpc = "sw2" /\ line # <<>>
  /\ rx' = Append(rx, Head(line)) /\ line' = Tail(line)
  /\ hpc' = "idle"
  /\ UNCHANGED <<command, rxlen, tx, chip, overdue>>

(* smc_read gives up, and with it the transfer; the driver keeps what the  *)
(* card sends later.  Reading all of rxlen takes what there is.            *)
ReadTimesOut ==
  /\ \/ hpc \in {"procedure", "sw2", "one"} /\ line = <<>> /\ UNCHANGED line
     \/ hpc = "all" /\ Len(line) < rxlen /\ line' = <<>>
  /\ hpc' = "idle" /\ overdue' = TRUE
  /\ UNCHANGED <<command, rxlen, tx, rx, chip>>

T0Next ==
  \/ CardNull \/ CardSendsAll \/ CardSendsOne \/ CardAsksAll \/ CardEnds
  \/ TransferBegin \/ SendHeader \/ ReadProcedure \/ ReadAll \/ ReadOne \/ ReadSW2 \/ ReadTimesOut

T0Spec == T0Init /\ [][T0Next]_t0Vars

-----------------------------------------------------------------------------
(* As long as no transfer was given up the two sides stay in step: a       *)
(* transfer returns the data the card has sent and its status, of this     *)
(* command and in order, however the card mixes single bytes, NULLs and    *)
(* the rest, and leaves no byte behind for the next; the card gets the     *)
(* data of a write command once.  After a time-out nothing of this holds:  *)
(* the late answer is taken for that of the next command.                  *)
T0Exchange ==
  ~overdue =>
    /\ hpc = "idle" /\ command.no > 0 =>
         /\ rx = Data(command.no, chip.sent) \o <<SW1(command.no), SW2(command.no)>>
         /\ line = <<>>
    /\ chip.got # <<>> => chip.got = Data(chip.no, chip.n)
=============================================================================
