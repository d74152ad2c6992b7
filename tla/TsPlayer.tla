------------------------------ MODULE TsPlayer ------------------------------
(***************************************************************************)
(* The time shift player of am_av/aml/aml.c: a thread that obeys the       *)
(* commands clients leave in tshift->cmd.                                  *)
(*                                                                         *)
(* There is one place for a command: a client overwrites the command not   *)
(* yet taken, and the thread, after a seek or at the end of a fast         *)
(* forward, gives itself the command "start" in the same place.  A command *)
(* equal to the last one is not carried out.  The thread ends when running *)
(* is reset and no command is left; AM_AV_StopTimeshift joins it with      *)
(* dev->lock held, which AM_AV_TimeshiftFillData needs.                    *)
(*                                                                         *)
(* Clients give any command in any state.  What that does to the player is *)
(* kept in two history variables, read by the properties only: "startLost" *)
(* when a client has replaced the command the thread gave itself for a     *)
(* search, "masked" when the decoder is in the trick mode of a fast        *)
(* forward that last_cmd hides.                                            *)
(***************************************************************************)
EXTENDS Integers

CONSTANT Cmds     \* the commands clients give

ASSUME TsPlayerAssumption ==
  Cmds \subseteq {"start", "pause", "resume", "ff", "fb", "seek", "vpath", "audio"}

VARIABLES
  cmd,            \* tshift->cmd
  speed,          \* tshift->speed
  rate,           \* whether tshift->rate is known
  tsRunning,      \* tshift->running
  player,         \* what the thread alone changes: state, last_cmd, the trick
                  \* mode of the decoder, whether data is injected
  tpc, local,     \* where the thread is, its copy of cmd
  client,         \* the clients: in use, or at the join
  startLost,      \* history: a client has replaced the thread's own command
  masked          \* history: a trick mode that last_cmd does not show

playerVars == <<cmd, speed, rate, tsRunning, player, tpc, local, client, startLost, masked>>

Players == [state : {"stop", "play", "pause", "fffb", "searchok"}, last : Cmds \cup {"start", "none"},
            trick : {"none", "fffb"}, inject : BOOLEAN]

TsPlayerTypeOK ==
  /\ cmd \in Cmds \cup {"start"} /\ local \in Cmds \cup {"start"}
  /\ speed \in 0 .. 1 /\ rate \in BOOLEAN /\ tsRunning \in BOOLEAN
  /\ player \in Players
  /\ tpc \in {"test", "take", "obey", "restart", "trick", "exit"}
  /\ client \in {"use", "join", "gone"} /\ startLost \in BOOLEAN /\ masked \in BOOLEAN

(* aml_start_timeshift: the data is zero, and zero is the command "start". *)
TsPlayerInit ==
  /\ cmd = "start" /\ speed = 0 /\ rate = FALSE /\ tsRunning = TRUE
  /\ player = [state |-> "stop", last |-> "none", trick |-> "none", inject |-> FALSE]
  /\ tpc = "test" /\ local = "start"
  /\ client = "use" /\ startLost = FALSE /\ masked = FALSE

-----------------------------------------------------------------------------
(* aml_timeshift_do_play_cmd for a command other than the last: what the   *)
(* player becomes.                                                         *)
Turned(p, state, trick, inject) == [p EXCEPT !.state = state, !.trick = trick, !.inject = inject]

Carried(p, c) ==
  CASE c = "start" /\ p.state # "play"         -> Turned(p, "play", "none", TRUE)
    [] c = "pause" /\ p.state # "pause"        -> Turned(p, "pause", p.trick, FALSE)
    [] c = "resume" /\ p.state = "pause"       -> Turned(p, "play", p.trick, TRUE)
    [] c \in {"ff", "fb"} /\ p.state # "fffb"  -> Turned(p, "fffb", "fffb", TRUE)
    [] c \in {"seek", "vpath"}                 -> Turned(p, "searchok", "none", FALSE)
    [] c = "audio" /\ p.state = "pause"        -> Turned(p, "pause", "none", FALSE)
    [] c = "audio" /\ p.state # "pause"        -> Turned(p, "searchok", p.trick, FALSE)
    [] OTHER                                   -> p

(* A command that is given up: last_cmd keeps its value, and the command   *)
(* stays in its place.                                                     *)
Skipped(p, c) ==
  \/ ~rate /\ c \in {"ff", "fb", "seek"}
  \/ c \in {"ff", "fb"} /\ c # p.last /\ p.state = "play" /\ speed = 0

(* Mutant: a command without effect is given up as well.                   *)
ObeyChange(p, c) ==
  IF Skipped(p, c) \/ c = p.last \/ Carried(p, c) = p THEN p
  ELSE [Carried(p, c) EXCEPT !.last = c]

Obey(p, c) ==
  IF Skipped(p, c) \/ c = p.last THEN p ELSE [Carried(p, c) EXCEPT !.last = c]

(* Mutant: a pause comes upon a fast forward directly.                     *)
PreludeNone(p, c) == p

(* From fast forward to pause: "do AV_PLAY_START first".                   *)
Prelude(p, c) ==
  IF p.last \in {"ff", "fb"} /\ c = "pause" THEN Obey(p, "start") ELSE p

-----------------------------------------------------------------------------
(* The thread.                                                             *)

LoopTest ==
  /\ tpc = "test"
  /\ tpc' = IF tsRunning \/ cmd # player.last THEN "take" ELSE "exit"
  /\ UNCHANGED <<cmd, speed, rate, tsRunning, player, local, client, startLost, masked>>

Take ==
  /\ tpc = "take"
  /\ local' = cmd
  /\ tpc' = "obey"
  /\ UNCHANGED <<cmd, speed, rate, tsRunning, player, client, startLost, masked>>

(* The command is carried out.  A new search turns to play; a fast forward *)
(* begins with a jump, and turns to play when the jump reaches the end of  *)
(* the file or the speed is 0.                                             *)
ObeyCommand ==
  /\ tpc = "obey"
  /\ player' = Obey(Prelude(player, local), local)
  /\ \/ player'.state = "searchok" /\ player.state # "searchok" /\ tpc' = "restart"
     \/ player'.state = "fffb" /\ player.state # "fffb" /\ tpc' = "restart"
     \/ /\ ~(player'.state = "searchok" /\ player.state # "searchok")
        /\ ~(player'.state = "fffb" /\ player.state # "fffb" /\ speed = 0)
        /\ tpc' = "trick"
  /\ startLost' = (startLost /\ player'.state = "searchok")
  /\ masked' = /\ player'.trick = "fffb" /\ player'.last \notin {"ff", "fb"}
               /\ masked \/ startLost \/ (local = "resume" /\ player.state = "fffb")
  /\ UNCHANGED <<cmd, speed, rate, tsRunning, local, client>>

(* Mutant: the thread does not give itself the command.                    *)
RestartNot ==
  /\ tpc = "restart"
  /\ tpc' = "trick"
  /\ UNCHANGED <<cmd, speed, rate, tsRunning, player, local, client, startLost, masked>>

(* cmd = AV_PLAY_START, under the lock, whatever a client has put there    *)
(* since the thread took its copy.                                         *)
Restart ==
  /\ tpc = "restart"
  /\ cmd' = "start"
  /\ tpc' = "trick"
  /\ UNCHANGED <<speed, rate, tsRunning, player, local, client, startLost, masked>>

(* The rest of the loop: in fast forward the next jump, which may reach    *)
(* the end.  All waits of the loop have a timeout.                         *)
Trick ==
  /\ tpc = "trick"
  /\ \/ tpc' = "test" /\ UNCHANGED cmd
     \/ player.state = "fffb" /\ tpc' = "test" /\ cmd' = "start"
  /\ UNCHANGED <<speed, rate, tsRunning, player, local, client, startLost, masked>>

ThreadStep == LoopTest \/ Take \/ ObeyCommand \/ Restart \/ Trick

-----------------------------------------------------------------------------
(* The clients.                                                            *)

(* aml_timeshift_cmd: whatever the state, and whatever command waits.      *)
Command(c, s) ==
  /\ client = "use"
  /\ cmd' = c
  /\ speed' = IF c \in {"ff", "fb"} THEN s ELSE speed
  /\ startLost' = \/ startLost
                  \/ /\ player.state = "searchok" /\ cmd = "start" /\ c # "start"
                     /\ tpc \in {"trick", "test", "take"}
  /\ UNCHANGED <<rate, tsRunning, player, tpc, local, client, masked>>

(* aml_timeshift_fill_data, which needs dev->lock, has measured the rate.  *)
RateKnown ==
  /\ client = "use" /\ ~rate
  /\ rate' = TRUE
  /\ UNCHANGED <<cmd, speed, tsRunning, player, tpc, local, client, startLost, masked>>

(* AM_AV_StopTimeshift up to pthread_join.                                 *)
Stop ==
  /\ client = "use"
  /\ tsRunning' = FALSE
  /\ client' = "join"
  /\ UNCHANGED <<cmd, speed, rate, player, tpc, local, startLost, masked>>

StopJoined ==
  /\ client = "join" /\ tpc = "exit"
  /\ client' = "gone"
  /\ UNCHANGED <<cmd, speed, rate, tsRunning, player, tpc, local, startLost, masked>>

TsPlayerNext ==
  ThreadStep \/ RateKnown \/ Stop \/ StopJoined \/ (\E c \in Cmds, s \in 0 .. 1 : Command(c, s))

TsPlayerSpec == TsPlayerInit /\ [][TsPlayerNext]_playerVars

(* The waits of the thread have timeouts.                                  *)
TsPlayerFairSpec == TsPlayerSpec /\ WF_playerVars(ThreadStep) /\ WF_playerVars(StopJoined)

-----------------------------------------------------------------------------
(* A search ends, even when the player is being stopped: the command the   *)
(* thread gives itself is taken, unless a client replaces it before.       *)
SearchEnds == player.state = "searchok" ~> player.state # "searchok" \/ startLost

(* While the player plays, the decoder is not left in the trick mode of a  *)
(* fast forward (the fix of issue 101093), whatever commands lead there,   *)
(* but for two ways that hide it from the code that looks at last_cmd: a   *)
(* RESUME obeyed in fast forward, which does nothing, and a change of the  *)
(* audio track there whose "start" a client replaces.                      *)
PlaysNormally == player.state = "play" => player.trick = "none" \/ masked

(* AM_AV_StopTimeshift waits for the player.                               *)
TsStopping == client = "join"

(* And does for ever: the command that is left is given up in each turn of *)
(* the loop, and remains different from the last.                          *)
HeldUp ==
  /\ cmd # player.last /\ Skipped(player, cmd)
  /\ tpc \in {"test", "take", "trick"} \/ (tpc = "obey" /\ local = cmd)

HungUp == TsStopping /\ HeldUp
=============================================================================
