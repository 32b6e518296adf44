------------------------------- MODULE AskTest -------------------------------
(***************************************************************************)
(* The programs sound and video, which ask the user.  In the mode sound a  *)
(* thread plays a file again and again while main asks; in the mode mic a  *)
(* recorder runs in the background of two players.                         *)
(***************************************************************************)
EXTENDS TestProgram

VARIABLE ask

AskTypeOK ==
    ask \in [works: BOOLEAN, eof: BOOLEAN, player: {"none", "check", "fork", "wait", "ended", "aborts"},
             kid: {"none", "runs", "ended"}, pid: {"zero", "old", "kid"}, quit: BOOLEAN,
             recorder: {"none", "runs", "ended"}]

\* The user, who hears the sound or sees the picture or not, and stdin, which
\* may be at its end.
InitAsk ==
    ask \in StartOf({"sound", "mic", "video"},
       [works: BOOLEAN, eof: BOOLEAN, player: {"none"}, kid: {"none"}, pid: {"zero"},
        quit: {FALSE}, recorder: {"none"}])

\* perform_speaker_test up to its thread: the volume may be set by a command,
\* whose pid stays in g_playback_pid.
SetVolume ==
    /\ At("sound", "start")
    /\ \/ Throw /\ UNCHANGED ask
       \/ \E pid \in {"zero", "old"}: Go("thread") /\ ask' = [ask EXCEPT !.pid = pid]

StartPlayer ==
    /\ At("sound", "thread")
    /\ \/ Throw /\ UNCHANGED ask
       \/ Go("ask") /\ ask' = [ask EXCEPT !.player = "check"]

FindPort == At("video", "start") /\ (Throw \/ Go("ask")) /\ UNCHANGED ask

\* Main waits for a line of the user, for any time; at the end of stdin it does not.
UserAsked == (\E p \in {"sound", "video", "mic"}: At(p, "ask")) /\ ~ask.eof

\* Yes or no; sound and video ask again after anything else, which changes
\* nothing here.
Answer ==
    /\ At("sound", "ask") \/ At("video", "ask")
    /\ IF ask.eof THEN Throw ELSE Go(IF prog = "sound" THEN "quit" ELSE "judge")
    /\ UNCHANGED ask

\* The user answers as it is; mic takes all but a yes for a no.
JudgeAnswer ==
    /\ \E p \in {"sound", "video", "mic"}: At(p, "judge")
    /\ IF ask.works THEN Go("ok") \/ (prog = "mic" /\ Throw) ELSE Throw
    /\ UNCHANGED ask

SetQuit == At("sound", "quit") /\ Go("kill") /\ ask' = [ask EXCEPT !.quit = TRUE]

\* kill of g_playback_pid: the player, one that has ended, or, before there
\* ever was one, the whole process group, with the program itself.
KillPlayer ==
    /\ At("sound", "kill")
    /\ at' = "join"
    /\ stop' = IF ask.pid = "zero" THEN "sent" ELSE stop
    /\ ask' = [ask EXCEPT !.kid = IF @ = "runs" THEN "ended" ELSE @]
    /\ UNCHANGED <<prog, said>>

JoinPlayer == At("sound", "join") /\ ask.player = "ended" /\ Go("judge") /\ UNCHANGED ask

\* playback_worker_thread.
PlayerCheck ==
    /\ ask.player = "check"
    /\ ask' = [ask EXCEPT !.player = IF ask.quit THEN "ended" ELSE "fork"]
    /\ UNCHANGED program

\* An exception that leaves the thread aborts the program.
PlayerFork ==
    /\ ask.player = "fork"
    /\ \E started \in RunProcess:
       \/ /\ started = "runs"
          /\ ask' = [ask EXCEPT !.player = "wait", !.kid = "runs", !.pid = "kid"]
          /\ UNCHANGED program
       \/ /\ started = "failed"
          /\ ask' = [ask EXCEPT !.player = "aborts"]
          /\ stop' = IF stop = "no" THEN "sent" ELSE stop
          /\ UNCHANGED <<prog, at, said>>

PlayerWait ==
    /\ ask.player = "wait"
    /\ ask.kid = "ended"
    /\ ask' = [ask EXCEPT !.player = "check", !.kid = "none"]
    /\ UNCHANGED program

Player == Alive /\ (PlayerCheck \/ PlayerFork \/ PlayerWait)

\* A player plays its file to the end.
PlayEnds == Alive /\ ask.kid = "runs" /\ ask' = [ask EXCEPT !.kid = "ended"] /\ UNCHANGED program

\* perform_microphone_test.
Record ==
    /\ At("mic", "start")
    /\ \E started \in RunProcess:
          IF started = "failed" THEN Throw /\ UNCHANGED ask
          ELSE Go("reference") /\ ask' = [ask EXCEPT !.recorder = started]

Play(from, to) ==
    /\ At("mic", from)
    /\ \E started \in RunProcess:
          IF started = "failed" THEN Throw /\ UNCHANGED ask
          ELSE Go(to) /\ ask' = [ask EXCEPT !.kid = started, !.pid = "kid"]

\* The recorder is stopped and never waited for.
StopRecorder ==
    /\ At("mic", "recorded")
    /\ ask.kid = "ended"
    /\ Go("replay")
    /\ ask' = [ask EXCEPT !.kid = "none", !.recorder = "ended"]

\* One line is read.
AskOnce ==
    /\ At("mic", "ask")
    /\ IF ask.eof THEN Throw /\ UNCHANGED ask
       ELSE Go("wait") /\ ask' = [ask EXCEPT !.kid = "ended"]

WaitPlayer == At("mic", "wait") /\ ask.kid = "ended" /\ Go("judge") /\ ask' = [ask EXCEPT !.kid = "none"]

Microphone == Record \/ Play("reference", "recorded") \/ StopRecorder \/ Play("replay", "ask")
                 \/ AskOnce \/ WaitPlayer

AskMain == SetVolume \/ StartPlayer \/ FindPort \/ Answer \/ SetQuit \/ KillPlayer \/ JoinPlayer
              \/ Microphone \/ JudgeAnswer

AskNext == AskMain \/ Player \/ PlayEnds

AskPassed == ask.works
=============================================================================
