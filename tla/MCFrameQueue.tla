---------------------------- MODULE MCFrameQueue ----------------------------
(* The two configurations of the program, scaled down, and one with the     *)
(* option that only FrameQueueConfig's users outside the program set.       *)
EXTENDS FrameQueue

\* FrameQueueConfig::default(): the game mode.
GameConfig ==
  [max_units |-> 2, max_bytes |-> 1, hard_reset |-> FALSE,
   prefer_latest |-> TRUE, drop_current |-> TRUE, jitter |-> 0]

\* FrameQueueConfig::cinema(): the media mode.
CinemaConfig ==
  [max_units |-> 2, max_bytes |-> 3, hard_reset |-> FALSE,
   prefer_latest |-> FALSE, drop_current |-> FALSE, jitter |-> 1]

\* The hard reset on key frames, with bytes as the tighter limit.
ResetConfig ==
  [max_units |-> 3, max_bytes |-> 2, hard_reset |-> TRUE,
   prefer_latest |-> FALSE, drop_current |-> TRUE, jitter |-> 0]

AllConfigs == {GameConfig, CinemaConfig, ResetConfig}
=============================================================================
