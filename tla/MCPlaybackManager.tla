------------------------- MODULE MCPlaybackManager -------------------------
(* PlaybackManager for TLC. *)
EXTENDS PlaybackManager

MCProviders == {"video", "audio"}
MCVideoProviders == {"video"}
=============================================================================
