------------------------------- MODULE Volume -------------------------------
(***************************************************************************)
(* The volume as the users set it (Mute, Unmute, SetVolume of              *)
(* internal/bot/controls.go), as each new connection sets it up again      *)
(* (audio.New) and as the PCM goroutine follows it (VolumeHelper).         *)
(*                                                                         *)
(* A volume is a number from 0 (silence) to Full (1.0).                    *)
(***************************************************************************)
EXTENDS Integers

CONSTANTS
  Full,            \* the volume 1.0
  MaxVolume,       \* cfg.Bot.MaxVolume
  InitialVolumes   \* values of cfg.Bot.Volume in the configuration file

ASSUME VolumeAssumption ==
  /\ Full \in Nat \ {0}
  /\ MaxVolume \in 0..Full
  /\ InitialVolumes \subseteq 0..Full

Volumes == 0..Full

VARIABLES
  connected,   \* b.audio # nil: a connection has been made
  target,      \* TargetVolume of the current pipeline
  real,        \* RealVolume of the current pipeline
  cfgVolume,   \* cfg.Bot.Volume
  isMuted,     \* b.isMuted
  prevVol      \* b.prevVol

volumeVars == <<connected, target, real, cfgVolume, isMuted, prevVol>>

VolumeInit ==
  /\ connected = FALSE
  /\ target = 0 /\ real = 0 /\ prevVol = 0
  /\ cfgVolume \in InitialVolumes
  /\ isMuted = FALSE

\* Mutant of Clamped: the ceiling is forgotten.
Unclamped(vol) == vol

\* VolumeHelper.SetTargetVolume.  No caller passes a negative volume.
Clamped(vol) == IF vol > MaxVolume THEN MaxVolume ELSE vol

-----------------------------------------------------------------------------
\* The Connect handler installs a pipeline made from cfg.Bot.Volume, also
\* when one is there from an earlier connection.
Connect ==
  /\ connected' = TRUE
  /\ target' = cfgVolume
  /\ real' = cfgVolume
  /\ UNCHANGED <<cfgVolume, isMuted, prevVol>>

Mute ==
  /\ ~isMuted
  /\ isMuted' = TRUE
  /\ IF connected THEN prevVol' = target /\ target' = 0
                  ELSE prevVol' = cfgVolume /\ UNCHANGED target
  /\ UNCHANGED <<connected, real, cfgVolume>>

Unmute ==
  /\ isMuted
  /\ isMuted' = FALSE
  /\ IF connected THEN target' = Clamped(prevVol) ELSE UNCHANGED target
  /\ UNCHANGED <<connected, real, cfgVolume, prevVol>>

\* Mutant of SetVolume: the new volume is not stored in the configuration.
SetVolumeUnsaved(vol) ==
  /\ isMuted' = FALSE
  /\ IF connected THEN target' = Clamped(vol) /\ UNCHANGED cfgVolume
                  ELSE UNCHANGED target /\ cfgVolume' = Clamped(vol)
  /\ UNCHANGED <<connected, real, prevVol>>

\* vol is the percentage of the command, which lets 0..100 through.
SetVolume(vol) ==
  /\ isMuted' = FALSE
  /\ IF connected THEN target' = Clamped(vol) ELSE UNCHANGED target
  /\ cfgVolume' = Clamped(vol)
  /\ UNCHANGED <<connected, real, prevVol>>

\* Mutant of Cycle: a linear step, which goes too far when the time since
\* the last frame is long.
CycleLinear ==
  /\ connected
  /\ \E k \in 0..2 : real' = real + k * (target - real)
  /\ UNCHANGED <<connected, target, cfgVolume, isMuted, prevVol>>

\* One frame: RealVolume moves towards TargetVolume by some fraction of the
\* distance, which depends on the time since the last frame.
Cycle ==
  /\ connected
  /\ real' \in Volumes
  /\ \/ target <= real' /\ real' <= real
     \/ real <= real' /\ real' <= target
  /\ UNCHANGED <<connected, target, cfgVolume, isMuted, prevVol>>

VolumeNext ==
  \/ Connect \/ Mute \/ Unmute \/ Cycle
  \/ \E vol \in Volumes : SetVolume(vol)

VolumeSpec == VolumeInit /\ [][VolumeNext]_volumeVars

-----------------------------------------------------------------------------
VolumeTypeOK ==
  /\ {connected, isMuted} \subseteq BOOLEAN
  /\ {target, real, cfgVolume, prevVol} \subseteq Volumes

(* VolumeHelper "enforces a MaxVolume ceiling" (volume.go:10): whatever is *)
(* set, muted, restored or taken over by a new connection, the bot is      *)
(* never louder, and never aims to be louder, than MaxVolume.              *)
Ceiling == connected => target <= MaxVolume /\ real <= MaxVolume

(* The volume a user chose is kept, in cfg.Bot.Volume while no pipeline    *)
(* exists, across every new pipeline, and while the bot is muted; whoever  *)
(* unmutes gets it back.                                                   *)
ChosenVolumeKept ==
  /\ ~isMuted /\ connected => target = cfgVolume
  /\ isMuted => prevVol = cfgVolume

-----------------------------------------------------------------------------
(* controls.go:33: Mute "sets volume to 0", until Unmute or SetVolume: a   *)
(* bot that is muted aims at silence.                                      *)
MutedIsSilent == isMuted /\ connected => target = 0

(* README.md:266: "Volume is a percentage of max_volume."                  *)
VolumeIsShareOfMax ==
  [][\A vol \in Volumes : SetVolume(vol) => cfgVolume' * Full = vol * MaxVolume]_volumeVars
=============================================================================
