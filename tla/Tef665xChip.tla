----------------------------- MODULE Tef665xChip -----------------------------
(***************************************************************************)
(* The TEF665x tuner chip as radio_impl_tef665x.c uses it over I2C, and    *)
(* tef665x_chip_init, which brings it up.  A transfer may fail: inside one *)
(* stage of the bring-up a failure ends the stage, but the next stage is   *)
(* entered whatever the one before returned.  Later transfers are taken to *)
(* succeed: nobody looks at what a tune or a mute returns.                 *)
(***************************************************************************)
EXTENDS Integers

CONSTANTS
    AmMin,     \* known_am_band_plans[am_bandplan].min, in kHz
    MayFail    \* TRUE: a transfer of the bring-up may fail

ASSUME ChipAssumption == AmMin \in Nat \ {0} /\ MayFail \in BOOLEAN

VARIABLES
    chip,      \* what the chip is in; outside the code
    boot       \* where tef665x_init is

ChipTypeOK ==
    /\ chip \in [state: {"boot", "idle", "active"}, patched: BOOLEAN,
                 tuned: Nat, muted: BOOLEAN]
    /\ boot \in {"patch", "start", "idle", "active", "ready", "serving"}

\* tef665x_probe has found the chip, and radio_powerSwitch has switched it on.
ChipInit ==
    /\ chip = [state |-> "boot", patched |-> FALSE, tuned |-> 0, muted |-> TRUE]
    /\ boot = "patch"

\* A command, which only an active chip obeys.
Command(obeyed) == chip' = IF chip.state = "active" THEN obeyed ELSE chip

\* FM_tune_to and AM_tune_to, with the action Preset or Search.
TuneTo(frequency) == Command([chip EXCEPT !.tuned = frequency])

SetMute(muted) == Command([chip EXCEPT !.muted = muted])

-----------------------------------------------------------------------------
(* tef665x_chip_init, after tef665x_power_on, which only reads the status *)

Stage(from, to) == boot = from /\ boot' = to

\* tef665x_patch_init: seven transfers or series of them, up to the first that
\* fails; only all of them together are the patch.  (The last byte of its two long
\* tables is never sent, and what the chip makes of that is not in the code.)
PatchLoads ==
    /\ Stage("patch", "start")
    /\ chip' = [chip EXCEPT !.patched = TRUE]

PatchFails ==
    /\ MayFail /\ Stage("patch", "idle")
    /\ UNCHANGED chip

\* tef665x_start_cmd
StartCmd ==
    /\ Stage("start", "idle")
    /\ \/ chip' = [chip EXCEPT !.state = "idle"]
       \/ MayFail /\ chip' = chip

\* tef665x_idle_state: the reference clock is set and the chip activated, unless
\* it is still in its boot state or a transfer fails.  (get_operation_status reads
\* one byte into an enum it has not initialized: it may take boot for active, but
\* then the two commands are sent to a chip that does not obey.)
IdleState ==
    /\ Stage("idle", "active")
    /\ \/ chip.state # "boot" /\ chip' = [chip EXCEPT !.state = "active"]
       \/ (MayFail \/ chip.state = "boot") /\ chip' = chip

\* tef665x_wait_active: an active chip gets its parameters and is tuned to the AM
\* band's minimum; it is muted already.  Otherwise, or when a transfer before the
\* tune fails, it is not tuned at all.
WaitActive ==
    /\ Stage("active", "ready")
    /\ \/ chip.state = "active" /\ TuneTo(AmMin)
       \/ (MayFail \/ chip.state # "active") /\ chip' = chip

Boot == PatchLoads \/ PatchFails \/ StartCmd \/ IdleState \/ WaitActive

=============================================================================
