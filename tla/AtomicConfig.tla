---------------------------- MODULE AtomicConfig ----------------------------
(***************************************************************************)
(* What Safe Apply promises about /etc/avahi, with no journal, snapshot or *)
(* helper process in sight: an accepted change reaches the disk and the    *)
(* managed baseline together or not at all.  Other tools may edit the      *)
(* directory at any time; only the files they touch while a change is      *)
(* being applied may come out differently.                                 *)
(***************************************************************************)
CONSTANTS Files,     \* the managed paths
          Values,    \* what a path can hold, absence included
          NoImage    \* "nothing accepted yet" / "no change in progress"

VARIABLES stable,    \* the configuration a crash would bring back
          accepted,  \* the image of the managed baseline
          phase,     \* "none", "applying", "undoing" or "accepting"
          target,    \* the image being applied or accepted
          touched    \* files other tools wrote while a change is applied

vars == <<stable, accepted, phase, target, touched>>

Images == [Files -> Values]

\* a and b hold the same content in every file outside T.
AgreeOff(T, a, b) == \A f \in Files \ T : a[f] = b[f]

Applying == phase \in {"applying", "undoing"}

Init ==
  /\ stable \in Images
  /\ accepted = NoImage
  /\ phase = "none"
  /\ target = NoImage
  /\ touched = {}

Done == phase' = "none" /\ target' = NoImage /\ touched' = {}

\* An editor, a package script or another tool writes one file.
Edit(f, v) ==
  /\ IF Applying
     THEN touched' = touched \union {f} /\ UNCHANGED stable
     ELSE stable' = [stable EXCEPT ![f] = v] /\ UNCHANGED touched
  /\ UNCHANGED <<accepted, phase, target>>

BeginApply(t) ==
  /\ phase = "none"
  /\ phase' = "applying"
  /\ target' = t
  /\ touched' = {}
  /\ UNCHANGED <<stable, accepted>>

\* The commit point: disk and baseline change in one step.
Commit ==
  /\ phase = "applying"
  /\ stable' \in Images
  /\ AgreeOff(touched, stable', target)
  /\ accepted' = target
  /\ Done

\* The change can no longer commit (a failed step, or the helper died).
Doom ==
  /\ phase = "applying"
  /\ phase' = "undoing"
  /\ target' = NoImage
  /\ UNCHANGED <<stable, accepted, touched>>

Undo ==
  /\ Applying
  /\ stable' \in Images
  /\ AgreeOff(touched, stable', stable)
  /\ UNCHANGED accepted
  /\ Done

\* Reload from disk, the first takeover and a save that changes nothing make
\* the image that is on disk when they are requested the managed baseline.
BeginAccept ==
  /\ phase = "none"
  /\ phase' = "accepting"
  /\ target' = stable
  /\ UNCHANGED <<stable, accepted, touched>>

Accept ==
  /\ phase = "accepting"
  /\ accepted' = target
  /\ Done
  /\ UNCHANGED stable

Abandon ==
  /\ phase = "accepting"
  /\ Done
  /\ UNCHANGED <<stable, accepted>>

Next ==
  \/ \E f \in Files, v \in Values : Edit(f, v)
  \/ \E t \in Images : BeginApply(t)
  \/ Commit \/ Doom \/ Undo
  \/ BeginAccept \/ Accept \/ Abandon

Spec == Init /\ [][Next]_vars
=============================================================================
