------------------------------ MODULE Timeline ------------------------------
(***************************************************************************)
(* What undo and redo promise: the versions of a document lie on a line    *)
(* and the user stands at one of them.  Undo and redo walk along the line  *)
(* and change no version; an edit drops the versions after the place where *)
(* the user stands, and the oldest ones that no longer fit.                *)
(***************************************************************************)
EXTENDS Naturals, Sequences, SequencesExt

CONSTANT MaxPast  \* versions kept before the current one, a natural number

VARIABLES
  versions,  \* the versions, the oldest first
  at         \* the place of the current one

tlVars == <<versions, at>>

TlInit == Len(versions) = 1 /\ at = 1

\* The latest of the versions up to the current one, as many as may be kept.
Kept == LET past == SubSeq(versions, 1, at)
        IN IF at <= MaxPast THEN past ELSE SubSeq(past, at - MaxPast + 1, at)

EditVersion == /\ versions' # <<>> /\ Front(versions') = Kept
               /\ at' = Len(versions')

Walk == /\ at' \in DOMAIN versions /\ at' \in {at - 1, at + 1}
        /\ UNCHANGED versions

TlNext == EditVersion \/ Walk

TlSpec == TlInit /\ [][TlNext]_tlVars
=============================================================================
