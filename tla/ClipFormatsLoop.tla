--------------------------- MODULE ClipFormatsLoop ---------------------------
(***************************************************************************)
(* The loops of the format helpers of x11-clipboard.cpp, translated step   *)
(* by step, and checked by TLC against the closed forms of ClipFormats     *)
(* that the core model and its proofs use.  The "state" of this module is  *)
(* an input: a target list a peer may offer and a VBox format mask.        *)
(***************************************************************************)
EXTENDS ClipFormats, SequencesExt

CONSTANTS
  PeerAtoms,   \* atom names a peer may list among its targets
  MaxTargets   \* the longest target list enumerated

ASSUME LoopConstantsOK == MaxTargets \in Nat /\ PeerAtoms # {}

VARIABLES targets, mask
vars == <<targets, mask>>

(* One iteration of the loop of clipGetTextFormatFromTargets: acc is the  *)
(* pair <<bestTextFormat, enmBestTextTarget>>.                            *)
TextFormatStep(acc, atom) ==
  LET format == clipFindX11FormatByAtom(atom)
  IN  IF /\ format # NIL_CLIPX11FORMAT
         /\ clipVBoxFormatForX11Format(format) = {UNICODETEXT}
         /\ acc[2] < clipRealFormatForX11Format(format)
      THEN << format, clipRealFormatForX11Format(format) >>
      ELSE acc

TextFormatLoop(pTargets) ==
  FoldLeft(TextFormatStep, << NIL_CLIPX11FORMAT, INVALID >>, pTargets)[1]

(* The do-while loop of clipCreateX11Targets that collects the atoms of   *)
(* the enumerated formats, followed by the three atoms always offered.    *)
RECURSIVE EnumAtomsFrom(_, _)
EnumAtomsFrom(vboxFormats, format) ==
  LET next == clipEnumX11Formats(vboxFormats, format)
  IN  IF next = NIL_CLIPX11FORMAT THEN << >>
      ELSE << clipAtomForX11Format(next) >> \o EnumAtomsFrom(vboxFormats, next)

CreateTargetsLoop(vboxFormats) ==
  EnumAtomsFrom(vboxFormats, NIL_CLIPX11FORMAT)
    \o << "TARGETS", "MULTIPLE", "TIMESTAMP" >>

(* Any target list a peer may answer TARGETS with, any announced mask.    *)
Inputs ==
  /\ targets \in BoundedSeq(PeerAtoms, MaxTargets)
  /\ mask \in SUBSET VBoxFormatBits

Init == Inputs

(* The next call of the helpers, with any other input.                    *)
Next ==
  /\ targets' \in BoundedSeq(PeerAtoms, MaxTargets)
  /\ mask' \in SUBSET VBoxFormatBits

Spec == Init /\ [][Next]_vars

(* The preference loop of clipGetTextFormatFromTargets, keeping the first *)
(* of the best text targets, computes the closed form the model uses.     *)
TextFormatLoopAgrees ==
  TextFormatLoop(targets) = clipGetTextFormatFromTargets(targets)

(* The do-while enumeration of clipCreateX11Targets computes the closed   *)
(* form the model uses for the TARGETS answer of the owner side.          *)
CreateTargetsLoopAgrees ==
  CreateTargetsLoop(mask) = clipCreateX11Targets(mask)

=============================================================================
