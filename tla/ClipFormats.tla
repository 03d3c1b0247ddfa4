----------------------------- MODULE ClipFormats -----------------------------
(***************************************************************************)
(* The format table of the X11 shared-clipboard backend                    *)
(* (x11-clipboard.cpp, g_aFormats and the helpers around it).              *)
(*                                                                         *)
(* An X11 atom is represented by its name: clipGetAtom interns a name into *)
(* an atom injectively, so comparing atoms is comparing names.  A VBox     *)
(* format mask is represented by the set of its bits.                      *)
(*                                                                         *)
(* The two loops of the code that this module needs inside the core model *)
(* (clipGetTextFormatFromTargets, clipCreateX11Targets) are written here   *)
(* in closed form, without recursion, so that the proof modules can use    *)
(* them; ClipFormatsLoop translates the loops themselves and TLC checks    *)
(* that the two agree on every bounded input.                              *)
(***************************************************************************)
EXTENDS Naturals, Sequences, FiniteSets

(* enum CLIPFORMAT: the real formats, in the order used for preference.   *)
INVALID == 0
TARGETS == 1
TEXT    == 2
CTEXT   == 3
UTF8    == 4

(* The VBox clipboard format bits the backend knows of.                   *)
UNICODETEXT == "UNICODETEXT"
BITMAP      == "BITMAP"
VBoxFormatBits == {UNICODETEXT, BITMAP}

(* g_aFormats: atom name, real format and VBox format of each entry.  The *)
(* CLIPX11FORMAT of an entry is its 0-based index.                        *)
g_aFormats ==
  << [atom |-> "INVALID",                  format |-> INVALID, vbox |-> {}],
     [atom |-> "UTF8_STRING",              format |-> UTF8,  vbox |-> {UNICODETEXT}],
     [atom |-> "text/plain;charset=UTF-8", format |-> UTF8,  vbox |-> {UNICODETEXT}],
     [atom |-> "text/plain;charset=utf-8", format |-> UTF8,  vbox |-> {UNICODETEXT}],
     [atom |-> "STRING",                   format |-> TEXT,  vbox |-> {UNICODETEXT}],
     [atom |-> "TEXT",                     format |-> TEXT,  vbox |-> {UNICODETEXT}],
     [atom |-> "text/plain",               format |-> TEXT,  vbox |-> {UNICODETEXT}],
     [atom |-> "COMPOUND_TEXT",            format |-> CTEXT, vbox |-> {UNICODETEXT}] >>

NIL_CLIPX11FORMAT == 0
MAX_CLIP_X11_FORMATS == Len(g_aFormats)
X11Formats == 0 .. (MAX_CLIP_X11_FORMATS - 1)

(* The atoms that are not formats but that the backend names.             *)
SupAtoms == {"PRIMARY", "CLIPBOARD", "TARGETS", "MULTIPLE", "TIMESTAMP"}
FormatAtoms == {g_aFormats[i].atom : i \in 1 .. MAX_CLIP_X11_FORMATS}

clipAtomForX11Format(x)       == g_aFormats[x + 1].atom
clipRealFormatForX11Format(x) == g_aFormats[x + 1].format
clipVBoxFormatForX11Format(x) == g_aFormats[x + 1].vbox

(* clipFindX11FormatByAtom: the entry whose atom is the given one, NIL    *)
(* when there is none.  The names of the table are distinct, so the first *)
(* match of the code's linear scan is the only one.                       *)
clipFindX11FormatByAtom(a) ==
  IF \E x \in X11Formats : clipAtomForX11Format(x) = a
  THEN CHOOSE x \in X11Formats : clipAtomForX11Format(x) = a
  ELSE NIL_CLIPX11FORMAT

(* Mutant: the scan starts one entry too far on.                          *)
clipEnumX11FormatsSkip(u32VBoxFormats, lastFormat) ==
  LET Matches == {x \in (lastFormat + 2) .. (MAX_CLIP_X11_FORMATS - 1) :
                    u32VBoxFormats \cap clipVBoxFormatForX11Format(x) # {}}
  IN  IF Matches = {} THEN NIL_CLIPX11FORMAT
      ELSE CHOOSE x \in Matches : \A y \in Matches : x <= y

(* clipEnumX11Formats: the first entry after lastFormat whose VBox format *)
(* shares a bit with the given mask, NIL when there is no more.           *)
clipEnumX11Formats(u32VBoxFormats, lastFormat) ==
  LET Matches == {x \in (lastFormat + 1) .. (MAX_CLIP_X11_FORMATS - 1) :
                    u32VBoxFormats \cap clipVBoxFormatForX11Format(x) # {}}
  IN  IF Matches = {} THEN NIL_CLIPX11FORMAT
      ELSE CHOOSE x \in Matches : \A y \in Matches : x <= y

(* clipGetTextFormatFromTargets: the entry of the best text format among  *)
(* the targets, that is of the first target whose format has the highest  *)
(* preference among those that are Unicode text (the loop replaces its    *)
(* best only on a strictly higher preference).                            *)
IsTextTarget(a) ==
  LET x == clipFindX11FormatByAtom(a)
  IN  /\ x # NIL_CLIPX11FORMAT
      /\ clipVBoxFormatForX11Format(x) = {UNICODETEXT}
      /\ INVALID < clipRealFormatForX11Format(x)

TargetPref(a) == clipRealFormatForX11Format(clipFindX11FormatByAtom(a))

(* Mutant: the best is replaced on an equal preference too, so that the  *)
(* last of the best targets wins.                                         *)
clipGetTextFormatFromTargetsLast(pTargets) ==
  LET Text == {i \in 1 .. Len(pTargets) : IsTextTarget(pTargets[i])}
      IsBest(i) == \A j \in Text :
                     \/ TargetPref(pTargets[j]) < TargetPref(pTargets[i])
                     \/ TargetPref(pTargets[j]) = TargetPref(pTargets[i]) /\ j <= i
  IN  IF Text = {} THEN NIL_CLIPX11FORMAT
      ELSE clipFindX11FormatByAtom(pTargets[CHOOSE i \in Text : IsBest(i)])

clipGetTextFormatFromTargets(pTargets) ==
  LET Text == {i \in 1 .. Len(pTargets) : IsTextTarget(pTargets[i])}
      IsBest(i) == \A j \in Text :
                     \/ TargetPref(pTargets[j]) < TargetPref(pTargets[i])
                     \/ TargetPref(pTargets[j]) = TargetPref(pTargets[i]) /\ i <= j
  IN  IF Text = {} THEN NIL_CLIPX11FORMAT
      ELSE clipFindX11FormatByAtom(pTargets[CHOOSE i \in Text : IsBest(i)])

(* clipCreateX11Targets: the atoms of every entry matching the VBox       *)
(* formats in table order, followed by TARGETS, MULTIPLE and TIMESTAMP.   *)
clipCreateX11Targets(vboxFormats) ==
  LET Matching == {x \in 1 .. (MAX_CLIP_X11_FORMATS - 1) :
                     vboxFormats \cap clipVBoxFormatForX11Format(x) # {}}
      Nth(k) == CHOOSE x \in Matching :
                  Cardinality({y \in Matching : y < x}) = k - 1
  IN  [k \in 1 .. Cardinality(Matching) |-> clipAtomForX11Format(Nth(k))]
        \o << "TARGETS", "MULTIPLE", "TIMESTAMP" >>

=============================================================================
