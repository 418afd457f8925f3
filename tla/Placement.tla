-------------------------------- MODULE Placement --------------------------------
(***************************************************************************)
(* Where the hint of a menu item is put (choose_tooltip_placement in       *)
(* src/src/windows_tray_theme.rs): beside, below or above the item, inside *)
(* the work area of its monitor.  Screen coordinates stay so far below     *)
(* 2^31 that the saturating arithmetic of the code is plain arithmetic.    *)
(***************************************************************************)
EXTENDS Integers, FiniteSetsExt

CONSTANTS
  Width, Height,   \* of the work area, whose corner is at <<0, 0>>
  MaxSize,         \* bound: a side of the item, or of the hint
  Gaps             \* the gaps between item and hint, one for each DPI

ASSUME PlacementAssumption ==
  /\ {Width, Height} \cup Gaps \subseteq Nat /\ Gaps # {}
  /\ MaxSize \in Nat \ {0}

VARIABLES
  item,        \* the rectangle of the menu item
  size,        \* the size of the hint
  gap,         \* between them
  placed       \* the rectangle of the hint, NotPlaced before

placementVars == <<item, size, gap, placed>>

RectAt(left, top, width, height) ==
  [left |-> left, top |-> top, right |-> left + width, bottom |-> top + height]

WorkArea == RectAt(0, 0, Width, Height)

NotPlaced == RectAt(0, 0, 0, 0)

Coordinates == -MaxSize .. Max({Width, Height}) + MaxSize

PlacementTypeOK ==
  /\ DOMAIN item = DOMAIN WorkArea /\ DOMAIN placed = DOMAIN WorkArea
  /\ size \in [width: 1..MaxSize, height: 1..MaxSize] /\ gap \in Gaps

PlacementInit ==
  /\ item \in {RectAt(x, y, w, h) : x \in Coordinates, y \in Coordinates,
                                   w \in 1..MaxSize, h \in 1..MaxSize}
  /\ size \in [width: 1..MaxSize, height: 1..MaxSize]
  /\ gap \in Gaps
  /\ placed = NotPlaced

-----------------------------------------------------------------------------
\* Right, left, below, above.
Candidates ==
  <<RectAt(item.right + gap, item.top, size.width, size.height),
    RectAt(item.left - (size.width + gap), item.top, size.width, size.height),
    RectAt(item.left, item.bottom + gap, size.width, size.height),
    RectAt(item.left, item.top - (size.height + gap), size.width, size.height)>>

\* rect_inside
Inside(r) ==
  r.left >= 0 /\ r.top >= 0 /\ r.right <= Width /\ r.bottom <= Height

\* rects_intersect
Covers(r, s) ==
  r.left < s.right /\ r.right > s.left /\ r.top < s.bottom /\ r.bottom > s.top

\* rect_overflow_area
Overflow(r) ==
  (r.right - r.left) * (r.bottom - r.top)
    - Max({Min({r.right, Width}) - Max({r.left, 0}), 0})
        * Max({Min({r.bottom, Height}) - Max({r.top, 0}), 0})

Preferring(P(_), S) == IF \E d \in S : P(d) THEN {d \in S : P(d)} ELSE S

\* The first that is inside, does not cover the item, and overflows least.
Best ==
  LET inside == Preferring(LAMBDA d : Inside(Candidates[d]), 1..4)
      beside == Preferring(LAMBDA d : ~Covers(Candidates[d], item), inside)
      least  == Min({Overflow(Candidates[d]) : d \in beside})
  IN  Min({d \in beside : Overflow(Candidates[d]) = least})

\* Defective variant: the corner is kept in the work area, not the whole hint.
ClampedCorner(value, upper, length) == Max({0, Min({value, upper})})

\* clamp_to_work_area
Clamped(value, upper, length) == Max({0, Min({value, Max({upper - length, 0})})})

Place ==
  /\ placed = NotPlaced
  /\ placed' = RectAt(Clamped(Candidates[Best].left, Width, size.width),
                      Clamped(Candidates[Best].top, Height, size.height),
                      size.width, size.height)
  /\ UNCHANGED <<item, size, gap>>

-----------------------------------------------------------------------------
\* Properties.

\* A hint that is no larger than the work area is shown inside it, wherever the menu is,
\* also on a screen that the menu has only a corner on.
HintIsOnScreen ==
  (placed # NotPlaced /\ size.width <= Width /\ size.height <= Height) => Inside(placed)

\* The hint does not cover the item it explains when there is a side on which it need not.
HintIsBeside ==
  (placed # NotPlaced /\ \E d \in 1..4 : Inside(Candidates[d])) => ~Covers(placed, item)

\* Both: where the screen has room, a hint is whole and does not hide what it explains.
HintIsPlacedWell == HintIsOnScreen /\ HintIsBeside
================================================================================
