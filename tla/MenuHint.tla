-------------------------------- MODULE MenuHint --------------------------------
(***************************************************************************)
(* The hint that explains the menu item under the cursor (MenuHintTooltip  *)
(* in src/src/windows_tray_theme.rs).  Everything happens on one thread,   *)
(* but through its message queue: the menu tells of a selection at once,   *)
(* the tooltip follows by posted messages and a timer.  A message carries  *)
(* the generation it was posted in and counts only if that is the current  *)
(* one; here each message says whether it still is.  The queue takes every *)
(* message, and a timer message that is under way survives KillTimer.      *)
(***************************************************************************)
EXTENDS Sequences

VARIABLES
  popup,       \* the menu is open
  selected,    \* the item under the cursor, "none"
  enabled,     \* hints are enabled in the menu that is shown
  pending,     \* the item whose hint is to be shown, or "none"
  queue,       \* posted messages
  timer,       \* the timer is running, and a message of it is under way
  registered,  \* the tooltip control has accepted the tool
  shown        \* the item whose hint is on the screen, or "none"

hintVars == <<popup, selected, enabled, pending, queue, timer, registered, shown>>

Explained == {"zen", "mode"}                     \* TrayHelpKey
MenuItems == Explained \cup {"status"}

NoTimer == [running |-> FALSE, underWay |-> FALSE]

HintTypeOK ==
  /\ {popup, enabled, registered} \subseteq BOOLEAN
  /\ selected \in MenuItems \cup {"none"} /\ {pending, shown} \subseteq Explained \cup {"none"}
  /\ queue \in Seq([kind: {"init", "selection", "dismiss"}, current: BOOLEAN])
  /\ timer \in [running: BOOLEAN, underWay: BOOLEAN]

\* MenuHintTooltip::new
HintInit ==
  /\ popup = FALSE /\ selected = "none" /\ enabled \in BOOLEAN /\ pending = "none"
  /\ queue = <<[kind |-> "init", current |-> TRUE]>>
  /\ timer = NoTimer /\ registered = FALSE /\ shown = "none"

-----------------------------------------------------------------------------
\* A new generation, and a message of it.
Posted(kind) ==
  Append([i \in DOMAIN queue |-> [queue[i] EXCEPT !.current = FALSE]],
         [kind |-> kind, current |-> TRUE])

\* Defective variant: what was to be shown is left to the message to cancel.
PendingKept == pending

PendingDropped == "none"

\* queue_dismiss
Dismissed ==
  /\ pending' = PendingDropped
  /\ queue' = Posted("dismiss")

OpenMenu ==
  /\ ~popup
  /\ popup' = TRUE /\ selected' = "none"
  /\ UNCHANGED <<enabled, pending, queue, timer, registered, shown>>

\* localized_menu_hint
HintOf(i) == IF enabled /\ i \in Explained THEN i ELSE "none"

\* WM_MENUSELECT; select, with the hint the item has.
Select ==
  /\ popup
  /\ selected' \in MenuItems
  /\ pending' = HintOf(selected')
  /\ queue' = Posted("selection")
  /\ UNCHANGED <<popup, enabled, timer, registered, shown>>

\* WM_UNINITMENUPOPUP of a submenu, while the menu itself stays open.
CloseSubmenu ==
  /\ popup
  /\ Dismissed
  /\ UNCHANGED <<popup, selected, enabled, timer, registered, shown>>

\* WM_MENUSELECT of a menu that closes, WM_UNINITMENUPOPUP.
CloseMenu ==
  /\ popup
  /\ popup' = FALSE /\ selected' = "none"
  /\ Dismissed
  /\ UNCHANGED <<enabled, timer, registered, shown>>

\* NativeTrayBackend::apply: the menu is replaced by one that may show no hints.
Rebuilt(hints) ==
  /\ Dismissed
  /\ enabled' = hints
  /\ UNCHANGED <<popup, selected, timer, registered, shown>>

-----------------------------------------------------------------------------
\* handle_host_message

\* deactivate_on_host
Deactivated == shown' = "none" /\ timer' = [timer EXCEPT !.running = FALSE]

\* add_tool_with_cb_size: the control takes the tool in one of the sizes it may be
\* declared in, or in none.
Registered == BOOLEAN

InitTooltip ==
  /\ queue # <<>> /\ Head(queue).kind = "init"
  /\ queue' = Tail(queue)
  /\ registered' \in Registered
  /\ UNCHANGED <<popup, selected, enabled, pending, timer, shown>>

OldMessage ==
  /\ queue # <<>> /\ Head(queue).kind # "init" /\ ~Head(queue).current
  /\ queue' = Tail(queue)
  /\ UNCHANGED <<popup, selected, enabled, pending, timer, registered, shown>>

SelectionChanged ==
  /\ queue # <<>> /\ Head(queue) = [kind |-> "selection", current |-> TRUE]
  /\ queue' = Tail(queue)
  /\ shown' = "none"
  /\ \E starts \in BOOLEAN :
       /\ starts => pending # "none" /\ enabled /\ registered
       /\ timer' = [timer EXCEPT !.running = starts]
  /\ UNCHANGED <<popup, selected, enabled, pending, registered>>

Dismiss ==
  /\ queue # <<>> /\ Head(queue) = [kind |-> "dismiss", current |-> TRUE]
  /\ queue' = Tail(queue)
  /\ Deactivated
  /\ UNCHANGED <<popup, selected, enabled, pending, registered>>

TimerIsDue ==
  /\ timer.running /\ ~timer.underWay
  /\ timer' = [timer EXCEPT !.underWay = TRUE]
  /\ UNCHANGED <<popup, selected, enabled, pending, queue, registered, shown>>

\* NativeTooltipBackend::show: the control may fail, and a hint on the screen stays.
Showing(hint) == {hint, shown}

\* show_pending_on_host
ShowPending ==
  /\ timer.underWay
  /\ timer' = NoTimer
  /\ IF pending = "none" THEN UNCHANGED <<pending, shown>>
     ELSE /\ pending' = "none"
          /\ shown' \in IF registered THEN Showing(pending) ELSE {shown}
  /\ UNCHANGED <<popup, selected, enabled, queue, registered>>

HostMessage == InitTooltip \/ OldMessage \/ SelectionChanged \/ Dismiss \/ ShowPending

\* dispose
HintDisposed ==
  /\ pending' = "none" /\ shown' = "none" /\ queue' = <<>> /\ timer' = NoTimer
  /\ popup' = FALSE /\ selected' = "none" /\ registered' = FALSE
  /\ UNCHANGED enabled

-----------------------------------------------------------------------------
\* Properties.

\* With every message handled, a hint on the screen explains the item under the cursor of
\* a menu that is open and has hints enabled: none stays behind after the cursor moved on,
\* the menu closed, or hints were switched off, however late messages and timer came.
HintIsCurrent ==
  (queue = <<>> /\ shown # "none") => popup /\ shown = selected /\ enabled
================================================================================
