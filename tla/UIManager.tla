------------------------------ MODULE UIManager ------------------------------
(***************************************************************************)
(* Common/UISystem/UIManager.cs: which windows are stacked, which is on top  *)
(* and which are shown. A window is its name. PrepareData, Open and Close    *)
(* of a context or a view are code of the window, which may call the manager *)
(* again before the call that called it goes on.                           *)
(***************************************************************************)
EXTENDS Naturals, Sequences, SequencesExt

CONSTANTS
  Normal,      \* the windows of WndType.NORMAL
  Popup,       \* .. and those of POPUP and MESSAGEBOX
  Viewless,    \* .. of which these have no prefab, or one without a view
  Data,        \* what a window is opened with
  None,        \* no window, no data
  MaxStack,    \* bound on the stack
  MaxNested    \* bound on the calls inside one another

ASSUME WindowsAssumption ==
  /\ Normal \cap Popup = {} /\ Viewless \subseteq Normal \cup Popup
  /\ None \notin Normal \cup Popup \cup Data
ASSUME WindowBounds == MaxStack \in Nat /\ MaxNested \in Nat

Windows == Normal \cup Popup

VARIABLES
  stackOfWnds,   \* the normal windows, the topmost last, each with the data of its Open
  dicWnds,       \* the windows made so far
  topWnd,        \* the topmost window
  active,        \* the windows whose game object is active
  prepared,      \* for every window, the data in its context
  running,       \* the calls that wait for code of a window, innermost last
  disturbed,     \* code of a window has called the manager, or has thrown
  reopened,      \* the normal windows opened while they were in the stack
  released       \* the singletons have been released

vars ==
  <<stackOfWnds, dicWnds, topWnd, active, prepared, running, disturbed, reopened, released>>

Init ==
  /\ stackOfWnds = <<>> /\ dicWnds = {} /\ topWnd = None /\ active = {}
  /\ prepared = [w \in Windows |-> None]
  /\ running = <<>> /\ disturbed = FALSE /\ reopened = {}
  /\ released = FALSE

Called ==
  /\ ~released /\ Len(running) < MaxNested
  /\ disturbed' = (disturbed \/ running # <<>>)

\* Mutant: the window that was on top stays.
HiddenNone == active

\* if(topWnd != null) topWnd.view.gameObject.SetActive(false)
Hidden == active \ {topWnd}

-----------------------------------------------------------------------------
\* Open of the window on top: its transform becomes the last sibling.
OpenTop(w) ==
  /\ Called
  /\ w = topWnd
  /\ UNCHANGED <<stackOfWnds, dicWnds, topWnd, active, prepared, running, reopened, released>>

Stacked(w) == \E k \in DOMAIN stackOfWnds : stackOfWnds[k].wnd = w

\* Mutant: the windows of a type have one context.
PreparedForAll(w, data) ==
  [v \in Windows |-> IF v \in Normal <=> w \in Normal THEN data ELSE prepared[v]]

\* wnd.context.PrepareData
PreparedFor(w, data) == [prepared EXCEPT ![w] = data]

\* Open up to wnd.view.Open, which is code of the window.
OpenBegins(w, data) ==
  /\ Called
  /\ w # topWnd /\ w \notin Viewless /\ Len(stackOfWnds) < MaxStack
  /\ dicWnds' = dicWnds \cup {w}
  /\ active' = Hidden
  /\ prepared' = PreparedFor(w, data)
  /\ reopened' = IF Stacked(w) THEN reopened \cup {w} ELSE reopened
  /\ running' = Append(running, [call |-> "Open", wnd |-> w, data |-> data])
  /\ UNCHANGED <<stackOfWnds, topWnd, released>>

\* A window without a view is kept all the same. Its first Open throws at
\* wnd.view.Open, when the top window is hidden already; later ones throw at
\* wnd.view.transform. An exception ends the calls it passes through.
OpenThrows(w, data) ==
  /\ ~released /\ Len(running) < MaxNested /\ disturbed' = TRUE
  /\ w \in Viewless
  /\ dicWnds' = dicWnds \cup {w}
  /\ IF w \in dicWnds THEN UNCHANGED <<active, prepared>>
     ELSE active' = Hidden /\ prepared' = PreparedFor(w, data)
  /\ running' = <<>>
  /\ UNCHANGED <<stackOfWnds, topWnd, reopened, released>>

\* So does any exception of a window's own code.
CodeThrows ==
  /\ running # <<>>
  /\ running' = <<>> /\ disturbed' = TRUE
  /\ UNCHANGED <<stackOfWnds, dicWnds, topWnd, active, prepared, reopened, released>>

Innermost(call) == running # <<>> /\ Last(running).call = call

\* Mutant: a popup is stacked as well.
PushedAll(w, data) == Append(stackOfWnds, [wnd |-> w, data |-> data])

Pushed(w, data) ==
  IF w \in Normal THEN Append(stackOfWnds, [wnd |-> w, data |-> data]) ELSE stackOfWnds

OpenEnds ==
  /\ Innermost("Open")
  /\ LET w == Last(running).wnd
     IN /\ active' = active \cup {w}
        /\ stackOfWnds' = Pushed(w, Last(running).data)
        /\ topWnd' = w
  /\ running' = Front(running)
  /\ UNCHANGED <<dicWnds, prepared, disturbed, reopened, released>>

-----------------------------------------------------------------------------
\* Mutant: the last window may be closed.
AnotherBelowOrNone == Len(stackOfWnds) >= 1

AnotherBelow == Len(stackOfWnds) > 1

\* CloseTop up to view.Close. The last normal window is not closed.
CloseNormal ==
  /\ Called
  /\ topWnd \in Normal /\ AnotherBelow /\ Last(stackOfWnds).wnd = topWnd
  /\ stackOfWnds' = Front(stackOfWnds)
  /\ active' = active \ {topWnd}
  /\ running' = Append(running, [call |-> "CloseNormal", wnd |-> topWnd, data |-> None])
  /\ UNCHANGED <<dicWnds, topWnd, prepared, reopened, released>>

\* .. and after it: the fields are read again.
CloseNormalEnds ==
  /\ Innermost("CloseNormal")
  /\ topWnd' = Last(stackOfWnds).wnd
  /\ active' = active \cup {topWnd'}
  /\ running' = Front(running)
  /\ UNCHANGED <<stackOfWnds, dicWnds, prepared, disturbed, reopened, released>>

ClosePopup ==
  /\ Called
  /\ topWnd \in Popup /\ Len(stackOfWnds) >= 1
  /\ running' = Append(running, [call |-> "ClosePopup", wnd |-> topWnd, data |-> None])
  /\ UNCHANGED <<stackOfWnds, dicWnds, topWnd, active, prepared, reopened, released>>

\* The popup stays the top window.
ClosePopupEnds ==
  /\ Innermost("ClosePopup")
  /\ active' = Hidden
  /\ running' = Front(running)
  /\ UNCHANGED <<stackOfWnds, dicWnds, topWnd, prepared, disturbed, reopened, released>>

\* OnApplicationQuit, between the calls: topWnd and what is shown stay.
Release ==
  /\ ~released /\ running = <<>>
  /\ released' = TRUE
  /\ stackOfWnds' = <<>> /\ dicWnds' = {}
  /\ UNCHANGED <<topWnd, active, prepared, running, disturbed, reopened>>

-----------------------------------------------------------------------------
Next ==
  \/ \E w \in Windows :
       \/ OpenTop(w)
       \/ \E data \in Data : OpenBegins(w, data) \/ OpenThrows(w, data)
  \/ OpenEnds \/ CodeThrows
  \/ CloseNormal \/ CloseNormalEnds \/ ClosePopup \/ ClosePopupEnds
  \/ Release

Spec == Init /\ [][Next]_vars

-----------------------------------------------------------------------------
StackEntry == [wnd : Normal \ Viewless, data : Data]
Call == [call : {"Open", "CloseNormal", "ClosePopup"},
         wnd : Windows \ Viewless, data : Data \cup {None}]

(* What the manager keeps are windows: a window without a view is never on    *)
(* top, shown or stacked, though dicWnds holds it, and popups are not stacked. *)
TypeOK ==
  /\ dicWnds \subseteq Windows
  /\ stackOfWnds \in Seq(StackEntry)
  /\ topWnd \in (Windows \ Viewless) \cup {None}
  /\ active \subseteq Windows \ Viewless
  /\ prepared \in [Windows -> Data \cup {None}]
  /\ running \in Seq(Call)
  /\ disturbed \in BOOLEAN /\ released \in BOOLEAN /\ reopened \subseteq Normal

AtRest == running = <<>> /\ ~disturbed /\ ~released

(* Normal windows open and close like a stack, one popup over them: between   *)
(* calls no window but the top one is shown, a normal window on top is shown  *)
(* and tops the stack, and the screen is blank only when a popup has been     *)
(* closed. (Not so when the code of a window opens another before it is shown *)
(* itself, or throws.)                                                       *)
ScreenShowsTheTop ==
  AtRest =>
    /\ active \subseteq {topWnd}
    /\ topWnd \in Normal => topWnd \in active /\ stackOfWnds # <<>> /\ Last(stackOfWnds).wnd = topWnd
    /\ active = {} => topWnd \in Popup \cup {None}

(* Closing windows leads back to the one below with the data it was opened    *)
(* with, popups in between or not, unless it has been opened once more: it    *)
(* then shows what the later Open has left in its context.                   *)
BackWithItsData ==
  AtRest /\ topWnd \in Normal \ reopened => prepared[topWnd] = Last(stackOfWnds).data

(* Whatever the code of a window does while CloseTop calls it, closing and    *)
(* opening windows included, the Peek after it finds a window in the stack.    *)
PeekFindsAWindow ==
  \A k \in DOMAIN running : running[k].call = "CloseNormal" => stackOfWnds # <<>>

=============================================================================
