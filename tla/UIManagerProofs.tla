--------------------------- MODULE UIManagerProofs ---------------------------
(***************************************************************************)
(* For any windows and data, any depth of calls inside one another and any   *)
(* size of the stack: what the screen shows and what windows come back with, *)
(* and that CloseTop finds a window to go back to.                          *)
(***************************************************************************)
EXTENDS UIManager, SequenceTheorems, TLAPS

\* The calls that wait: an Open has data, a CloseTop has left a window below.
CallsWait ==
  /\ \A k \in 1..Len(running) : running[k].call = "Open" => running[k].data \in Data
  /\ PeekFindsAWindow
  /\ released => running = <<>>

Quiet == ~disturbed /\ ~released

\* The stack keeps what its windows were opened with ..
StackIsPrepared ==
  Quiet =>
    \A k \in 1..Len(stackOfWnds) :
      stackOfWnds[k].wnd \notin reopened => prepared[stackOfWnds[k].wnd] = stackOfWnds[k].data

\* .. and in the middle of the only call nothing but a popup to close is shown.
OneCall ==
  Quiet =>
    /\ Len(running) <= 1
    /\ running # <<>> =>
         /\ running[1].call \in {"Open", "CloseNormal"} => active = {}
         /\ running[1].call = "Open" =>
              /\ prepared[running[1].wnd] = running[1].data
              /\ Stacked(running[1].wnd) => running[1].wnd \in reopened
         /\ running[1].call = "ClosePopup" => topWnd \in Popup /\ active \subseteq {topWnd}

Inv == TypeOK /\ CallsWait /\ StackIsPrepared /\ OneCall /\ ScreenShowsTheTop

-----------------------------------------------------------------------------
(* What Front and Last take from a list that is not empty.                    *)
LEMMA FrontLast ==
  ASSUME NEW S, NEW s \in Seq(S), s # <<>>
  PROVE  /\ Front(s) \in Seq(S) /\ Len(Front(s)) = Len(s) - 1
         /\ \A k \in 1..(Len(s) - 1) : Front(s)[k] = s[k]
         /\ Last(s) \in S /\ Last(s) = s[Len(s)] /\ Len(s) \in Nat \ {0}
<1>1. Len(s) \in Nat \ {0}
  BY EmptySeq, LenProperties
<1>2. s \in [1..Len(s) -> S]
  BY LenProperties
<1> QED
  BY <1>1, <1>2, SubSeqProperties DEF Front, Last

LEMMA InitInv == Init => Inv
<1> SUFFICES ASSUME Init PROVE Inv
  OBVIOUS
<1>1. TypeOK
  <2>1. stackOfWnds \in Seq(StackEntry) /\ running \in Seq(Call)
    BY EmptySeq DEF Init
  <2> QED
    BY <2>1, WindowsAssumption DEF Init, TypeOK, Windows
<1>2. CallsWait /\ StackIsPrepared /\ OneCall /\ ScreenShowsTheTop
  BY WindowsAssumption DEF Init, CallsWait, PeekFindsAWindow, StackIsPrepared, OneCall,
     ScreenShowsTheTop, AtRest, Windows
<1> QED
  BY <1>1, <1>2 DEF Inv

LEMMA StepInv == Inv /\ [Next]_vars => Inv'
<1> SUFFICES ASSUME Inv, [Next]_vars PROVE Inv'
  OBVIOUS
<1> USE WindowsAssumption
<1>0. /\ stackOfWnds \in Seq(StackEntry) /\ Len(stackOfWnds) \in Nat
      /\ running \in Seq(Call) /\ Len(running) \in Nat
      /\ DOMAIN running = 1..Len(running) /\ DOMAIN stackOfWnds = 1..Len(stackOfWnds)
      /\ \A k \in 1..Len(running) : running[k] \in Call
      /\ \A k \in 1..Len(stackOfWnds) : stackOfWnds[k] \in StackEntry
  <2>1. stackOfWnds \in Seq(StackEntry) /\ running \in Seq(Call)
    BY DEF Inv, TypeOK
  <2> QED
    BY <2>1, LenProperties, ElementOfSeq
<1>a. (running = <<>> <=> Len(running) = 0) /\ (stackOfWnds = <<>> <=> Len(stackOfWnds) = 0)
  BY <1>0, EmptySeq
<1>1. CASE UNCHANGED vars
  BY <1>1 DEF Inv, vars, TypeOK, CallsWait, PeekFindsAWindow, StackIsPrepared, OneCall, Quiet,
     Stacked, ScreenShowsTheTop, AtRest
<1>2. ASSUME NEW w \in Windows, OpenTop(w) PROVE Inv'
  BY <1>2, <1>0, <1>a DEF Inv, OpenTop, Called, TypeOK, CallsWait, PeekFindsAWindow,
     StackIsPrepared, OneCall, Quiet, Stacked, ScreenShowsTheTop, AtRest
<1>3. ASSUME NEW w \in Windows, NEW data \in Data, OpenBegins(w, data) PROVE Inv'
  <2> DEFINE c == [call |-> "Open", wnd |-> w, data |-> data]
  <2>1. c \in Call /\ running' = Append(running, c) /\ w \notin Viewless
    BY <1>3 DEF OpenBegins, Call
  <2>2. /\ running' \in Seq(Call) /\ Len(running') = Len(running) + 1
        /\ \A k \in 1..Len(running) : running'[k] = running[k]
        /\ running'[Len(running) + 1] = c
        /\ DOMAIN running' = 1..(Len(running) + 1)
    BY <2>1, <1>0, AppendProperties, LenProperties
  <2>3. TypeOK'
    <3>1. /\ dicWnds' = dicWnds \cup {w} /\ active' \subseteq active
          /\ prepared' = [prepared EXCEPT ![w] = data]
          /\ reopened' \in {reopened, reopened \cup {w}} /\ (reopened' # reopened => Stacked(w))
          /\ disturbed' = (disturbed \/ running # <<>>)
          /\ UNCHANGED <<stackOfWnds, topWnd, released>>
      BY <1>3 DEF OpenBegins, Called, Hidden, PreparedFor
    <3>2. Stacked(w) => w \in Normal
      BY <1>0 DEF Stacked, StackEntry
    <3>3. prepared' \in [Windows -> Data \cup {None}]
      BY <3>1 DEF Inv, TypeOK
    <3>4. disturbed' \in BOOLEAN
      BY <3>1
    <3> QED
      BY <3>1, <3>2, <3>3, <3>4, <2>2 DEF Inv, TypeOK
  <2>4. CallsWait'
    BY <1>3, <1>0, <1>a, <2>2 DEF Inv, OpenBegins, Called, CallsWait, PeekFindsAWindow
  <2>5. StackIsPrepared'
    <3> SUFFICES ASSUME Quiet', NEW k \in 1..Len(stackOfWnds'), stackOfWnds'[k].wnd \notin reopened'
                 PROVE  prepared'[stackOfWnds'[k].wnd] = stackOfWnds'[k].data
      BY DEF StackIsPrepared
    <3>1. Quiet /\ stackOfWnds' = stackOfWnds /\ stackOfWnds[k].wnd \notin reopened
      BY <1>3 DEF Quiet, OpenBegins, Called
    <3>2. stackOfWnds[k].wnd # w
      BY <1>3, <1>0, <3>1 DEF OpenBegins, Stacked
    <3> QED
      BY <1>3, <1>0, <3>1, <3>2 DEF Inv, StackIsPrepared, OpenBegins, PreparedFor, TypeOK, StackEntry, Windows
  <2>6. OneCall'
    <3> SUFFICES ASSUME Quiet' PROVE OneCall'
      BY DEF OneCall
    <3>1. Quiet /\ running = <<>>
      BY <1>3 DEF Quiet, OpenBegins, Called
    <3>2. active \subseteq {topWnd}
      BY <3>1 DEF Inv, ScreenShowsTheTop, AtRest, Quiet
    <3>3. active' = {}
      BY <1>3, <3>2 DEF OpenBegins, Hidden
    <3>4. running'[1] = c /\ Len(running') = 1
      BY <2>2, <3>1, <1>a
    <3>5. prepared'[w] = data /\ (Stacked(w)' => w \in reopened')
      BY <1>3 DEF Inv, TypeOK, OpenBegins, PreparedFor, Stacked, Windows
    <3> QED
      BY <3>3, <3>4, <3>5 DEF OneCall, Stacked
  <2>7. ScreenShowsTheTop'
    BY <2>2, <1>0, EmptySeq DEF ScreenShowsTheTop, AtRest
  <2> QED
    BY <2>3, <2>4, <2>5, <2>6, <2>7 DEF Inv
<1>4. ASSUME NEW w \in Windows, NEW data \in Data, OpenThrows(w, data) PROVE Inv'
  BY <1>4, <1>0, <1>a DEF Inv, OpenThrows, TypeOK, CallsWait, PeekFindsAWindow, Hidden, PreparedFor,
     StackIsPrepared, OneCall, Quiet, ScreenShowsTheTop, AtRest, Windows
<1>5. CASE CodeThrows
  BY <1>5, <1>0, <1>a DEF Inv, CodeThrows, TypeOK, CallsWait, PeekFindsAWindow,
     StackIsPrepared, OneCall, Quiet, ScreenShowsTheTop, AtRest
<1>b. running # <<>> =>
        /\ Front(running) \in Seq(Call) /\ Len(Front(running)) = Len(running) - 1
        /\ \A k \in 1..(Len(running) - 1) : Front(running)[k] = running[k]
        /\ DOMAIN Front(running) = 1..(Len(running) - 1)
        /\ Last(running) \in Call /\ Last(running) = running[Len(running)]
  <2> SUFFICES ASSUME running # <<>>
               PROVE  /\ Front(running) \in Seq(Call) /\ Len(Front(running)) = Len(running) - 1
                      /\ \A k \in 1..(Len(running) - 1) : Front(running)[k] = running[k]
                      /\ DOMAIN Front(running) = 1..(Len(running) - 1)
                      /\ Last(running) \in Call /\ Last(running) = running[Len(running)]
    OBVIOUS
  <2>1. /\ Front(running) \in Seq(Call) /\ Len(Front(running)) = Len(running) - 1
        /\ \A k \in 1..(Len(running) - 1) : Front(running)[k] = running[k]
        /\ Last(running) \in Call /\ Last(running) = running[Len(running)]
    BY <1>0, FrontLast
  <2>2. DOMAIN Front(running) = 1..Len(Front(running))
    BY <2>1, LenProperties
  <2> QED
    BY <2>1, <2>2
<1>c. stackOfWnds # <<>> =>
        /\ Front(stackOfWnds) \in Seq(StackEntry) /\ Len(Front(stackOfWnds)) = Len(stackOfWnds) - 1
        /\ \A k \in 1..(Len(stackOfWnds) - 1) : Front(stackOfWnds)[k] = stackOfWnds[k]
        /\ Last(stackOfWnds) \in StackEntry /\ Last(stackOfWnds) = stackOfWnds[Len(stackOfWnds)]
  BY <1>0, FrontLast
<1>6. CASE OpenEnds
  <2> DEFINE w == Last(running).wnd
             data == Last(running).data
  <2>1. /\ running # <<>> /\ Last(running).call = "Open" /\ w \in Windows \ Viewless
        /\ data \in Data
    BY <1>6, <1>0, <1>a, <1>b DEF Inv, OpenEnds, Innermost, CallsWait, Call
  <2>2. /\ active' = active \cup {w} /\ topWnd' = w /\ running' = Front(running)
        /\ stackOfWnds' = Pushed(w, data)
        /\ UNCHANGED <<dicWnds, prepared, disturbed, reopened, released>>
    BY <1>6 DEF OpenEnds
  <2>3. CASE w \in Normal
    <3>1. [wnd |-> w, data |-> data] \in StackEntry /\ stackOfWnds' = Append(stackOfWnds, [wnd |-> w, data |-> data])
      BY <2>1, <2>2, <2>3 DEF StackEntry, Pushed
    <3>2. /\ stackOfWnds' \in Seq(StackEntry) /\ Len(stackOfWnds') = Len(stackOfWnds) + 1
          /\ \A k \in 1..Len(stackOfWnds) : stackOfWnds'[k] = stackOfWnds[k]
          /\ stackOfWnds'[Len(stackOfWnds) + 1] = [wnd |-> w, data |-> data]
          /\ stackOfWnds' # <<>>
          /\ Last(stackOfWnds') = [wnd |-> w, data |-> data]
      <4>1. /\ stackOfWnds' \in Seq(StackEntry) /\ Len(stackOfWnds') = Len(stackOfWnds) + 1
            /\ \A k \in 1..Len(stackOfWnds) : stackOfWnds'[k] = stackOfWnds[k]
            /\ stackOfWnds'[Len(stackOfWnds) + 1] = [wnd |-> w, data |-> data]
        BY <3>1, <1>0, AppendProperties
      <4> QED
        BY <4>1, <1>0, EmptySeq DEF Last
    <3>3. TypeOK'
      BY <2>1, <2>2, <3>2, <1>b DEF Inv, TypeOK, Call, StackEntry
    <3>4. CallsWait'
      BY <2>1, <2>2, <3>2, <1>0, <1>b, <1>a DEF Inv, CallsWait, PeekFindsAWindow
    <3>5. StackIsPrepared' /\ OneCall' /\ ScreenShowsTheTop'
      <4> SUFFICES ASSUME Quiet' PROVE StackIsPrepared' /\ OneCall' /\ ScreenShowsTheTop'
        BY DEF StackIsPrepared, OneCall, ScreenShowsTheTop, AtRest, Quiet
      <4>1. Quiet /\ Len(running) = 1 /\ running' = <<>> /\ Last(running) = running[1]
        BY <2>1, <2>2, <1>0, <1>a, <1>b, EmptySeq DEF Inv, OneCall, Quiet
      <4>2. active' = {w} /\ prepared[w] = data
        BY <2>1, <2>2, <4>1, <1>0 DEF Inv, OneCall
      <4>3. StackIsPrepared'
        BY <2>2, <3>2, <4>1, <4>2, <1>0 DEF Inv, StackIsPrepared
      <4> QED
        BY <2>2, <3>2, <4>1, <4>2, <4>3, EmptySeq DEF OneCall, ScreenShowsTheTop
    <3> QED
      BY <3>3, <3>4, <3>5 DEF Inv
  <2>4. CASE w \notin Normal
    <3>1. stackOfWnds' = stackOfWnds /\ w \in Popup
      BY <2>1, <2>2, <2>4 DEF Pushed, Windows
    <3>3. TypeOK'
      BY <2>1, <2>2, <3>1, <1>b DEF Inv, TypeOK, Call, StackEntry
    <3>4. CallsWait'
      BY <2>1, <2>2, <3>1, <1>0, <1>b, <1>a, SMTT(30) DEF Inv, CallsWait, PeekFindsAWindow
    <3>5. StackIsPrepared' /\ OneCall' /\ ScreenShowsTheTop'
      <4> SUFFICES ASSUME Quiet' PROVE StackIsPrepared' /\ OneCall' /\ ScreenShowsTheTop'
        BY DEF StackIsPrepared, OneCall, ScreenShowsTheTop, AtRest, Quiet
      <4>1. Quiet /\ Len(running) = 1 /\ running' = <<>> /\ Last(running) = running[1]
        BY <2>1, <2>2, <1>0, <1>a, <1>b, EmptySeq DEF Inv, OneCall, Quiet
      <4>2. active' = {w}
        BY <2>1, <2>2, <4>1, <1>0 DEF Inv, OneCall
      <4>3. StackIsPrepared'
        BY <2>2, <3>1, <4>1 DEF Inv, StackIsPrepared
      <4> QED
        BY <2>2, <3>1, <4>1, <4>2, <4>3, EmptySeq DEF OneCall, ScreenShowsTheTop
    <3> QED
      BY <3>3, <3>4, <3>5 DEF Inv
  <2> QED
    BY <2>3, <2>4
<1>7. CASE CloseNormal
  <2> DEFINE c == [call |-> "CloseNormal", wnd |-> topWnd, data |-> None]
  <2>1. /\ stackOfWnds # <<>> /\ Len(stackOfWnds) > 1 /\ c \in Call
        /\ topWnd \in Normal
    BY <1>7, <1>0, <1>a DEF Inv, TypeOK, CloseNormal, AnotherBelow, Call, Windows
  <2>2. /\ running' \in Seq(Call) /\ Len(running') = Len(running) + 1
        /\ \A k \in 1..Len(running) : running'[k] = running[k]
        /\ running'[Len(running) + 1] = c
        /\ DOMAIN running' = 1..(Len(running) + 1)
    BY <1>7, <2>1, <1>0, AppendProperties, LenProperties DEF CloseNormal
  <2>3. stackOfWnds' # <<>> /\ stackOfWnds' \in Seq(StackEntry) /\ Len(stackOfWnds') = Len(stackOfWnds) - 1
    <3>1. stackOfWnds' = Front(stackOfWnds) /\ Len(stackOfWnds') = Len(stackOfWnds) - 1
          /\ stackOfWnds' \in Seq(StackEntry)
      BY <1>7, <2>1, <1>c DEF CloseNormal
    <3>2. Len(stackOfWnds') # 0
      BY <3>1, <2>1, <1>0
    <3> QED
      BY <3>1, <3>2, EmptySeq
  <2>4. TypeOK'
    BY <1>7, <2>2, <2>3 DEF Inv, TypeOK, CloseNormal, Called, Call, StackEntry
  <2>5. CallsWait'
    BY <1>7, <1>0, <1>a, <2>2, <2>3 DEF Inv, CloseNormal, Called, CallsWait, PeekFindsAWindow
  <2>6. StackIsPrepared'
    <3> SUFFICES ASSUME Quiet', NEW k \in 1..Len(stackOfWnds'), stackOfWnds'[k].wnd \notin reopened'
                 PROVE  prepared'[stackOfWnds'[k].wnd] = stackOfWnds'[k].data
      BY DEF StackIsPrepared
    <3>1. Quiet /\ UNCHANGED <<prepared, reopened>> /\ stackOfWnds' = Front(stackOfWnds)
      BY <1>7 DEF Quiet, CloseNormal, Called
    <3>2. k \in 1..(Len(stackOfWnds) - 1) /\ k \in 1..Len(stackOfWnds)
      BY <2>3, <1>0
    <3>3. stackOfWnds'[k] = stackOfWnds[k]
      BY <3>1, <3>2, <2>1, <1>c
    <3> QED
      BY <3>1, <3>2, <3>3 DEF Inv, StackIsPrepared
  <2>7. OneCall'
    <3> SUFFICES ASSUME Quiet' PROVE OneCall'
      BY DEF OneCall
    <3>1. Quiet /\ running = <<>>
      BY <1>7 DEF Quiet, CloseNormal, Called
    <3>2. active' = {}
      BY <1>7, <3>1 DEF Inv, ScreenShowsTheTop, AtRest, Quiet, CloseNormal
    <3>3. running'[1] = c /\ Len(running') = 1
      BY <2>2, <3>1, <1>a
    <3> QED
      BY <3>2, <3>3 DEF OneCall
  <2>8. ScreenShowsTheTop'
    BY <2>2, <1>0, EmptySeq DEF ScreenShowsTheTop, AtRest
  <2> QED
    BY <2>4, <2>5, <2>6, <2>7, <2>8 DEF Inv
<1>8. CASE CloseNormalEnds
  <2>1. /\ running # <<>> /\ Last(running).call = "CloseNormal" /\ running' = Front(running)
        /\ topWnd' = Last(stackOfWnds).wnd /\ active' = active \cup {topWnd'}
        /\ UNCHANGED <<stackOfWnds, dicWnds, prepared, disturbed, reopened, released>>
    BY <1>8 DEF CloseNormalEnds, Innermost
  <2>2. stackOfWnds # <<>>
    BY <2>1, <1>0, <1>a, <1>b DEF Inv, CallsWait, PeekFindsAWindow
  <2>3. Last(stackOfWnds) \in StackEntry
    BY <2>2, <1>c
  <2>4. TypeOK'
    BY <2>1, <2>3, <1>b DEF Inv, TypeOK, StackEntry, Windows, Call
  <2>5. CallsWait'
    BY <2>1, <2>2, <1>0, <1>b, <1>a DEF Inv, CallsWait, PeekFindsAWindow
  <2>6. StackIsPrepared'
    BY <2>1 DEF Inv, StackIsPrepared, Quiet
  <2>7. OneCall' /\ ScreenShowsTheTop'
    <3> SUFFICES ASSUME Quiet' PROVE OneCall' /\ ScreenShowsTheTop'
      BY DEF OneCall, ScreenShowsTheTop, AtRest, Quiet
    <3>1. Quiet /\ Len(running) = 1 /\ running' = <<>> /\ Last(running) = running[1]
      BY <2>1, <1>0, <1>a, <1>b, EmptySeq DEF Inv, OneCall, Quiet
    <3>2. active' = {topWnd'}
      BY <2>1, <3>1 DEF Inv, OneCall
    <3> QED
      BY <2>1, <2>2, <3>1, <3>2, EmptySeq DEF OneCall, ScreenShowsTheTop
  <2> QED
    BY <2>4, <2>5, <2>6, <2>7 DEF Inv
<1>9. CASE ClosePopup
  <2> DEFINE c == [call |-> "ClosePopup", wnd |-> topWnd, data |-> None]
  <2>1. c \in Call /\ topWnd \in Popup
    BY <1>9 DEF Inv, TypeOK, ClosePopup, Call, Windows
  <2>2. /\ running' \in Seq(Call) /\ Len(running') = Len(running) + 1
        /\ \A k \in 1..Len(running) : running'[k] = running[k]
        /\ running'[Len(running) + 1] = c
        /\ DOMAIN running' = 1..(Len(running) + 1)
    BY <1>9, <2>1, <1>0, AppendProperties, LenProperties DEF ClosePopup
  <2>4. TypeOK'
    BY <1>9, <2>2 DEF Inv, TypeOK, ClosePopup, Called, Call
  <2>5. CallsWait'
    BY <1>9, <1>0, <1>a, <2>2 DEF Inv, ClosePopup, Called, CallsWait, PeekFindsAWindow
  <2>6. StackIsPrepared'
    BY <1>9 DEF Inv, StackIsPrepared, ClosePopup, Called, Quiet
  <2>7. OneCall'
    <3> SUFFICES ASSUME Quiet' PROVE OneCall'
      BY DEF OneCall
    <3>1. Quiet /\ running = <<>> /\ UNCHANGED <<active, topWnd>>
      BY <1>9 DEF Quiet, ClosePopup, Called
    <3>2. active' \subseteq {topWnd'}
      BY <3>1 DEF Inv, ScreenShowsTheTop, AtRest, Quiet
    <3>3. running'[1] = c /\ Len(running') = 1
      BY <2>2, <3>1, <1>a
    <3> QED
      BY <2>1, <3>1, <3>2, <3>3 DEF OneCall
  <2>8. ScreenShowsTheTop'
    BY <2>2, <1>0, EmptySeq DEF ScreenShowsTheTop, AtRest
  <2> QED
    BY <2>4, <2>5, <2>6, <2>7, <2>8 DEF Inv
<1>10. CASE ClosePopupEnds
  <2>1. /\ running # <<>> /\ Last(running).call = "ClosePopup" /\ running' = Front(running)
        /\ active' = active \ {topWnd}
        /\ UNCHANGED <<stackOfWnds, dicWnds, topWnd, prepared, disturbed, reopened, released>>
    BY <1>10 DEF ClosePopupEnds, Innermost, Hidden
  <2>4. TypeOK'
    BY <2>1, <1>b DEF Inv, TypeOK, Call
  <2>5. CallsWait'
    BY <2>1, <1>0, <1>b, <1>a, SMTT(30) DEF Inv, CallsWait, PeekFindsAWindow
  <2>6. StackIsPrepared'
    BY <2>1 DEF Inv, StackIsPrepared, Quiet
  <2>7. OneCall' /\ ScreenShowsTheTop'
    <3> SUFFICES ASSUME Quiet' PROVE OneCall' /\ ScreenShowsTheTop'
      BY DEF OneCall, ScreenShowsTheTop, AtRest, Quiet
    <3>1. Quiet /\ Len(running) = 1 /\ running' = <<>> /\ Last(running) = running[1]
      BY <2>1, <1>0, <1>a, <1>b, EmptySeq DEF Inv, OneCall, Quiet
    <3>2. active' = {} /\ topWnd' \in Popup
      BY <2>1, <3>1 DEF Inv, OneCall
    <3> QED
      BY <2>1, <3>1, <3>2, EmptySeq DEF OneCall, ScreenShowsTheTop
  <2> QED
    BY <2>4, <2>5, <2>6, <2>7 DEF Inv
<1>11. CASE Release
  BY <1>11, <1>0, <1>a DEF Inv, Release, TypeOK, CallsWait, PeekFindsAWindow,
     StackIsPrepared, OneCall, Quiet, ScreenShowsTheTop, AtRest
<1> QED
  BY <1>1, <1>2, <1>3, <1>4, <1>5, <1>6, <1>7, <1>8, <1>9, <1>10, <1>11 DEF Next

LEMMA SpecInv == Spec => []Inv
  BY InitInv, StepInv, PTL DEF Spec

-----------------------------------------------------------------------------
(* A window without a view never gets on top, shown or stacked.               *)
THEOREM WindowsTyped == Spec => []TypeOK
  BY SpecInv, PTL DEF Inv

(* Between calls nothing but the top window is shown, and a normal window on   *)
(* top is shown and tops the stack, whatever is opened and closed, as long as *)
(* no window's code calls the manager or throws.                             *)
THEOREM TopIsShown == Spec => []ScreenShowsTheTop
  BY SpecInv, PTL DEF Inv

(* A window that was opened once comes back with the data it was opened with.  *)
THEOREM ComesBackWithItsData == Spec => []BackWithItsData
<1>1. Inv => BackWithItsData
  <2> SUFFICES ASSUME Inv, AtRest, topWnd \in Normal \ reopened
               PROVE  prepared[topWnd] = Last(stackOfWnds).data
    BY DEF BackWithItsData
  <2>1. stackOfWnds # <<>> /\ Last(stackOfWnds).wnd = topWnd
    BY DEF Inv, ScreenShowsTheTop
  <2>2. Last(stackOfWnds) = stackOfWnds[Len(stackOfWnds)] /\ Len(stackOfWnds) \in Nat \ {0}
    BY <2>1, FrontLast DEF Inv, TypeOK
  <2> QED
    BY <2>1, <2>2 DEF Inv, StackIsPrepared, Quiet, AtRest
<1> QED
  BY <1>1, SpecInv, PTL

(* CloseTop finds a window below the one it closes, whatever the code of the   *)
(* closed window has opened and closed meanwhile.                            *)
THEOREM PeekFinds == Spec => []PeekFindsAWindow
  BY SpecInv, PTL DEF Inv, CallsWait

=============================================================================
