--------------------------- MODULE LauncherProofs ---------------------------
(***************************************************************************)
(* The shutdown of the launcher, for any number of keys, windows, events   *)
(* and signals: the promise is given its value once at most (TypeOK), and  *)
(* the keyboard thread is woken (KeyboardThreadWoken).                     *)
(***************************************************************************)
EXTENDS Launcher, TLAPS

AnEvent == [kind : {"hotkey", "stop", "release", "focusout", "unmap", "dummy"},
            window : 0..MaxGames]
Types == TypeOK /\ queue \in Seq(AnEvent)

(* The handler has cleared m_running and has not set the promise yet. *)
Cancelling == pc.handler \in {"write", "stop", "notify", "set"}

(* The handler that clears m_running is the one that sets the promise, and  *)
(* cancel_thread sleeps until then or until the keyboard thread has ended.  *)
PromisePending ==
  /\ Cancelling => barrier = 0 /\ ~m_running
  /\ m_running => barrier = 0
  /\ pc.kb # "done" => pc.main = "wait"
  /\ pc.cancel = "done" => barrier = 1 \/ pc.kb = "done"

(* KeyboardThreadWoken, where of the handlers under way only the one counts *)
(* that found m_running set, and not one for a later signal.                *)
Woken ==
  At("kb", "next") /\ ~m_running =>
    queue # << >> \/ (At("cancel", "wait") /\ (barrier = 1 \/ Cancelling))

Shutdown == PromisePending /\ Woken
IInv == Types /\ Shutdown
-----------------------------------------------------------------------------
(* What is put on the queue of X events is an event. *)
LEMMA QueueGrows ==
  ASSUME NEW q \in Seq(AnEvent), NEW e \in AnEvent
  PROVE  Append(q, e) \in Seq(AnEvent) /\ Append(q, e) # << >>
<1>1. Append(q, e) \in Seq(AnEvent) /\ Len(Append(q, e)) = Len(q) + 1
  OBVIOUS
<1>2. Len(q) \in Nat
  OBVIOUS
<1> QED
  BY <1>1, <1>2

LEMMA QueueJoins ==
  ASSUME NEW q \in Seq(AnEvent), NEW r \in Seq(AnEvent)
  PROVE  q \o r \in Seq(AnEvent) /\ (q # << >> => q \o r # << >>)
<1>1. q \o r \in Seq(AnEvent) /\ Len(q \o r) = Len(q) + Len(r)
  OBVIOUS
<1>2. q # << >> => Len(q) > 0
  OBVIOUS
<1>3. Len(q) \in Nat /\ Len(r) \in Nat
  OBVIOUS
<1>4. q # << >> => Len(q \o r) # 0
  BY <1>1, <1>2, <1>3
<1> QED
  BY <1>1, <1>4

LEMMA FocusOutQueued ==
  ASSUME Types
  PROVE  FocusOut \in Seq(AnEvent)
<1>1. Event("focusout", game) \in AnEvent
  BY DEF Types, TypeOK, Event, AnEvent
<1> QED
  BY <1>1 DEF FocusOut

LEMMA DummyQueued == Dummy \in AnEvent
  BY LauncherAssumption DEF Dummy, Event, AnEvent

LEMMA QueueShrinks ==
  ASSUME NEW q \in Seq(AnEvent), q # << >>
  PROVE  Tail(q) \in Seq(AnEvent) /\ Head(q) \in AnEvent
  OBVIOUS
-----------------------------------------------------------------------------
(* Types: the keyboard thread. *)
LEMMA KbTypes == IInv /\ Kb => Types'
<1> SUFFICES ASSUME IInv, Kb PROVE Types'
  OBVIOUS
<1> USE DEF IInv, flags, client, kbVars, xVars, user, history, At, Go
<1>1. CASE KbCheck
  BY <1>1 DEF KbCheck, Types, TypeOK
<1>2. CASE KbNext
  <2>1. Tail(queue) \in Seq(AnEvent) /\ Head(queue) \in AnEvent
    BY <1>2, QueueShrinks DEF KbNext, Types
  <2> DEFINE e == Head(queue)
  <2>2. /\ e.window \in 0..MaxGames
        /\ e.kind \in {"hotkey", "stop", "release", "focusout", "unmap", "dummy"}
    <3> HIDE DEF e
    <3> QED
      BY <2>1 DEF AnEvent, e
  <2>3. queue' = Tail(queue) /\ ev' = e.window
    BY <1>2 DEF KbNext
  <2>4. pc' = [pc EXCEPT !.kb = IF m_running THEN e.kind ELSE "done"]
    BY <1>2 DEF KbNext, Go
  <2> HIDE DEF e
  <2> QED
    BY <1>2, <2>1, <2>2, <2>3, <2>4 DEF KbNext, Types, TypeOK
<1>3. CASE KbHotkey
  BY <1>3 DEF KbHotkey, Types, TypeOK
<1>4. CASE KbStore
  BY <1>4 DEF KbStore, Types, TypeOK
<1>5. CASE KbNotify
  BY <1>5 DEF KbNotify, Types, TypeOK, GoNotify
<1>6. CASE KbStop
  BY <1>6 DEF KbStop, Types, TypeOK
<1>7. CASE KbRelease
  BY <1>7 DEF KbRelease, Types, TypeOK
<1>8. CASE KbFocusOut
  BY <1>8, LauncherAssumption DEF KbFocusOut, Types, TypeOK
<1>9. CASE KbUnmap
  BY <1>9, LauncherAssumption DEF KbUnmap, Types, TypeOK, BadWindow
<1>10. CASE KbDummy
  BY <1>10 DEF KbDummy, Types, TypeOK
<1>11. CASE KbError
  BY <1>11, LauncherAssumption DEF KbError, Types, TypeOK, BadWindow
<1> QED
  BY <1>1, <1>2, <1>3, <1>4, <1>5, <1>6, <1>7, <1>8, <1>9, <1>10, <1>11 DEF Kb

(* Types: the autofire thread. *)
LEMMA AfTypes == IInv /\ Af => Types'
<1> SUFFICES ASSUME IInv, Af PROVE Types'
  OBVIOUS
<1> USE DEF IInv, flags, client, kbVars, xVars, user, history, At, Go
<1>1. CASE AfCheck
  BY <1>1 DEF AfCheck, Types, TypeOK
<1>2. CASE AfWait
  BY <1>2 DEF AfWait, Types, TypeOK
<1>3. CASE AfLoop
  BY <1>3 DEF AfLoop, Types, TypeOK
<1>4. CASE AfAim
  BY <1>4 DEF AfAim, Types, TypeOK
<1>5. CASE AfFire
  BY <1>5 DEF AfFire, Types, TypeOK
<1> QED
  BY <1>1, <1>2, <1>3, <1>4, <1>5 DEF Af

(* Types: the inotify thread. *)
LEMMA InotifyTypes == IInv /\ Inotify => Types'
<1> SUFFICES ASSUME IInv, Inotify PROVE Types'
  OBVIOUS
<1> USE DEF IInv, flags, client, kbVars, xVars, user, history, At, Go
<1>1. CASE InotifyStart
  BY <1>1 DEF InotifyStart, Types, TypeOK
<1>2. CASE InotifyEnd
  BY <1>2 DEF InotifyEnd, Types, TypeOK
<1>3. CASE InotifyRead
  <2>1. queue' \in Seq(AnEvent)
    BY <1>3, DummyQueued, QueueGrows DEF InotifyRead, Types
  <2>2. edited' \in BOOLEAN /\ UNCHANGED <<pc, flags, client, kbVars, game, games, focus,
                                        xerror, config, history>>
    BY <1>3 DEF InotifyRead
  <2> QED
    BY <2>1, <2>2 DEF Types, TypeOK
<1> QED
  BY <1>1, <1>2, <1>3 DEF Inotify

(* Types: cancel_thread. *)
LEMMA CancelTypes == IInv /\ Cancel => Types'
<1> SUFFICES ASSUME IInv, Cancel PROVE Types'
  OBVIOUS
<1> USE DEF IInv, flags, client, kbVars, xVars, user, history, At, Go
<1>1. queue' \in Seq(AnEvent)
  BY DummyQueued, QueueGrows DEF Cancel, Types
<1> QED
  BY <1>1 DEF Cancel, Types, TypeOK

(* Types: the signal handler. *)
LEMMA HandlerTypes == IInv /\ Handler => Types'
<1> SUFFICES ASSUME IInv, Handler PROVE Types'
  OBVIOUS
<1> USE DEF IInv, flags, client, kbVars, xVars, user, history, At, Go
<1>1. CASE Exchange
  BY <1>1 DEF Exchange, Types, TypeOK
<1>2. CASE WriteNl
  BY <1>2 DEF WriteNl, Types, TypeOK
<1>3. CASE StopAf
  BY <1>3 DEF StopAf, Types, TypeOK
<1>4. CASE NotifyAf
  BY <1>4 DEF NotifyAf, Types, TypeOK, GoNotify
<1>5. CASE SetValue
  BY <1>5 DEF SetValue, Types, TypeOK, Shutdown, PromisePending, Cancelling
<1> QED
  BY <1>1, <1>2, <1>3, <1>4, <1>5 DEF Handler

(* Types: main. *)
LEMMA MainTypes == IInv /\ Main => Types'
<1> SUFFICES ASSUME IInv, Main PROVE Types'
  OBVIOUS
<1> USE DEF IInv, flags, client, kbVars, xVars, user, history, At, Go
<1>1. CASE MainWait
  <2>1. 0 \in 0..MaxGames
    BY LauncherAssumption
  <2> QED
    BY <1>1, <2>1 DEF MainWait, Types, TypeOK
<1>2. CASE MainJoin
  BY <1>2 DEF MainJoin, Types, TypeOK
<1> QED
  BY <1>1, <1>2 DEF Main

(* Types: the environment. *)
LEMMA EnvTypes == IInv /\ Env => Types'
<1> SUFFICES ASSUME IInv, Env PROVE Types'
  OBVIOUS
<1> USE DEF IInv, flags, client, kbVars, xVars, user, history, At, Go
<1>1. CASE Press
  <2>1. PICK kind \in {"hotkey", "stop", "release"} :
          queue' = (queue \o FocusOut) \o << Event(kind, 0) >>
    BY <1>1 DEF Press
  <2>2. << Event(kind, 0) >> \in Seq(AnEvent)
    BY LauncherAssumption DEF Event, AnEvent
  <2>3. queue' \in Seq(AnEvent)
    BY <2>1, <2>2, FocusOutQueued, QueueJoins DEF Types
  <2> QED
    BY <1>1, <2>3 DEF Press, Types, TypeOK
<1>2. CASE TakeFocus
  <2>1. queue' \in Seq(AnEvent)
    BY <1>2, FocusOutQueued, QueueJoins DEF TakeFocus, Types
  <2>2. focus' \in BOOLEAN /\ UNCHANGED <<pc, flags, client, kbVars, game, games, xerror, user,
                                       history>>
    BY <1>2 DEF TakeFocus
  <2> QED
    BY <2>1, <2>2 DEF Types, TypeOK
<1>3. CASE GiveFocus
  BY <1>3 DEF GiveFocus, Types, TypeOK
<1>4. CASE Unmap
  <2>1. Event("unmap", game) \in AnEvent
    BY DEF Types, TypeOK, Event, AnEvent
  <2> DEFINE q == IF structure /\ window = game THEN Append(queue, Event("unmap", game))
                  ELSE queue
  <2>2. q \in Seq(AnEvent)
    BY <2>1, QueueGrows DEF Types
  <2>3. queue' = q \o FocusOut
    BY <1>4 DEF Unmap
  <2>4. queue' \in Seq(AnEvent)
    <3> HIDE DEF q
    <3> QED
      BY <2>2, <2>3, FocusOutQueued, QueueJoins
  <2>5. game' \in {0, game} /\ focus' \in BOOLEAN
    BY <1>4 DEF Unmap
  <2>6. UNCHANGED <<pc, flags, client, kbVars, games, xerror, user, history>>
    BY <1>4 DEF Unmap
  <2>7. game' \in 0..MaxGames
    BY <2>5, LauncherAssumption DEF Types, TypeOK
  <2> QED
    BY <2>4, <2>5, <2>6, <2>7 DEF Types, TypeOK
<1>5. CASE Launch
  BY <1>5, LauncherAssumption DEF Launch, Types, TypeOK
<1>6. CASE Edit
  BY <1>6 DEF Edit, Types, TypeOK
<1>7. CASE Signal
  BY <1>7 DEF Signal, Types, TypeOK
<1> QED
  BY <1>1, <1>2, <1>3, <1>4, <1>5, <1>6, <1>7 DEF Env

-----------------------------------------------------------------------------
(* Shutdown: the keyboard thread. *)
LEMMA KbShutdown == IInv /\ Kb => Shutdown'
<1> SUFFICES ASSUME IInv, Kb PROVE Shutdown'
  OBVIOUS
<1> USE DEF IInv, flags, client, kbVars, xVars, user, history, At, Go
<1>1. CASE KbCheck
  BY <1>1
  DEF KbCheck, Types, TypeOK, Shutdown, PromisePending, Woken, Cancelling
<1>2. CASE KbNext
  BY <1>2 DEF KbNext, Types, TypeOK, Shutdown, PromisePending, Woken, Cancelling
<1>3. CASE KbHotkey
  BY <1>3
  DEF KbHotkey, Types, TypeOK, Shutdown, PromisePending, Woken, Cancelling
<1>4. CASE KbStore
  BY <1>4
  DEF KbStore, Types, TypeOK, Shutdown, PromisePending, Woken, Cancelling
<1>5. CASE KbNotify
  BY <1>5
  DEF KbNotify, Types, TypeOK, Shutdown, PromisePending, Woken, Cancelling,
      GoNotify
<1>6. CASE KbStop
  BY <1>6 DEF KbStop, Types, TypeOK, Shutdown, PromisePending, Woken, Cancelling
<1>7. CASE KbRelease
  BY <1>7
  DEF KbRelease, Types, TypeOK, Shutdown, PromisePending, Woken, Cancelling
<1>8. CASE KbFocusOut
  BY <1>8
  DEF KbFocusOut, Types, TypeOK, Shutdown, PromisePending, Woken, Cancelling
<1>9. CASE KbUnmap
  BY <1>9
  DEF KbUnmap, Types, TypeOK, Shutdown, PromisePending, Woken, Cancelling,
      BadWindow
<1>10. CASE KbDummy
  BY <1>10
  DEF KbDummy, Types, TypeOK, Shutdown, PromisePending, Woken, Cancelling
<1>11. CASE KbError
  BY <1>11
  DEF KbError, Types, TypeOK, Shutdown, PromisePending, Woken, Cancelling,
      BadWindow
<1> QED
  BY <1>1, <1>2, <1>3, <1>4, <1>5, <1>6, <1>7, <1>8, <1>9, <1>10, <1>11 DEF Kb

(* Shutdown: the autofire thread. *)
LEMMA AfShutdown == IInv /\ Af => Shutdown'
<1> SUFFICES ASSUME IInv, Af PROVE Shutdown'
  OBVIOUS
<1> USE DEF IInv, flags, client, kbVars, xVars, user, history, At, Go
<1>1. CASE AfCheck
  BY <1>1
  DEF AfCheck, Types, TypeOK, Shutdown, PromisePending, Woken, Cancelling
<1>2. CASE AfWait
  BY <1>2 DEF AfWait, Types, TypeOK, Shutdown, PromisePending, Woken, Cancelling
<1>3. CASE AfLoop
  BY <1>3 DEF AfLoop, Types, TypeOK, Shutdown, PromisePending, Woken, Cancelling
<1>4. CASE AfAim
  BY <1>4 DEF AfAim, Types, TypeOK, Shutdown, PromisePending, Woken, Cancelling
<1>5. CASE AfFire
  BY <1>5 DEF AfFire, Types, TypeOK, Shutdown, PromisePending, Woken, Cancelling
<1> QED
  BY <1>1, <1>2, <1>3, <1>4, <1>5 DEF Af

(* Shutdown: the inotify thread. *)
LEMMA InotifyShutdown == IInv /\ Inotify => Shutdown'
<1> SUFFICES ASSUME IInv, Inotify PROVE Shutdown'
  OBVIOUS
<1> USE DEF IInv, flags, client, kbVars, xVars, user, history, At, Go
<1>1. CASE InotifyStart
  BY <1>1
  DEF InotifyStart, Types, TypeOK, Shutdown, PromisePending, Woken,
      Cancelling
<1>2. CASE InotifyEnd
  BY <1>2
  DEF InotifyEnd, Types, TypeOK, Shutdown, PromisePending, Woken, Cancelling
<1>3. CASE InotifyRead
  <2>1. queue' # << >>
    BY <1>3, DummyQueued, QueueGrows DEF InotifyRead, Types
  <2> QED
    BY <1>3, <2>1 DEF InotifyRead, Shutdown, PromisePending, Woken, Cancelling
<1> QED
  BY <1>1, <1>2, <1>3 DEF Inotify

(* Shutdown: cancel_thread. *)
LEMMA CancelShutdown == IInv /\ Cancel => Shutdown'
<1> SUFFICES ASSUME IInv, Cancel PROVE Shutdown'
  OBVIOUS
<1> USE DEF IInv, flags, client, kbVars, xVars, user, history, At, Go
<1>1. ~m_running => queue' # << >>
  BY DummyQueued, QueueGrows DEF Cancel, Types
<1>2. pc.kb = "next" => barrier # 0
  BY DEF Cancel, Shutdown, PromisePending
<1>3. barrier # 0 => barrier = 1 /\ ~m_running
  BY DEF Types, TypeOK, Shutdown, PromisePending
<1> QED
  BY <1>1, <1>2, <1>3
  DEF Cancel, Types, TypeOK, Shutdown, PromisePending, Woken, Cancelling

(* Shutdown: the signal handler. *)
LEMMA HandlerShutdown == IInv /\ Handler => Shutdown'
<1> SUFFICES ASSUME IInv, Handler PROVE Shutdown'
  OBVIOUS
<1> USE DEF IInv, flags, client, kbVars, xVars, user, history, At, Go
<1>1. CASE Exchange
  BY <1>1
  DEF Exchange, Types, TypeOK, Shutdown, PromisePending, Woken, Cancelling
<1>2. CASE WriteNl
  BY <1>2
  DEF WriteNl, Types, TypeOK, Shutdown, PromisePending, Woken, Cancelling
<1>3. CASE StopAf
  BY <1>3 DEF StopAf, Types, TypeOK, Shutdown, PromisePending, Woken, Cancelling
<1>4. CASE NotifyAf
  BY <1>4
  DEF NotifyAf, Types, TypeOK, Shutdown, PromisePending, Woken, Cancelling,
      GoNotify
<1>5. CASE SetValue
  BY <1>5
  DEF SetValue, Types, TypeOK, Shutdown, PromisePending, Woken, Cancelling
<1> QED
  BY <1>1, <1>2, <1>3, <1>4, <1>5 DEF Handler

(* Shutdown: main. *)
LEMMA MainShutdown == IInv /\ Main => Shutdown'
<1> SUFFICES ASSUME IInv, Main PROVE Shutdown'
  OBVIOUS
<1> USE DEF IInv, flags, client, kbVars, xVars, user, history, At, Go
<1>1. CASE MainWait
  BY <1>1
  DEF MainWait, Types, TypeOK, Shutdown, PromisePending, Woken, Cancelling
<1>2. CASE MainJoin
  BY <1>2
  DEF MainJoin, Types, TypeOK, Shutdown, PromisePending, Woken, Cancelling
<1> QED
  BY <1>1, <1>2 DEF Main

(* Shutdown: the environment. *)
LEMMA EnvShutdown == IInv /\ Env => Shutdown'
<1> SUFFICES ASSUME IInv, Env PROVE Shutdown'
  OBVIOUS
<1> USE DEF IInv, flags, client, kbVars, xVars, user, history, At, Go
<1>1. CASE Press
  <2>1. PICK kind \in {"hotkey", "stop", "release"} :
          queue' = (queue \o FocusOut) \o << Event(kind, 0) >>
    BY <1>1 DEF Press
  <2>2. << Event(kind, 0) >> \in Seq(AnEvent)
    BY LauncherAssumption DEF Event, AnEvent
  <2>3. queue # << >> => queue' # << >>
    BY <2>1, <2>2, FocusOutQueued, QueueJoins DEF Types
  <2> QED
    BY <1>1, <2>3 DEF Press, Shutdown, PromisePending, Woken, Cancelling
<1>2. CASE TakeFocus
  <2>1. queue # << >> => queue' # << >>
    BY <1>2, FocusOutQueued, QueueJoins DEF TakeFocus, Types
  <2> QED
    BY <1>2, <2>1 DEF TakeFocus, Shutdown, PromisePending, Woken, Cancelling
<1>3. CASE GiveFocus
  BY <1>3
  DEF GiveFocus, Types, TypeOK, Shutdown, PromisePending, Woken, Cancelling
<1>4. CASE Unmap
  <2>1. Event("unmap", game) \in AnEvent
    BY DEF Types, TypeOK, Event, AnEvent
  <2> DEFINE q == IF structure /\ window = game THEN Append(queue, Event("unmap", game))
                  ELSE queue
  <2>2. q \in Seq(AnEvent) /\ (queue # << >> => q # << >>)
    BY <2>1, QueueGrows DEF Types
  <2>3. queue' = q \o FocusOut
    BY <1>4 DEF Unmap
  <2>4. queue # << >> => queue' # << >>
    <3> HIDE DEF q
    <3> QED
      BY <2>2, <2>3, FocusOutQueued, QueueJoins
  <2> QED
    BY <1>4, <2>4 DEF Unmap, Shutdown, PromisePending, Woken, Cancelling
<1>5. CASE Launch
  BY <1>5 DEF Launch, Types, TypeOK, Shutdown, PromisePending, Woken, Cancelling
<1>6. CASE Edit
  BY <1>6 DEF Edit, Types, TypeOK, Shutdown, PromisePending, Woken, Cancelling
<1>7. CASE Signal
  BY <1>7 DEF Signal, Types, TypeOK, Shutdown, PromisePending, Woken, Cancelling
<1> QED
  BY <1>1, <1>2, <1>3, <1>4, <1>5, <1>6, <1>7 DEF Env

-----------------------------------------------------------------------------
LEMMA InitIInv == Init => IInv
<1> SUFFICES ASSUME Init PROVE IInv
  OBVIOUS
<1>1. {0, game} \subseteq 0..MaxGames
  BY LauncherAssumption DEF Init
<1>2. {m_running, autofire, structure, toggled, focus, edited, heard, refound}
        \subseteq BOOLEAN
  BY DEF Init
<1>3. {window, ev, game, games, xerror} \subseteq 0..MaxGames
  BY <1>1 DEF Init
<1>4. pc \in [main : {"wait"}, handler : {"idle"}, kb : {"check"}, af : {"check"},
             cancel : {"wait"}, inotify : {"start"}]
  BY DEF Init
<1>5. TypeOK
  BY <1>2, <1>3, <1>4 DEF Init, TypeOK
<1>6. queue \in Seq(AnEvent)
  BY DEF Init
<1> QED
  BY <1>5, <1>6
  DEF Init, IInv, Types, Shutdown, PromisePending, Woken, Cancelling, At

LEMMA NextIInv == IInv /\ [Next]_vars => IInv'
<1>1. IInv /\ Next => IInv'
  BY KbTypes, AfTypes, InotifyTypes, CancelTypes, HandlerTypes, MainTypes, EnvTypes,
     KbShutdown, AfShutdown, InotifyShutdown, CancelShutdown, HandlerShutdown,
     MainShutdown, EnvShutdown
  DEF Next, IInv
<1>2. IInv /\ UNCHANGED vars => IInv'
  BY DEF vars, flags, client, kbVars, xVars, user, history, At,
         IInv, Types, TypeOK, Shutdown, PromisePending, Woken, Cancelling
<1> QED
  BY <1>1, <1>2

(* However many signals there are and whenever they come, set_value is     *)
(* called once at most: a second call would throw in the signal handler.   *)
THEOREM PromiseKept == Spec => []TypeOK
<1>1. IInv => TypeOK
  BY DEF IInv, Types
<1> QED
  BY <1>1, InitIInv, NextIInv, PTL DEF Spec

(* XNextEvent does not sleep through the shutdown: cancel_thread's dummy    *)
(* event is on its way whenever the keyboard thread waits without m_running.*)
THEOREM KeyboardWoken == Spec => []KeyboardThreadWoken
<1>1. IInv => KeyboardThreadWoken
  BY DEF IInv, Shutdown, Woken, KeyboardThreadWoken, Cancelling, At
<1> QED
  BY <1>1, InitIInv, NextIInv, PTL DEF Spec
=============================================================================
