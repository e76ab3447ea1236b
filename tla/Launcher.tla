------------------------------ MODULE Launcher ------------------------------
(***************************************************************************)
(* class Context of src/launcher/context.cpp: the keyboard thread, the     *)
(* autofire thread and its condition variable, the inotify thread and its  *)
(* pipe, the thread that wakes XNextEvent, the signal handler, and main(). *)
(*                                                                         *)
(* One client is configured for autofire; its game window, the focus, the  *)
(* player and the window manager are the environment.  A window is known   *)
(* by a number, 0 is none.  The handler runs on the thread the kernel      *)
(* prefers, main, which stands still meanwhile.  Steps end where another   *)
(* thread can see or change what is used next: each access to an atomic    *)
(* flag, each notify_all, each wait and each X event is a step.  A local   *)
(* variable is put back to its first value where its use ends.             *)
(***************************************************************************)
EXTENDS Integers, Sequences

CONSTANTS
  MaxPresses,    \* bound on the keys pressed and the edits of the config
  MaxGames,      \* bound on the windows the game opens
  MaxQueue,      \* bound on the X events the environment leaves waiting
  MaxSignals     \* bound on the SIGINTs and SIGTERMs

ASSUME LauncherAssumption ==
  /\ {MaxPresses, MaxQueue, MaxSignals} \subseteq Nat
  /\ MaxGames \in Nat \ {0}    \* the game may be running already

VARIABLES
  pc,            \* what each thread is about to do
  m_running,
  autofire,      \* m_autofire.running
  barrier,       \* how often m_cancel_barrier was given its value
  pipe,          \* m_inotify_pipe: "none" before pipe(), "empty", or "nl"
  window,        \* the window of the client, 0 for nullopt
  structure,     \* whether StructureNotifyMask is selected on it
  ev,            \* the window of the event the keyboard thread handles
  toggled,       \* what it is about to store in m_autofire.running
  \* the environment:
  game,          \* the window of the game, 0 when it is not running
  games,         \* how many it has opened
  focus,         \* whether it has the input focus
  queue,         \* X events not yet read
  xerror,        \* the window of a BadWindow error not yet read, or 0
  edited,        \* the config was written, the inotify event is not read
  config,        \* "good", or "bad": parse_config throws
  presses,       \* keys pressed and configs written so far
  signals,
  \* history:
  heard,         \* the handler's wakeups found the pipe open and the
                 \* autofire thread not about to wait
  refound        \* a window was found with autofire still on for another,
                 \* or for the same before it was let go

flags  == <<m_running, autofire, barrier, pipe>>
client == <<window, structure>>
kbVars == <<ev, toggled>>
xVars  == <<game, games, focus, queue>>
user   == <<edited, config, presses, signals>>
history == <<heard, refound>>
vars   == <<pc, flags, client, kbVars, xVars, xerror, user, history>>

Event(kind, w) == [kind |-> kind, window |-> w]
Dummy == Event("dummy", 0)

(* main() has read the configuration; start() has launched the threads and *)
(* installed the handler.                                                  *)
Init == /\ pc = [main |-> "wait", handler |-> "idle", kb |-> "check",
                 af |-> "check", cancel |-> "wait", inotify |-> "start"]
        /\ m_running = TRUE /\ autofire = FALSE /\ barrier = 0 /\ pipe = "none"
        /\ game \in 0..1 /\ games = game
        /\ window = game /\ structure = TRUE
        /\ focus \in BOOLEAN /\ (focus => game # 0)
        /\ ev = 0 /\ toggled = FALSE
        /\ queue = << >> /\ xerror = 0
        /\ edited = FALSE /\ config = "good" /\ presses = 0 /\ signals = 0
        /\ heard = FALSE /\ refound = FALSE

At(thread, place)  == pc[thread] = place
Go(thread, place)  == pc' = [pc EXCEPT ![thread] = place]
(* cv.notify_all() wakes the thread in cv.wait.  In a wait_for, which is    *)
(* not told from the step behind it, it goes on a little sooner than by    *)
(* itself, and anywhere else nobody hears.                                 *)
GoNotify(thread, place) ==
  pc' = [pc EXCEPT ![thread] = place, !.af = IF @ = "wait" THEN "loop" ELSE @]
HasInputFocus == focus /\ window = game
BadWindow(w) == window' = IF window = w THEN 0 ELSE window
-----------------------------------------------------------------------------
(* autofire_thread *)
AfCheck  == /\ At("af", "check")
            /\ Go("af", IF m_running THEN "enter" ELSE "done")
            /\ UNCHANGED <<flags, client, kbVars, xVars, xerror, user, history>>
AfWait   == /\ At("af", "enter")
            /\ Go("af", "wait")
            /\ UNCHANGED <<flags, client, kbVars, xVars, xerror, user, history>>
AfLoop   == /\ At("af", "loop")
            /\ Go("af", IF autofire THEN "aim" ELSE "check")
            /\ UNCHANGED <<flags, client, kbVars, xVars, xerror, user, history>>
AfAim    == /\ At("af", "aim")
            /\ Go("af", IF window = 0 THEN "check" ELSE "fire")
            /\ UNCHANGED <<flags, client, kbVars, xVars, xerror, user, history>>
(* XSendEvent to the window, which may be gone, or have been let go since  *)
(* the check: what was in the optional is read all the same.               *)
AfFire   == /\ At("af", "fire")
            /\ xerror' = IF window \notin {0, game} THEN window ELSE xerror
            /\ Go("af", "loop")
            /\ UNCHANGED <<flags, client, kbVars, xVars, user, history>>
Af == AfCheck \/ AfWait \/ AfLoop \/ AfAim \/ AfFire
-----------------------------------------------------------------------------
(* kb_event_thread *)
KbCheck == /\ At("kb", "check")
           /\ Go("kb", IF m_running THEN "next" ELSE "done")
           /\ UNCHANGED <<flags, client, kbVars, xVars, xerror, user, history>>
(* XNextEvent, and the check behind it. *)
KbNext == /\ At("kb", "next") /\ queue # << >>
          /\ queue' = Tail(queue)
          /\ ev' = Head(queue).window
          /\ Go("kb", IF m_running THEN Head(queue).kind ELSE "done")
          /\ UNCHANGED <<flags, client, toggled, game, games, focus, xerror,
                         user, history>>
(* keyPress of the autofire hotkey. *)
KbHotkeyBlind ==
  /\ At("kb", "hotkey")
  /\ Go("kb", IF window = 0 THEN "check" ELSE "store")
  /\ toggled' = (window # 0 /\ ~autofire)
  /\ UNCHANGED <<flags, client, ev, xVars, xerror, user, history>>
KbHotkey ==
  /\ At("kb", "hotkey")
  /\ Go("kb", IF window = 0 THEN "check" ELSE IF HasInputFocus THEN "store" ELSE "stop")
  /\ toggled' = (window # 0 /\ HasInputFocus /\ ~autofire)
  /\ UNCHANGED <<flags, client, ev, xVars, xerror, user, history>>
KbStore == /\ At("kb", "store")
           /\ autofire' = toggled
           /\ toggled' = FALSE
           /\ Go("kb", "notify")
           /\ UNCHANGED <<m_running, barrier, pipe, client, ev, xVars, xerror,
                          user, history>>
KbNotify == /\ At("kb", "notify")
            /\ GoNotify("kb", "check")
            /\ UNCHANGED <<flags, client, kbVars, xVars, xerror, user, history>>
(* stop_autofire(), also keyPress of another client's hotkey. *)
KbStop == /\ At("kb", "stop")
          /\ autofire' = FALSE
          /\ Go("kb", IF autofire THEN "notify" ELSE "check")
          /\ UNCHANGED <<m_running, barrier, pipe, client, kbVars, xVars, xerror,
                         user, history>>
(* keyRelease of the client's hotkey: findWindow, and XSelectInput without *)
(* StructureNotifyMask.                                                    *)
KbRelease == /\ At("kb", "release")
             /\ window' = game
             /\ structure' = (structure /\ game = 0)
             /\ Go("kb", "check")
             /\ refound' = (refound \/ (autofire /\ game \notin {0, window}))
             /\ UNCHANGED <<flags, kbVars, xVars, xerror, user, heard>>
(* FocusOut: not when the focus is back, or only a grab took it. *)
KbFocusOut == /\ At("kb", "focusout")
              /\ Go("kb", IF ev = window /\ ~HasInputFocus THEN "stop"
                          ELSE "check")
              /\ ev' = 0
              /\ UNCHANGED <<flags, client, toggled, xVars, xerror, user, history>>
(* DestroyNotify, UnmapNotify. *)
KbUnmap == /\ At("kb", "unmap")
           /\ BadWindow(ev)
           /\ ev' = 0
           /\ Go("kb", "check")
           /\ UNCHANGED <<flags, structure, toggled, xVars, xerror, user, history>>
(* Keycode 0, parse_config: nothing changes for this client, or a number   *)
(* does not parse, std::stoi throws, and the thread's handler ends it.     *)
KbDummySets ==
           /\ At("kb", "dummy")
           /\ m_running' = (m_running /\ config = "good")
           /\ barrier' = IF config = "good" THEN barrier ELSE barrier + 1
           /\ Go("kb", IF config = "good" THEN "check" ELSE "done")
           /\ UNCHANGED <<autofire, pipe, client, kbVars, xVars, xerror, user, history>>
KbDummy == /\ At("kb", "dummy")
           /\ m_running' = (m_running /\ config = "good")
           /\ Go("kb", IF config = "good" THEN "check" ELSE "done")
           /\ UNCHANGED <<autofire, barrier, pipe, client, kbVars, xVars, xerror,
                          user, history>>
(* x_error_handler, called in the thread that reads the error. *)
KbError == /\ At("kb", "next") /\ xerror # 0
           /\ BadWindow(xerror)
           /\ xerror' = 0
           /\ UNCHANGED <<pc, flags, structure, kbVars, xVars, user, history>>
Kb == \/ KbCheck \/ KbNext \/ KbHotkey \/ KbStore \/ KbNotify \/ KbStop
      \/ KbRelease \/ KbFocusOut \/ KbUnmap \/ KbDummy \/ KbError
-----------------------------------------------------------------------------
(* inotify_thread: the pipe, then the events of the config file. *)
InotifyStart == /\ At("inotify", "start")
                /\ pipe' = "empty"
                /\ Go("inotify", "poll")
                /\ UNCHANGED <<m_running, autofire, barrier, client, kbVars, xVars,
                               xerror, user, history>>
InotifyEnd   == /\ At("inotify", "poll") /\ pipe = "nl"
                /\ Go("inotify", "done")
                /\ UNCHANGED <<flags, client, kbVars, xVars, xerror, user, history>>
InotifyRead  == /\ At("inotify", "poll") /\ pipe = "empty" /\ edited
                /\ edited' = FALSE
                /\ queue' = Append(queue, Dummy)
                /\ UNCHANGED <<pc, flags, client, kbVars, game, games, focus, xerror,
                               config, presses, signals, history>>
Inotify == InotifyStart \/ InotifyEnd \/ InotifyRead

(* cancel_thread: also woken when main destroys the promise. *)
CancelAsleep ==
  /\ At("cancel", "wait") /\ (barrier > 0 \/ At("main", "join"))
  /\ Go("cancel", "done")
  /\ UNCHANGED <<flags, client, kbVars, xVars, xerror, user, history>>
Cancel ==
  /\ At("cancel", "wait") /\ (barrier > 0 \/ At("main", "join"))
  /\ queue' = IF m_running THEN queue ELSE Append(queue, Dummy)
  /\ Go("cancel", "done")
  /\ UNCHANGED <<flags, client, kbVars, game, games, focus, xerror, user, history>>

(* The signal handler: cancel(), and in it stop_autofire(true). *)
Exchange == /\ At("handler", "exchange")
            /\ m_running' = FALSE
            /\ Go("handler", IF m_running THEN "write" ELSE "idle")
            /\ UNCHANGED <<autofire, barrier, pipe, client, kbVars, xVars, xerror,
                           user, history>>
WriteNl  == /\ At("handler", "write")
            /\ pipe' = IF pipe = "none" THEN "none" ELSE "nl"
            /\ Go("handler", "stop")
            /\ UNCHANGED <<m_running, autofire, barrier, client, kbVars, xVars, xerror,
                           user, history>>
StopAf   == /\ At("handler", "stop")
            /\ autofire' = FALSE
            /\ Go("handler", "notify")
            /\ UNCHANGED <<m_running, barrier, pipe, client, kbVars, xVars, xerror,
                           user, history>>
NotifyAfUnforced ==
            /\ At("handler", "notify")
            /\ heard' = (pipe = "nl" /\ ~At("af", "enter"))
            /\ Go("handler", "set")
            /\ UNCHANGED <<flags, client, kbVars, xVars, xerror, user, refound>>
NotifyAf == /\ At("handler", "notify")
            /\ heard' = (pipe = "nl" /\ ~At("af", "enter"))
            /\ GoNotify("handler", "set")
            /\ UNCHANGED <<flags, client, kbVars, xVars, xerror, user, refound>>
SetValue == /\ At("handler", "set")
            /\ barrier' = barrier + 1
            /\ Go("handler", "idle")
            /\ UNCHANGED <<m_running, autofire, pipe, client, kbVars, xVars, xerror,
                           user, history>>
Handler == Exchange \/ WriteNl \/ StopAf \/ NotifyAf \/ SetValue

(* main(): wait() for the keyboard thread, and ~Context: the clients are   *)
(* reset, then the members go, the promise first, and each future waits    *)
(* for its thread.                                                         *)
MainWait == /\ At("main", "wait") /\ At("handler", "idle") /\ At("kb", "done")
            /\ window' = 0
            /\ Go("main", "join")
            /\ UNCHANGED <<flags, structure, kbVars, xVars, xerror, user, history>>
MainJoin == /\ At("main", "join") /\ At("handler", "idle")
            /\ \A thread \in {"af", "cancel", "inotify"} : At(thread, "done")
            /\ Go("main", "exited")
            /\ UNCHANGED <<flags, client, kbVars, xVars, xerror, user, history>>
Main == MainWait \/ MainJoin
-----------------------------------------------------------------------------
(* The environment.  X reports a FocusOut to the window that loses the     *)
(* focus, while events are selected on it, and also when a key grab takes  *)
(* the keyboard for the length of a press.  What happens after the keyboard*)
(* thread has ended reaches nobody.                                        *)
FocusOut == IF window = game /\ focus THEN << Event("focusout", game) >> ELSE << >>

Press == /\ ~At("kb", "done")
         /\ presses < MaxPresses /\ Len(queue) < MaxQueue
         /\ presses' = presses + 1
         /\ \E kind \in {"hotkey", "stop", "release"} :
              queue' = (queue \o FocusOut) \o << Event(kind, 0) >>
         /\ UNCHANGED <<pc, flags, client, kbVars, game, games, focus, xerror,
                        edited, config, signals, history>>
TakeFocus == /\ ~At("kb", "done")
             /\ focus /\ Len(queue) < MaxQueue
             /\ focus' = FALSE
             /\ queue' = queue \o FocusOut
             /\ UNCHANGED <<pc, flags, client, kbVars, game, games, xerror, user, history>>
GiveFocus == /\ ~At("kb", "done")
             /\ game # 0 /\ ~focus
             /\ focus' = TRUE
             /\ UNCHANGED <<pc, flags, client, kbVars, game, games, queue, xerror,
                            user, history>>
(* The game is minimised, or it ends. *)
Unmap == /\ ~At("kb", "done")
         /\ game # 0 /\ Len(queue) < MaxQueue
         /\ game' \in {0, game}
         /\ focus' = FALSE
         /\ queue' = (IF structure /\ window = game
                      THEN Append(queue, Event("unmap", game)) ELSE queue) \o FocusOut
         /\ UNCHANGED <<pc, flags, client, kbVars, games, xerror, user, history>>
Launch == /\ ~At("kb", "done")
          /\ game = 0 /\ games < MaxGames
          /\ games' = games + 1
          /\ game' = games'
          /\ UNCHANGED <<pc, flags, client, kbVars, focus, queue, xerror, user, history>>
Edit == /\ ~At("kb", "done")
        /\ presses < MaxPresses
        /\ presses' = presses + 1
        /\ edited' = TRUE
        /\ config' \in {"good", "bad"}
        /\ UNCHANGED <<pc, flags, client, kbVars, xVars, xerror, signals, history>>
Signal == /\ ~At("main", "exited")
          /\ signals < MaxSignals /\ At("handler", "idle")
          /\ signals' = signals + 1
          /\ Go("handler", "exchange")
          /\ UNCHANGED <<flags, client, kbVars, xVars, xerror, edited, config,
                         presses, history>>
Env == Press \/ TakeFocus \/ GiveFocus \/ Unmap \/ Launch \/ Edit \/ Signal

Next == Kb \/ Af \/ Inotify \/ Cancel \/ Handler \/ Main \/ Env

(* The kernel runs every thread that can run, and waits with a timeout end.*)
(* Nothing is assumed of the player and the game.                          *)
Fairness == /\ WF_vars(Kb) /\ WF_vars(Af) /\ WF_vars(Inotify)
            /\ WF_vars(Cancel) /\ WF_vars(Handler) /\ WF_vars(Main)
Spec == Init /\ [][Next]_vars /\ Fairness
-----------------------------------------------------------------------------
(* The types of the state.  The promise is given its value at most once:    *)
(* a second set_value would throw, out of a signal handler.                 *)
TypeOK ==
  /\ pc \in [main : {"wait", "join", "exited"},
             handler : {"idle", "exchange", "write", "stop", "notify", "set"},
             kb : {"check", "next", "hotkey", "store", "notify", "stop",
                   "release", "focusout", "unmap", "dummy", "done"},
             af : {"check", "enter", "wait", "loop", "aim", "fire", "done"},
             cancel : {"wait", "done"}, inotify : {"start", "poll", "done"}]
  /\ {m_running, autofire, structure, toggled, focus, edited, heard, refound} \subseteq BOOLEAN
  /\ {window, ev, game, games, xerror} \subseteq 0..MaxGames
  /\ pipe \in {"none", "empty", "nl"}
  /\ barrier \in 0..1
  /\ config \in {"good", "bad"}

(* XNextEvent is woken: when the keyboard thread waits for an event with    *)
(* m_running gone, an event is there, or the thread that will send one has  *)
(* been or will be woken (m_cancel_barrier and dummy_keypress).             *)
KeyboardThreadWoken ==
  At("kb", "next") /\ ~m_running =>
    queue # << >> \/ (At("cancel", "wait") /\ (barrier = 1 \/ ~At("handler", "idle")))

(* When the handler's wakeups found the autofire thread not on its way into *)
(* the wait and the pipe open, the program exits; even if the keyboard      *)
(* thread was in the middle of turning autofire on, which the handler's stop*)
(* does not undo: then it is the reset of the clients that ends the firing. *)
ExitsWhenHeard == heard ~> At("main", "exited")

(* Autofire does not go on without the focus: it stops, or the focus comes  *)
(* back.  The exception: the FocusOut of a window that has been let go, on  *)
(* an unmap or an error, or given up for a new one is not heeded, and a key *)
(* release that finds a window before the autofire thread has missed the    *)
(* old one lets it fire on.                                                 *)
Firing == autofire /\ pc.af \in {"loop", "aim", "fire"}
StopsWithoutFocus == (Firing /\ ~focus) ~> (~Firing \/ focus \/ refound)
=============================================================================
