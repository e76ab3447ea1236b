------------------------------ MODULE Hotkeys -------------------------------
(***************************************************************************)
(* The key bindings of class Context (src/launcher/context.cpp) and what a *)
(* reload of the configuration does to them, seen from the keyboard thread,*)
(* which handles one X event after the other.  A key is a keycode with     *)
(* modifiers; a client that was never set has the keycode 0.  Whether a    *)
(* window is found and has the focus is the environment's.                 *)
(***************************************************************************)
EXTENDS Integers, Sequences

CONSTANTS
  Account, NoAccount,  \* the names of the accounts, and the empty one
  KeySym,
  Keycode,     \* XKeysymToKeycode: KeySym to numbers, 0 for a key that is none
  Modifier,    \* masks of modifiers, 128 is Mod5Mask
  Configs,     \* what the player writes into the configuration file:
               \* accounts, the key line in force as pairs of keysym and
               \* modifiers, the modifiers of key lines before it, and the
               \* account for autofire
  NoConfig,
  Garbage,     \* what may lie in memory beyond the end of the keys
  MaxReloads   \* bound on the times the configuration is read

Key == [code : {Keycode[sym] : sym \in KeySym}, mod : Modifier]
NoKey == [code |-> 0, mod |-> 0]
ASSUME HotkeysAssumption ==
  /\ NoAccount \notin Account /\ NoConfig \notin Configs
  /\ Keycode \in [KeySym -> Nat] /\ Modifier \subseteq Nat
  /\ Garbage \subseteq Key /\ MaxReloads \in Nat
  /\ Configs \subseteq [accounts : Seq(Account), keys : Seq(KeySym \X Modifier),
                        earlier : Seq(Modifier), autofire : Account \union {NoAccount}]

VARIABLES
  m_clients,   \* by ordinal
  m_autofire,
  running,     \* m_autofire.running
  grabs,       \* the keys grabbed from the X server
  config,      \* what was parsed last
  reloads,     \* how often the configuration was read
  named        \* history: the accounts that were named for autofire

vars == <<m_clients, m_autofire, running, grabs, config, reloads, named>>

Ordinal == 0..2
-----------------------------------------------------------------------------
(* Context's side of the X server: m_clients, m_autofire and the grabs.    *)
Zeroed == [clients |-> [i \in Ordinal |-> [name |-> NoAccount, key |-> NoKey,
                                           autofire |-> FALSE, window |-> FALSE]],
           autofire |-> [ordinal |-> 0, key |-> NoKey, keypress |-> 0],
           grabs |-> {}]

(* XGrabKey of keycode 0 is of AnyKey. *)
Grab(held, key)   == held \union {key}
Ungrab(held, key) == IF key.code = 0 THEN held ELSE held \ {key}

(* The client is reset before its key is released. *)
SetClientReleasesFirst(ctx, i, name, key, found) ==
  IF ctx.clients[i].name = name /\ ctx.clients[i].key = key THEN ctx
  ELSE [ctx EXCEPT
          !.clients[i] = [name |-> name, key |-> key, autofire |-> FALSE, window |-> found],
          !.grabs = Grab(Ungrab(@, ctx.clients[i].key), key)]
SetClient(ctx, i, name, key, found) ==
  LET reset == NoKey
  IN  IF ctx.clients[i].name = name /\ ctx.clients[i].key = key THEN ctx
      ELSE [ctx EXCEPT
              !.clients[i] = [name |-> name, key |-> key, autofire |-> FALSE,
                              window |-> found],
              !.grabs = Grab(Ungrab(@, reset), key)]
SetAutofire(ctx, i, key, keypress) ==
  LET reset == NoKey
      same  == ctx.autofire.key = key /\ ctx.autofire.keypress = keypress
  IN  [clients  |-> [ctx.clients EXCEPT ![i].autofire = TRUE],
       autofire |-> [ordinal |-> i, key |-> key, keypress |-> keypress],
       grabs    |-> IF same THEN ctx.grabs
                    ELSE Grab(IF ctx.autofire.key.code = 0 THEN ctx.grabs
                              ELSE Ungrab(ctx.grabs, reset), key)]

(* keys[i] and modifiers[i].  The modifiers of a former line are not       *)
(* cleared; what lies beyond the end of the keys can be anything.          *)
KeyAt(c, i, garbage) ==
  IF i < Len(c.keys)
  THEN [code |-> Keycode[c.keys[i + 1][1]],
        mod  |-> IF i < Len(c.earlier) THEN c.earlier[i + 1]
                 ELSE c.keys[i + 1 - Len(c.earlier)][2]]
  ELSE garbage[i]
Active(c)  == {i \in Ordinal : i < Len(c.accounts)}
HasAutofireKeys(c) == Len(c.keys) >= 4
Missing(c) == {i \in Active(c) : i >= Len(c.keys)}
                \union (IF Len(c.keys) = 4 THEN {4} ELSE {})

SetAccount(ctx, c, i, garbage, found) ==
  LET set == SetClient(ctx, i, c.accounts[i + 1], KeyAt(c, i, garbage), found[i])
  IN  IF i \notin Active(c) THEN ctx
      ELSE IF c.autofire = c.accounts[i + 1] /\ HasAutofireKeys(c)
      THEN SetAutofire(set, i, KeyAt(c, 3, garbage), KeyAt(c, 4, garbage).code)
      ELSE set
ParseConfig(ctx, c, garbage, found) ==
  LET first  == SetAccount(ctx, c, 0, garbage, found)
      second == SetAccount(first, c, 1, garbage, found)
  IN  SetAccount(second, c, 2, garbage, found)
-----------------------------------------------------------------------------
(* client_from_key: the first that has the key, as ordinals go. *)
WithKey(code, modifiers) ==
  {i \in Ordinal : m_clients[i].key = [code |-> code, mod |-> modifiers]}
IsLast(i, code, modifiers) ==
  i \in WithKey(code, modifiers) /\ \A j \in WithKey(code, modifiers) : j <= i
IsFirst(i, code, modifiers) ==
  i \in WithKey(code, modifiers) /\ \A j \in WithKey(code, modifiers) : i <= j
IsAutofireKey(code, modifiers) ==
  m_autofire.key = [code |-> code, mod |-> modifiers]

(* The modifiers of an event's state, which are seven bits of it. *)
Modifiers(state) == state % 128
-----------------------------------------------------------------------------
Init == /\ m_clients = Zeroed.clients
        /\ m_autofire = Zeroed.autofire
        /\ running = FALSE
        /\ grabs = Zeroed.grabs
        /\ config = NoConfig /\ reloads = 0
        /\ named = {}

(* The first call is main's, the others follow an edit of the file. *)
Reload ==
  /\ reloads < MaxReloads
  /\ reloads' = reloads + 1
  /\ \E c \in Configs, found \in [Ordinal -> BOOLEAN] :
       \E garbage \in [Missing(c) -> Garbage] :
         LET ctx == ParseConfig([clients |-> m_clients, autofire |-> m_autofire,
                                 grabs |-> grabs], c, garbage, found)
         IN  /\ m_clients' = ctx.clients
             /\ m_autofire' = ctx.autofire
             /\ grabs' = ctx.grabs
             /\ config' = c
             /\ named' = IF HasAutofireKeys(c)
                         THEN named \union {c.accounts[i + 1] :
                                i \in {i \in Active(c) : c.autofire = c.accounts[i + 1]}}
                         ELSE named
             /\ UNCHANGED running

(* keyPress of the autofire key: nothing without a window, a stop without  *)
(* the focus, else the toggle.                                             *)
PressAutofire(code, state, focus) ==
  /\ IsAutofireKey(code, Modifiers(state))
  /\ m_clients[m_autofire.ordinal].window
  /\ running' = (focus /\ ~running)
  /\ UNCHANGED <<m_clients, m_autofire, grabs, config, reloads, named>>
(* keyPress of a client's key, which raises the client's window. *)
PressClientAims(code, state) ==
  /\ ~IsAutofireKey(code, Modifiers(state))
  /\ \E i \in Ordinal :
       /\ IsFirst(i, code, Modifiers(state))
       /\ m_clients[i].window
       /\ m_autofire' = [m_autofire EXCEPT !.ordinal = i]
       /\ running' = (running /\ m_clients[i].autofire)
  /\ UNCHANGED <<m_clients, grabs, config, reloads, named>>
PressClient(code, state) ==
  /\ ~IsAutofireKey(code, Modifiers(state))
  /\ \E i \in Ordinal :
       /\ IsFirst(i, code, Modifiers(state))
       /\ m_clients[i].window
       /\ m_autofire' = [m_autofire EXCEPT !.ordinal = IF m_clients[i].autofire THEN i ELSE @]
       /\ running' = (running /\ m_clients[i].autofire)
  /\ UNCHANGED <<m_clients, grabs, config, reloads, named>>
(* keyRelease looks for the window anew. *)
Release(code, state, found) ==
  /\ ~IsAutofireKey(code, Modifiers(state))
  /\ \E i \in Ordinal :
       /\ IsFirst(i, code, Modifiers(state))
       /\ m_clients' = [m_clients EXCEPT ![i].window = found]
  /\ UNCHANGED <<m_autofire, running, grabs, config, reloads, named>>
(* DestroyNotify, UnmapNotify, X errors. *)
BadWindow(i) ==
  /\ m_clients[i].window
  /\ m_clients' = [m_clients EXCEPT ![i].window = FALSE]
  /\ UNCHANGED <<m_autofire, running, grabs, config, reloads, named>>
FocusOut(i) ==
  /\ m_clients[i].window /\ m_clients[i].autofire
  /\ running' = FALSE
  /\ UNCHANGED <<m_clients, m_autofire, grabs, config, reloads, named>>

(* Keyboards have no key 0. *)
Event ==
  /\ config # NoConfig
  /\ \/ \E k \in Key : /\ k.code # 0
                       /\ \/ \E focus \in BOOLEAN : PressAutofire(k.code, k.mod, focus)
                          \/ PressClient(k.code, k.mod)
                          \/ \E found \in BOOLEAN : Release(k.code, k.mod, found)
     \/ \E i \in Ordinal : BadWindow(i) \/ FocusOut(i)
Next == Reload \/ Event
Spec == Init /\ [][Next]_vars
-----------------------------------------------------------------------------
(* No key is lost: whatever the reloads, every key a client or autofire is  *)
(* bound to is grabbed.  That holds because a key that is given up stays    *)
(* grabbed: set_client and set_autofire reset it before they call ungrab.   *)
BoundKeysGrabbed ==
  /\ \A i \in Ordinal : m_clients[i].key.code # 0 => m_clients[i].key \in grabs
  /\ m_autofire.key.code # 0 => m_autofire.key \in grabs

(* A key reaches the client that the configuration binds it to, whatever    *)
(* older configurations left behind in clients it does not use.  Not so     *)
(* for a key that is bound twice, or was left to autofire by an older       *)
(* configuration, for a modifier that Modifiers cuts off, and for a         *)
(* configuration with two lines of keys.                                    *)
RoutedAsConfigured ==
  config # NoConfig =>
    \A i \in Active(config) :
      LET key == KeyAt(config, i, << >>)
      IN  /\ i < Len(config.keys) /\ Active(config) \subseteq 0..(Len(config.keys) - 1)
          /\ config.earlier = << >>
          /\ key.code # 0 /\ key.mod < 128
          /\ \A j \in Active(config) : KeyAt(config, j, << >>) = key => j = i
          => \/ IsAutofireKey(key.code, Modifiers(key.mod))
             \/ IsFirst(i, key.code, Modifiers(key.mod))

(* While the configuration names one of its accounts for autofire, autofire *)
(* aims at an account that it, or one before it, has named.                 *)
AutofireAimed ==
  (/\ config # NoConfig
   /\ HasAutofireKeys(config)
   /\ \E i \in Active(config) : config.accounts[i + 1] = config.autofire)
  => m_clients[m_autofire.ordinal].name \in named
=============================================================================
