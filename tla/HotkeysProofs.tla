--------------------------- MODULE HotkeysProofs ----------------------------
(***************************************************************************)
(* Whatever configurations are read, in whatever order and with whatever   *)
(* keys pressed between them: no key in use loses its grab, autofire aims  *)
(* where a configuration said, and a key reaches the client it is for.     *)
(***************************************************************************)
EXTENDS Hotkeys, TLAPS

AnyKey == [code : Nat, mod : Nat]
AClient == [name : Account \union {NoAccount}, key : AnyKey,
            autofire : BOOLEAN, window : BOOLEAN]
AnAutofire == [ordinal : Ordinal, key : AnyKey, keypress : Nat]
Contexts == [clients : [Ordinal -> AClient], autofire : AnAutofire, grabs : SUBSET AnyKey]
Context == [clients |-> m_clients, autofire |-> m_autofire, grabs |-> grabs]

(* BoundKeysGrabbed, of a context in the middle of a reload. *)
Grabbed(ctx) ==
  /\ \A i \in Ordinal : ctx.clients[i].key.code # 0 => ctx.clients[i].key \in ctx.grabs
  /\ ctx.autofire.key.code # 0 => ctx.autofire.key \in ctx.grabs

IInv == Context \in Contexts /\ Grabbed(Context)
-----------------------------------------------------------------------------
(* The keys that a configuration gives, or the memory behind it, are keys.  *)
LEMMA KeyAtType ==
  ASSUME NEW c \in Configs, NEW i \in Nat, NEW garbage \in [Missing(c) -> Garbage],
         i < Len(c.keys) \/ i \in Missing(c)
  PROVE  KeyAt(c, i, garbage) \in AnyKey
<1>1. CASE i < Len(c.keys)
  <2>1. c.keys \in Seq(KeySym \X Modifier) /\ c.earlier \in Seq(Modifier)
    BY HotkeysAssumption
  <2>2. i + 1 \in 1..Len(c.keys)
    BY <1>1, <2>1
  <2>3. c.keys[i + 1] \in KeySym \X Modifier
    BY <2>1, <2>2
  <2>4. Keycode[c.keys[i + 1][1]] \in Nat
    BY <2>3, HotkeysAssumption
  <2>5. CASE i < Len(c.earlier)
    <3>1. c.earlier[i + 1] \in Modifier
      BY <2>1, <2>5
    <3> QED
      BY <1>1, <2>4, <2>5, <3>1, HotkeysAssumption DEF KeyAt, AnyKey
  <2>6. CASE ~(i < Len(c.earlier))
    <3>1. Len(c.earlier) \in Nat /\ Len(c.keys) \in Nat
      BY <2>1
    <3> DEFINE e == Len(c.earlier)
               n == Len(c.keys)
               at == i + 1 - e
    <3>2. at \in 1..n
      <4>1. e \in Nat /\ n \in Nat /\ i < n /\ ~(i < e)
        BY <1>1, <2>6, <3>1
      <4> HIDE DEF e, n
      <4> QED
        BY <4>1
    <3>3. c.keys[at] \in KeySym \X Modifier
      <4> HIDE DEF at
      <4> QED
        BY <2>1, <3>2
    <3>4. c.keys[at][2] \in Modifier
      <4> HIDE DEF at
      <4> QED
        BY <3>3
    <3> QED
      BY <1>1, <2>4, <2>6, <3>4, HotkeysAssumption DEF KeyAt, AnyKey
  <2> QED
    BY <2>5, <2>6
<1>2. CASE ~(i < Len(c.keys))
  <2>1. garbage[i] \in Key
    BY <1>2, HotkeysAssumption
  <2> QED
    BY <1>2, <2>1, HotkeysAssumption DEF KeyAt, AnyKey, Key
<1> QED
  BY <1>1, <1>2

(* A client's window and its autofire flag have nothing to do with its key. *)
LEMMA FlagsApart ==
  ASSUME NEW clients \in [Ordinal -> AClient], NEW i \in Ordinal, NEW b \in BOOLEAN,
         NEW new, \/ new = [clients EXCEPT ![i].autofire = b]
                  \/ new = [clients EXCEPT ![i].window = b]
  PROVE  /\ new \in [Ordinal -> AClient]
         /\ \A j \in Ordinal : new[j].key = clients[j].key
<1> DEFINE client == new[i]
<1>1. clients[i] \in AClient
  OBVIOUS
<1>2. new = [clients EXCEPT ![i] = client]
  OBVIOUS
<1>3. client = [clients[i] EXCEPT !.autofire = b] \/ client = [clients[i] EXCEPT !.window = b]
  OBVIOUS
<1>4. client \in AClient /\ client.key = clients[i].key
  <2> HIDE DEF client
  <2> QED
    BY <1>1, <1>3 DEF AClient
<1> QED
  <2> HIDE DEF client
  <2> QED
    BY <1>2, <1>4

(* set_client: the client's new key is grabbed and no other key let go.     *)
LEMMA SetClientGood ==
  ASSUME NEW ctx \in Contexts, Grabbed(ctx), NEW i \in Ordinal,
         NEW name \in Account, NEW key \in AnyKey, NEW found \in BOOLEAN
  PROVE  /\ SetClient(ctx, i, name, key, found) \in Contexts
         /\ Grabbed(SetClient(ctx, i, name, key, found))
  BY DEF SetClient, Grabbed, Grab, Ungrab, NoKey, Contexts, AClient, AnyKey

(* set_autofire, likewise. *)
LEMMA SetAutofireGood ==
  ASSUME NEW ctx \in Contexts, Grabbed(ctx), NEW i \in Ordinal,
         NEW key \in AnyKey, NEW keypress \in Nat
  PROVE  /\ SetAutofire(ctx, i, key, keypress) \in Contexts
         /\ Grabbed(SetAutofire(ctx, i, key, keypress))
<1> DEFINE new == SetAutofire(ctx, i, key, keypress)
<1>1. /\ new.clients = [ctx.clients EXCEPT ![i].autofire = TRUE]
      /\ new.autofire = [ordinal |-> i, key |-> key, keypress |-> keypress]
  BY DEF SetAutofire, Contexts
<1>2. \/ new.grabs = ctx.grabs \union {key}
      \/ new.grabs = ctx.grabs /\ ctx.autofire.key = key
  BY DEF SetAutofire, Contexts, Grab, Ungrab, NoKey
<1>3. new = [clients |-> new.clients, autofire |-> new.autofire, grabs |-> new.grabs]
  BY DEF SetAutofire
<1>0. ctx.clients \in [Ordinal -> AClient]
  BY DEF Contexts
<1> HIDE DEF new
<1>4. new.clients \in [Ordinal -> AClient]
  <2> DEFINE b == TRUE
  <2>1. b \in BOOLEAN /\ new.clients = [ctx.clients EXCEPT ![i].autofire = b]
    BY <1>1
  <2> HIDE DEF b
  <2> QED
    BY <1>0, <2>1, FlagsApart
<1>5. new.autofire \in AnAutofire
  BY <1>1 DEF AnAutofire
<1>6. new.grabs \in SUBSET AnyKey
  BY <1>2 DEF Contexts
<1>7. new \in Contexts
  BY <1>3, <1>4, <1>5, <1>6 DEF Contexts
<1>8. \A j \in Ordinal : new.clients[j].key = ctx.clients[j].key
  <2> DEFINE b == TRUE
  <2>1. b \in BOOLEAN /\ new.clients = [ctx.clients EXCEPT ![i].autofire = b]
    BY <1>1
  <2> HIDE DEF b
  <2> QED
    BY <1>0, <2>1, FlagsApart
<1>9. Grabbed(new)
  BY <1>1, <1>2, <1>8 DEF Grabbed
<1> QED
  BY <1>7, <1>9 DEF new

(* What a configuration gives for an account, and for autofire. *)
LEMMA AccountType ==
  ASSUME NEW c \in Configs, NEW i \in Ordinal, i \in Active(c),
         NEW garbage \in [Missing(c) -> Garbage]
  PROVE  KeyAt(c, i, garbage) \in AnyKey /\ c.accounts[i + 1] \in Account
<1>1. i \in Nat /\ (i < Len(c.keys) \/ i \in Missing(c))
  <2>1. Len(c.keys) \in Nat
    BY HotkeysAssumption
  <2> QED
    BY <2>1 DEF Missing, Ordinal
<1>2. KeyAt(c, i, garbage) \in AnyKey
  BY <1>1, KeyAtType
<1>3. c.accounts \in Seq(Account)
  BY HotkeysAssumption
<1>4. i + 1 \in 1..Len(c.accounts)
  BY <1>3 DEF Active, Ordinal
<1> QED
  BY <1>2, <1>3, <1>4

LEMMA AutofireKeysType ==
  ASSUME NEW c \in Configs, NEW garbage \in [Missing(c) -> Garbage], HasAutofireKeys(c)
  PROVE  KeyAt(c, 3, garbage) \in AnyKey /\ KeyAt(c, 4, garbage).code \in Nat
<1> DEFINE n == Len(c.keys)
<1>1. n \in Nat /\ n >= 4
  BY HotkeysAssumption DEF HasAutofireKeys
<1>2. KeyAt(c, 3, garbage) \in AnyKey
  BY <1>1, KeyAtType
<1>3. 4 < n \/ 4 \in Missing(c)
  <2>1. CASE n = 4
    <3>1. 4 \in (IF n = 4 THEN {4} ELSE {})
      BY <2>1
    <3> QED
      BY <3>1 DEF Missing
  <2>2. CASE n # 4
    <3> HIDE DEF n
    <3> QED
      BY <1>1, <2>2
  <2> QED
    BY <2>1, <2>2
<1>4. KeyAt(c, 4, garbage).code \in Nat
  BY <1>3, KeyAtType DEF AnyKey
<1> QED
  BY <1>2, <1>4

(* One account of a configuration. *)
LEMMA SetAccountGood ==
  ASSUME NEW ctx \in Contexts, Grabbed(ctx), NEW i \in Ordinal, NEW c \in Configs,
         NEW garbage \in [Missing(c) -> Garbage], NEW found \in [Ordinal -> BOOLEAN]
  PROVE  /\ SetAccount(ctx, c, i, garbage, found) \in Contexts
         /\ Grabbed(SetAccount(ctx, c, i, garbage, found))
<1>1. CASE i \notin Active(c)
  BY <1>1 DEF SetAccount
<1>2. CASE i \in Active(c)
  <2> DEFINE set == SetClient(ctx, i, c.accounts[i + 1], KeyAt(c, i, garbage), found[i])
  <2>1. KeyAt(c, i, garbage) \in AnyKey /\ c.accounts[i + 1] \in Account
    BY <1>2, AccountType
  <2>2. set \in Contexts /\ Grabbed(set)
    BY <2>1, SetClientGood
  <2>3. CASE c.autofire = c.accounts[i + 1] /\ HasAutofireKeys(c)
    <3>1. KeyAt(c, 3, garbage) \in AnyKey /\ KeyAt(c, 4, garbage).code \in Nat
      BY <2>3, AutofireKeysType
    <3>2. /\ SetAutofire(set, i, KeyAt(c, 3, garbage), KeyAt(c, 4, garbage).code) \in Contexts
          /\ Grabbed(SetAutofire(set, i, KeyAt(c, 3, garbage), KeyAt(c, 4, garbage).code))
      BY <2>2, <3>1, SetAutofireGood
    <3> QED
      BY <1>2, <2>3, <3>2 DEF SetAccount
  <2>4. CASE ~(c.autofire = c.accounts[i + 1] /\ HasAutofireKeys(c))
    BY <1>2, <2>2, <2>4 DEF SetAccount
  <2> QED
    BY <2>3, <2>4
<1> QED
  BY <1>1, <1>2

LEMMA ParseConfigGood ==
  ASSUME NEW ctx \in Contexts, Grabbed(ctx), NEW c \in Configs,
         NEW garbage \in [Missing(c) -> Garbage], NEW found \in [Ordinal -> BOOLEAN]
  PROVE  /\ ParseConfig(ctx, c, garbage, found) \in Contexts
         /\ Grabbed(ParseConfig(ctx, c, garbage, found))
<1> DEFINE first  == SetAccount(ctx, c, 0, garbage, found)
           second == SetAccount(first, c, 1, garbage, found)
<1>1. 0 \in Ordinal /\ 1 \in Ordinal /\ 2 \in Ordinal
  BY DEF Ordinal
<1>2. first \in Contexts /\ Grabbed(first)
  BY <1>1, SetAccountGood
<1>3. second \in Contexts /\ Grabbed(second)
  BY <1>1, <1>2, SetAccountGood
<1>4. /\ SetAccount(second, c, 2, garbage, found) \in Contexts
      /\ Grabbed(SetAccount(second, c, 2, garbage, found))
  BY <1>1, <1>3, SetAccountGood
<1> QED
  BY <1>4 DEF ParseConfig
-----------------------------------------------------------------------------
LEMMA InitIInv == Init => IInv
  BY DEF Init, IInv, Context, Contexts, Grabbed, Zeroed, NoKey, AClient, AnAutofire,
         AnyKey, Ordinal

LEMMA NextIInv == IInv /\ [Next]_vars => IInv'
<1> SUFFICES ASSUME IInv, [Next]_vars
             PROVE  IInv'
  OBVIOUS
<1> USE DEF IInv
<1>1. CASE Reload
  <2>1. PICK c \in Configs, found \in [Ordinal -> BOOLEAN] :
          \E garbage \in [Missing(c) -> Garbage] :
            LET ctx == ParseConfig(Context, c, garbage, found)
            IN  m_clients' = ctx.clients /\ m_autofire' = ctx.autofire /\ grabs' = ctx.grabs
    BY <1>1 DEF Reload, Context
  <2>2. PICK garbage \in [Missing(c) -> Garbage] :
          LET ctx == ParseConfig(Context, c, garbage, found)
          IN  m_clients' = ctx.clients /\ m_autofire' = ctx.autofire /\ grabs' = ctx.grabs
    BY <2>1
  <2> DEFINE ctx == ParseConfig(Context, c, garbage, found)
  <2>3. ctx \in Contexts /\ Grabbed(ctx)
    BY ParseConfigGood
  <2>4. Context' = ctx
    <3> HIDE DEF ctx
    <3> QED
      BY <2>2, <2>3 DEF Context, Contexts, ctx
  <2> QED
    BY <2>3, <2>4
<1>2. ASSUME NEW code, NEW state, NEW focus, PressAutofire(code, state, focus)
      PROVE  IInv'
  BY <1>2 DEF PressAutofire, Context
<1>3. ASSUME NEW code, NEW state, PressClient(code, state)
      PROVE  IInv'
  BY <1>3 DEF PressClient, Context, Contexts, Grabbed, AnAutofire
<1>4. ASSUME NEW code, NEW state, NEW found \in BOOLEAN, Release(code, state, found)
      PROVE  IInv'
  <2>1. m_clients \in [Ordinal -> AClient]
    BY DEF Context, Contexts
  <2>2. PICK i \in Ordinal : m_clients' = [m_clients EXCEPT ![i].window = found]
    BY <1>4 DEF Release
  <2>3. /\ m_clients' \in [Ordinal -> AClient]
        /\ \A j \in Ordinal : m_clients'[j].key = m_clients[j].key
    BY <2>1, <2>2, FlagsApart
  <2> QED
    BY <1>4, <2>3 DEF Release, Context, Contexts, Grabbed
<1>5. ASSUME NEW i \in Ordinal, BadWindow(i)
      PROVE  IInv'
  <2>1. m_clients \in [Ordinal -> AClient]
    BY DEF Context, Contexts
  <2>2. /\ m_clients' \in [Ordinal -> AClient]
        /\ \A j \in Ordinal : m_clients'[j].key = m_clients[j].key
    <3> DEFINE b == FALSE
    <3>1. b \in BOOLEAN /\ m_clients' = [m_clients EXCEPT ![i].window = b]
      BY <1>5 DEF BadWindow
    <3> HIDE DEF b
    <3> QED
      BY <2>1, <3>1, FlagsApart
  <2> QED
    BY <1>5, <2>2 DEF BadWindow, Context, Contexts, Grabbed
<1>6. ASSUME NEW i \in Ordinal, FocusOut(i)
      PROVE  IInv'
  BY <1>6 DEF FocusOut, Context
<1>7. CASE UNCHANGED vars
  BY <1>7 DEF vars, Context
<1> QED
  BY <1>1, <1>2, <1>3, <1>4, <1>5, <1>6, <1>7 DEF Next, Event

(* Every key that a client or autofire is bound to is grabbed, after any    *)
(* number of reloads of any configurations: what the leftover grabs of      *)
(* set_client and set_autofire buy.                                         *)
THEOREM GrabsKept == Spec => []BoundKeysGrabbed
<1>1. IInv => BoundKeysGrabbed
  BY DEF IInv, Grabbed, Context, BoundKeysGrabbed
<1> QED
  BY <1>1, InitIInv, NextIInv, PTL DEF Spec
-----------------------------------------------------------------------------
(* The accounts that a configuration names for autofire, by their clients.  *)
Matches(c) == {i \in Active(c) : HasAutofireKeys(c) /\ c.autofire = c.accounts[i + 1]}
Named(c)   == {c.accounts[i + 1] : i \in Matches(c)}

(* A client that is flagged for autofire was named for it, and while the    *)
(* configuration names an account, autofire aims at a flagged client.       *)
Flagged(clients, who) ==
  \A i \in Ordinal : clients[i].autofire => clients[i].name \in who
AimInv ==
  /\ Flagged(m_clients, named)
  /\ config \in Configs => (Matches(config) # {} => m_clients[m_autofire.ordinal].autofire)
  /\ config \in Configs \union {NoConfig}
-----------------------------------------------------------------------------
(* set_client leaves the other clients alone, and autofire; a client that   *)
(* is set anew is not flagged.                                              *)
LEMMA SetClientFlags ==
  ASSUME NEW ctx \in Contexts, NEW who, Flagged(ctx.clients, who), NEW i \in Ordinal,
         NEW name \in Account, NEW key \in AnyKey, NEW found \in BOOLEAN
  PROVE  LET new == SetClient(ctx, i, name, key, found)
         IN  /\ Flagged(new.clients, who)
             /\ \A j \in Ordinal \ {i} : new.clients[j] = ctx.clients[j]
             /\ new.clients[i].name = name
             /\ new.autofire = ctx.autofire
  BY DEF SetClient, Flagged, Contexts, AClient

(* set_autofire flags its client and aims at it. *)
LEMMA SetAutofireFlags ==
  ASSUME NEW ctx \in Contexts, NEW who, Flagged(ctx.clients, who), NEW i \in Ordinal,
         ctx.clients[i].name \in who, NEW key \in AnyKey, NEW keypress \in Nat
  PROVE  LET new == SetAutofire(ctx, i, key, keypress)
         IN  /\ Flagged(new.clients, who)
             /\ \A j \in Ordinal \ {i} : new.clients[j] = ctx.clients[j]
             /\ new.clients[i].autofire
             /\ new.autofire.ordinal = i
<1> DEFINE new == SetAutofire(ctx, i, key, keypress)
<1>1. /\ new.clients = [ctx.clients EXCEPT ![i].autofire = TRUE]
      /\ new.autofire.ordinal = i
  BY DEF SetAutofire, Contexts
<1>2. ctx.clients \in [Ordinal -> AClient]
  BY DEF Contexts
<1> HIDE DEF new
<1>3. /\ \A j \in Ordinal \ {i} : new.clients[j] = ctx.clients[j]
      /\ new.clients[i] = [ctx.clients[i] EXCEPT !.autofire = TRUE]
  BY <1>1, <1>2
<1>4. ctx.clients[i] \in AClient
  BY <1>2
<1>5. new.clients[i].autofire /\ new.clients[i].name = ctx.clients[i].name
  BY <1>3, <1>4 DEF AClient
<1>6. Flagged(new.clients, who)
  BY <1>3, <1>5 DEF Flagged
<1> QED
  BY <1>1, <1>3, <1>5, <1>6 DEF new

(* One account of a configuration, as above. *)
LEMMA SetAccountFlags ==
  ASSUME NEW ctx \in Contexts, Grabbed(ctx), NEW i \in Ordinal, NEW c \in Configs,
         NEW garbage \in [Missing(c) -> Garbage], NEW found \in [Ordinal -> BOOLEAN],
         NEW who, Flagged(ctx.clients, who), Named(c) \subseteq who
  PROVE  LET new == SetAccount(ctx, c, i, garbage, found)
         IN  /\ Flagged(new.clients, who)
             /\ \A j \in Ordinal \ {i} : new.clients[j] = ctx.clients[j]
             /\ i \in Matches(c) => new.clients[i].autofire /\ new.autofire.ordinal = i
             /\ i \notin Matches(c) => new.autofire = ctx.autofire
<1>1. CASE i \notin Active(c)
  BY <1>1 DEF SetAccount, Matches
<1>2. CASE i \in Active(c)
  <2> DEFINE name == c.accounts[i + 1]
             key  == KeyAt(c, i, garbage)
             set  == SetClient(ctx, i, name, key, found[i])
  <2>1. key \in AnyKey /\ name \in Account
    BY <1>2, AccountType
  <2> HIDE DEF key
  <2>2. /\ set \in Contexts
        /\ Flagged(set.clients, who)
        /\ \A j \in Ordinal \ {i} : set.clients[j] = ctx.clients[j]
        /\ set.clients[i].name = name
        /\ set.autofire = ctx.autofire
    <3> HIDE DEF name
    <3>1. found[i] \in BOOLEAN
      OBVIOUS
    <3>2. set \in Contexts
      BY <2>1, <3>1, SetClientGood
    <3> QED
      BY <2>1, <3>1, <3>2, SetClientFlags
  <2>3. CASE i \in Matches(c)
    <3>1. name \in who
      BY <2>3 DEF Named
    <3>2. KeyAt(c, 3, garbage) \in AnyKey /\ KeyAt(c, 4, garbage).code \in Nat
      BY <2>3, AutofireKeysType DEF Matches
    <3> DEFINE new == SetAutofire(set, i, KeyAt(c, 3, garbage), KeyAt(c, 4, garbage).code)
    <3>3. /\ Flagged(new.clients, who)
          /\ \A j \in Ordinal \ {i} : new.clients[j] = set.clients[j]
          /\ new.clients[i].autofire
          /\ new.autofire.ordinal = i
      <4> DEFINE shot == KeyAt(c, 3, garbage)
                 press == KeyAt(c, 4, garbage).code
      <4>1. set.clients[i].name \in who /\ shot \in AnyKey /\ press \in Nat
        BY <2>2, <3>1, <3>2
      <4> HIDE DEF set, name, shot, press
      <4>2. LET aimed == SetAutofire(set, i, shot, press)
            IN  /\ Flagged(aimed.clients, who)
                /\ \A j \in Ordinal \ {i} : aimed.clients[j] = set.clients[j]
                /\ aimed.clients[i].autofire
                /\ aimed.autofire.ordinal = i
        BY <2>2, <4>1, SetAutofireFlags
      <4> QED
        BY <4>2 DEF shot, press
    <3>4. SetAccount(ctx, c, i, garbage, found) = new
      BY <1>2, <2>3 DEF SetAccount, Matches, key
    <3> QED
      <4> HIDE DEF new, set
      <4> QED
        BY <2>2, <2>3, <3>3, <3>4
  <2>4. CASE i \notin Matches(c)
    <3>1. SetAccount(ctx, c, i, garbage, found) = set
      BY <1>2, <2>4 DEF SetAccount, Matches, key
    <3> QED
      <4> HIDE DEF set
      <4> QED
        BY <2>2, <2>4, <3>1
  <2> QED
    BY <2>3, <2>4
<1> QED
  BY <1>1, <1>2

(* A whole configuration: autofire aims at the last client that was named.  *)
LEMMA ParseConfigAims ==
  ASSUME NEW ctx \in Contexts, Grabbed(ctx), NEW c \in Configs,
         NEW garbage \in [Missing(c) -> Garbage], NEW found \in [Ordinal -> BOOLEAN],
         NEW who, Flagged(ctx.clients, who), Named(c) \subseteq who
  PROVE  LET new == ParseConfig(ctx, c, garbage, found)
         IN  /\ Flagged(new.clients, who)
             /\ Matches(c) # {} => new.clients[new.autofire.ordinal].autofire
<1> DEFINE first  == SetAccount(ctx, c, 0, garbage, found)
           second == SetAccount(first, c, 1, garbage, found)
           third  == SetAccount(second, c, 2, garbage, found)
<1>1. Ordinal = {0, 1, 2} /\ Matches(c) \subseteq Ordinal
  BY DEF Ordinal, Matches, Active
<1>2. /\ Flagged(first.clients, who)
      /\ 0 \in Matches(c) => first.clients[0].autofire /\ first.autofire.ordinal = 0
  BY <1>1, SetAccountFlags
<1>3. first \in Contexts /\ Grabbed(first)
  BY <1>1, SetAccountGood
<1> HIDE DEF first
<1>4. /\ Flagged(second.clients, who)
      /\ second.clients[0] = first.clients[0]
      /\ 1 \in Matches(c) => second.clients[1].autofire /\ second.autofire.ordinal = 1
      /\ 1 \notin Matches(c) => second.autofire = first.autofire
  BY <1>1, <1>2, <1>3, SetAccountFlags
<1>5. second \in Contexts /\ Grabbed(second)
  BY <1>1, <1>3, SetAccountGood
<1> HIDE DEF second
<1>6. /\ Flagged(third.clients, who)
      /\ third.clients[0] = second.clients[0] /\ third.clients[1] = second.clients[1]
      /\ 2 \in Matches(c) => third.clients[2].autofire /\ third.autofire.ordinal = 2
      /\ 2 \notin Matches(c) => third.autofire = second.autofire
  BY <1>1, <1>4, <1>5, SetAccountFlags
<1>7. ParseConfig(ctx, c, garbage, found) = third
  BY DEF ParseConfig, first, second
<1> HIDE DEF third
<1> QED
  BY <1>1, <1>2, <1>4, <1>6, <1>7
-----------------------------------------------------------------------------
LEMMA NextAimInv == IInv /\ AimInv /\ [Next]_vars => AimInv'
<1> SUFFICES ASSUME IInv, AimInv, [Next]_vars
             PROVE  AimInv'
  OBVIOUS
<1>0. /\ m_clients \in [Ordinal -> AClient] /\ m_autofire \in AnAutofire
      /\ m_autofire.ordinal \in Ordinal
  BY DEF IInv, Context, Contexts, AnAutofire
<1>1. CASE Reload
  <2>1. PICK c \in Configs, found \in [Ordinal -> BOOLEAN] :
          \E garbage \in [Missing(c) -> Garbage] :
            LET ctx == ParseConfig(Context, c, garbage, found)
            IN  /\ m_clients' = ctx.clients /\ m_autofire' = ctx.autofire
                /\ config' = c
                /\ named' = IF HasAutofireKeys(c)
                            THEN named \union {c.accounts[i + 1] :
                                   i \in {i \in Active(c) : c.autofire = c.accounts[i + 1]}}
                            ELSE named
    BY <1>1 DEF Reload, Context
  <2>2. PICK garbage \in [Missing(c) -> Garbage] :
            LET ctx == ParseConfig(Context, c, garbage, found)
            IN  m_clients' = ctx.clients /\ m_autofire' = ctx.autofire
    BY <2>1
  <2>3. named \subseteq named' /\ Named(c) \subseteq named'
    BY <2>1 DEF Named, Matches
  <2>4. Flagged(m_clients, named')
    BY <2>3 DEF AimInv, Flagged
  <2>5. Context \in Contexts /\ Grabbed(Context) /\ Context.clients = m_clients
    BY DEF IInv, Context
  <2> DEFINE ctx == ParseConfig(Context, c, garbage, found)
  <2>6. /\ Flagged(ctx.clients, named')
        /\ Matches(c) # {} => ctx.clients[ctx.autofire.ordinal].autofire
    BY <2>3, <2>4, <2>5, ParseConfigAims
  <2> HIDE DEF ctx
  <2>7. m_clients' = ctx.clients /\ m_autofire' = ctx.autofire /\ config' = c
    BY <2>1, <2>2 DEF ctx
  <2> QED
    BY <2>6, <2>7 DEF AimInv, Flagged
<1>2. ASSUME NEW code, NEW state, NEW focus, PressAutofire(code, state, focus)
      PROVE  AimInv'
  BY <1>2 DEF PressAutofire, AimInv, Flagged
<1>3. ASSUME NEW code, NEW state, PressClient(code, state)
      PROVE  AimInv'
  <2>1. PICK i \in Ordinal :
          m_autofire' = [m_autofire EXCEPT !.ordinal = IF m_clients[i].autofire THEN i ELSE @]
    BY <1>3 DEF PressClient
  <2>2. m_clients[i].autofire => m_autofire'.ordinal = i
    BY <1>0, <2>1 DEF AnAutofire
  <2>3. ~m_clients[i].autofire => m_autofire'.ordinal = m_autofire.ordinal
    BY <1>0, <2>1 DEF AnAutofire
  <2>4. m_clients' = m_clients /\ config' = config /\ named' = named
    BY <1>3 DEF PressClient
  <2> QED
    BY <2>2, <2>3, <2>4 DEF AimInv, Flagged
<1>4. ASSUME NEW i \in Ordinal, NEW window \in BOOLEAN,
             m_clients' = [m_clients EXCEPT ![i].window = window],
             m_autofire' = m_autofire, config' = config, named' = named
      PROVE  AimInv'
  <2>1. /\ m_clients'[i] = [m_clients[i] EXCEPT !.window = window]
        /\ \A j \in Ordinal \ {i} : m_clients'[j] = m_clients[j]
        /\ m_clients[i] \in AClient
    BY <1>0, <1>4
  <2>2. \A j \in Ordinal : /\ m_clients'[j].autofire = m_clients[j].autofire
                          /\ m_clients'[j].name = m_clients[j].name
    BY <2>1 DEF AClient
  <2> QED
    BY <1>0, <1>4, <2>2 DEF AimInv, Flagged
<1>5. ASSUME NEW code, NEW state, NEW found \in BOOLEAN, Release(code, state, found)
      PROVE  AimInv'
  BY <1>4, <1>5 DEF Release
<1>6. ASSUME NEW i \in Ordinal, BadWindow(i)
      PROVE  AimInv'
  BY <1>4, <1>6 DEF BadWindow
<1>7. ASSUME NEW i \in Ordinal, FocusOut(i)
      PROVE  AimInv'
  BY <1>7 DEF FocusOut, AimInv, Flagged
<1>8. CASE UNCHANGED vars
  BY <1>8 DEF vars, AimInv, Flagged
<1> QED
  BY <1>1, <1>2, <1>3, <1>5, <1>6, <1>7, <1>8 DEF Next, Event

(* While the configuration names one of its accounts, autofire aims at an   *)
(* account that was named for it, whatever was reloaded and pressed before  *)
(* (set_autofire, and keyPress of a client that autofire may aim at).       *)
THEOREM AimKept == Spec => []AutofireAimed
<1>1. Init => AimInv
  <2> SUFFICES ASSUME Init PROVE AimInv
    OBVIOUS
  <2>1. \A i \in Ordinal : m_clients[i].autofire = FALSE
    BY DEF Init, Zeroed
  <2>2. config = NoConfig /\ config \notin Configs
    BY HotkeysAssumption DEF Init
  <2> QED
    BY <2>1, <2>2 DEF AimInv, Flagged
<1>2. IInv /\ AimInv => AutofireAimed
  <2> SUFFICES ASSUME IInv, AimInv, config # NoConfig, HasAutofireKeys(config),
                      \E i \in Active(config) : config.accounts[i + 1] = config.autofire
               PROVE  m_clients[m_autofire.ordinal].name \in named
    BY DEF AutofireAimed
  <2>1. m_autofire.ordinal \in Ordinal
    BY DEF IInv, Context, Contexts, AnAutofire
  <2>2. Matches(config) # {}
    BY DEF Matches
  <2> QED
    BY <2>1, <2>2 DEF AimInv, Flagged
<1> QED
  BY <1>1, <1>2, InitIInv, NextIInv, NextAimInv, PTL DEF Spec
-----------------------------------------------------------------------------
(* The clients of the configuration in force have the keys that its lines   *)
(* give them; what other clients were bound to before does not matter.      *)
Bound(clients, c, i) ==
  i \in Active(c) /\ i < Len(c.keys) => clients[i].key = KeyAt(c, i, << >>)
RouteInv == /\ config \in Configs \union {NoConfig}
            /\ config \in Configs => \A i \in Ordinal : Bound(m_clients, config, i)

(* set_client and set_autofire for one account: its key is set, and the     *)
(* keys of the other clients stay.                                          *)
LEMMA SetAccountKeys ==
  ASSUME NEW ctx \in Contexts, Grabbed(ctx), NEW i \in Ordinal, NEW c \in Configs,
         NEW garbage \in [Missing(c) -> Garbage], NEW found \in [Ordinal -> BOOLEAN]
  PROVE  LET new == SetAccount(ctx, c, i, garbage, found)
         IN  /\ \A j \in Ordinal \ {i} : new.clients[j].key = ctx.clients[j].key
             /\ Bound(new.clients, c, i)
<1> DEFINE new == SetAccount(ctx, c, i, garbage, found)
           key == KeyAt(c, i, garbage)
           set == SetClient(ctx, i, c.accounts[i + 1], key, found[i])
<1>1. CASE i \notin Active(c)
  BY <1>1 DEF SetAccount, Bound
<1>2. CASE i \in Active(c)
  <2>1. key \in AnyKey /\ c.accounts[i + 1] \in Account
    BY <1>2, AccountType
  <2>2. i < Len(c.keys) => key = KeyAt(c, i, << >>)
    BY DEF KeyAt
  <2> HIDE DEF key
  <2>3. set \in Contexts /\ Grabbed(set)
    BY <2>1, SetClientGood
  <2>4. /\ \A j \in Ordinal \ {i} : set.clients[j].key = ctx.clients[j].key
        /\ set.clients[i].key = key
    <3> DEFINE name == c.accounts[i + 1]
    <3>1. name \in Account
      BY <2>1
    <3> HIDE DEF name
    <3>2. LET s == SetClient(ctx, i, name, key, found[i])
          IN  /\ \A j \in Ordinal \ {i} : s.clients[j].key = ctx.clients[j].key
              /\ s.clients[i].key = key
      BY <2>1, <3>1 DEF SetClient, Contexts, AClient
    <3> QED
      BY <3>2 DEF name
  <2> HIDE DEF set
  <2>5. \A j \in Ordinal : new.clients[j].key = set.clients[j].key
    <3>1. CASE c.autofire = c.accounts[i + 1] /\ HasAutofireKeys(c)
      <4> DEFINE b == TRUE
      <4>1. set.clients \in [Ordinal -> AClient] /\ b \in BOOLEAN
        BY <2>3 DEF Contexts
      <4>2. new.clients = [set.clients EXCEPT ![i].autofire = b]
        BY <1>2, <3>1 DEF SetAccount, SetAutofire, set, key
      <4> HIDE DEF b, new
      <4> QED
        BY <4>1, <4>2, FlagsApart
    <3>2. CASE ~(c.autofire = c.accounts[i + 1] /\ HasAutofireKeys(c))
      BY <1>2, <3>2 DEF SetAccount, set, key
    <3> QED
      BY <3>1, <3>2
  <2> HIDE DEF new
  <2>6. Bound(new.clients, c, i)
    BY <2>2, <2>4, <2>5 DEF Bound
  <2> QED
    BY <2>4, <2>5, <2>6 DEF new
<1> QED
  BY <1>1, <1>2

(* A whole configuration. *)
LEMMA ParseConfigKeys ==
  ASSUME NEW ctx \in Contexts, Grabbed(ctx), NEW c \in Configs,
         NEW garbage \in [Missing(c) -> Garbage], NEW found \in [Ordinal -> BOOLEAN]
  PROVE  \A i \in Ordinal : Bound(ParseConfig(ctx, c, garbage, found).clients, c, i)
<1> DEFINE first  == SetAccount(ctx, c, 0, garbage, found)
           second == SetAccount(first, c, 1, garbage, found)
           third  == SetAccount(second, c, 2, garbage, found)
<1>1. Ordinal = {0, 1, 2}
  BY DEF Ordinal
<1>2. Bound(first.clients, c, 0) /\ first \in Contexts /\ Grabbed(first)
  BY <1>1, SetAccountKeys, SetAccountGood
<1> HIDE DEF first
<1>3. /\ Bound(second.clients, c, 1) /\ second.clients[0].key = first.clients[0].key
      /\ second \in Contexts /\ Grabbed(second)
  BY <1>1, <1>2, SetAccountKeys, SetAccountGood
<1> HIDE DEF second
<1>4. /\ Bound(third.clients, c, 2)
      /\ third.clients[0].key = second.clients[0].key
      /\ third.clients[1].key = second.clients[1].key
  BY <1>1, <1>3, SetAccountKeys
<1>5. ParseConfig(ctx, c, garbage, found) = third
  BY DEF ParseConfig, first, second
<1> HIDE DEF third
<1> QED
  BY <1>1, <1>2, <1>3, <1>4, <1>5 DEF Bound
-----------------------------------------------------------------------------
LEMMA NextRouteInv == IInv /\ RouteInv /\ [Next]_vars => RouteInv'
<1> SUFFICES ASSUME IInv, RouteInv, [Next]_vars
             PROVE  RouteInv'
  OBVIOUS
<1>0. m_clients \in [Ordinal -> AClient] /\ Context \in Contexts /\ Grabbed(Context)
  BY DEF IInv, Context, Contexts
<1>1. CASE Reload
  <2>1. PICK c \in Configs, found \in [Ordinal -> BOOLEAN] :
          /\ \E garbage \in [Missing(c) -> Garbage] :
               m_clients' = ParseConfig(Context, c, garbage, found).clients
          /\ config' = c
    BY <1>1 DEF Reload, Context
  <2>2. PICK garbage \in [Missing(c) -> Garbage] :
          m_clients' = ParseConfig(Context, c, garbage, found).clients
    BY <2>1
  <2>3. \A i \in Ordinal : Bound(m_clients', c, i)
    BY <1>0, <2>2, ParseConfigKeys
  <2> QED
    BY <2>1, <2>3 DEF RouteInv
<1>2. ASSUME config' = config, \A j \in Ordinal : m_clients'[j].key = m_clients[j].key
      PROVE  RouteInv'
  BY <1>2 DEF RouteInv, Bound
<1>3. ASSUME NEW i \in Ordinal, NEW window \in BOOLEAN,
             m_clients' = [m_clients EXCEPT ![i].window = window], config' = config
      PROVE  RouteInv'
  <2>1. \A j \in Ordinal : m_clients'[j].key = m_clients[j].key
    BY <1>0, <1>3, FlagsApart
  <2> QED
    BY <1>2, <1>3, <2>1
<1>4. ASSUME NEW code, NEW state, NEW focus, PressAutofire(code, state, focus)
      PROVE  RouteInv'
  BY <1>2, <1>4 DEF PressAutofire
<1>5. ASSUME NEW code, NEW state, PressClient(code, state)
      PROVE  RouteInv'
  BY <1>2, <1>5 DEF PressClient
<1>6. ASSUME NEW code, NEW state, NEW found \in BOOLEAN, Release(code, state, found)
      PROVE  RouteInv'
  BY <1>3, <1>6 DEF Release
<1>7. ASSUME NEW i \in Ordinal, BadWindow(i)
      PROVE  RouteInv'
  BY <1>3, <1>7 DEF BadWindow
<1>8. ASSUME NEW i \in Ordinal, FocusOut(i)
      PROVE  RouteInv'
  BY <1>2, <1>8 DEF FocusOut
<1>9. CASE UNCHANGED vars
  BY <1>2, <1>9 DEF vars
<1> QED
  BY <1>1, <1>4, <1>5, <1>6, <1>7, <1>8, <1>9 DEF Next, Event

(* A key that the configuration in force gives to one client only reaches   *)
(* that client, or is autofire's: the clients that the configuration does   *)
(* not use come after those that it uses, and client_from_key takes the     *)
(* first, so that no older binding gets between.                            *)
THEOREM RouteKept == Spec => []RoutedAsConfigured
<1>1. Init => RouteInv
  BY HotkeysAssumption DEF Init, RouteInv
<1>2. IInv /\ RouteInv => RoutedAsConfigured
  <2> SUFFICES ASSUME IInv, RouteInv, config \in Configs, NEW i \in Active(config),
                      i < Len(config.keys),
                      Active(config) \subseteq 0..(Len(config.keys) - 1),
                      config.earlier = << >>,
                      KeyAt(config, i, << >>).mod < 128,
                      \A j \in Active(config) :
                        KeyAt(config, j, << >>) = KeyAt(config, i, << >>) => j = i
               PROVE  LET key == KeyAt(config, i, << >>)
                      IN  IsFirst(i, key.code, Modifiers(key.mod))
    BY DEF RouteInv, RoutedAsConfigured
  <2> DEFINE key == KeyAt(config, i, << >>)
  <2>1. i \in Ordinal /\ Active(config) \subseteq Ordinal /\ Ordinal = {0, 1, 2}
    BY DEF Active, Ordinal
  <2>2. Len(config.accounts) \in Nat /\ Len(config.keys) \in Nat
    BY HotkeysAssumption
  <2>3. \A j \in Active(config) : m_clients[j].key = KeyAt(config, j, << >>)
    <3> SUFFICES ASSUME NEW j \in Active(config)
                 PROVE  m_clients[j].key = KeyAt(config, j, << >>)
      OBVIOUS
    <3>1. j \in 0..(Len(config.keys) - 1)
      OBVIOUS
    <3>2. j < Len(config.keys)
      BY <2>2, <3>1
    <3> QED
      BY <2>1, <3>2 DEF RouteInv, Bound
  <2>4. m_clients[i] \in AClient /\ m_clients[i].key = key
    BY <2>1, <2>3 DEF IInv, Context, Contexts
  <2>5. key \in AnyKey
    <3> HIDE DEF key
    <3> QED
      BY <2>4 DEF AClient
  <2>6. key = [code |-> key.code, mod |-> Modifiers(key.mod)]
    <3>1. key.mod \in Nat /\ key.mod < 128 /\ key = [code |-> key.code, mod |-> key.mod]
      <4>1. key.mod < 128
        OBVIOUS
      <4> HIDE DEF key
      <4> QED
        BY <2>5, <4>1 DEF AnyKey
    <3> HIDE DEF key
    <3>2. key.mod % 128 = key.mod
      BY <3>1
    <3> QED
      BY <3>1, <3>2 DEF Modifiers
  <2>7. ASSUME NEW j \in Ordinal, m_clients[j].key = key, j < i
        PROVE  FALSE
    <3>1. j \in Active(config)
      BY <2>1, <2>2, <2>7 DEF Active
    <3>2. j = i
      BY <2>3, <2>7, <3>1
    <3> QED
      BY <2>1, <2>7, <3>2
  <2> HIDE DEF key
  <2> QED
    BY <2>1, <2>4, <2>6, <2>7 DEF IsFirst, WithKey, key
<1> QED
  BY <1>1, <1>2, InitIInv, NextIInv, NextRouteInv, PTL DEF Spec
=============================================================================
