----------------------------- MODULE MCHotkeys ------------------------------
(***************************************************************************)
(* Some configurations, each an edit away from another.                    *)
(***************************************************************************)
EXTENDS Hotkeys

CONSTANTS Kai, Ora, Zed

MCAccount  == {Kai, Ora, Zed}
MCKeySym   == {"F1", "F2", "F3", "typo"}
MCKeycode  == [F1 |-> 67, F2 |-> 68, F3 |-> 69, typo |-> 0]
MCGarbage  == {[code |-> 68, mod |-> 0], [code |-> 0, mod |-> 128]}
MCModifier == {0, 4, 128}   \* none, ControlMask, Mod5Mask

Plain(syms) == [i \in 1..Len(syms) |-> <<syms[i], 0>>]
Written(accounts, keys, autofire) ==
  [accounts |-> accounts, keys |-> keys, earlier |-> << >>, autofire |-> autofire]
Usual == Written(<<Kai, Ora>>, Plain(<<"F1", "F2", "F3", "F3", "F1">>), Kai)
MCConfigs ==
  {Usual,
   [Usual EXCEPT !.autofire = Ora],
   [Usual EXCEPT !.autofire = NoAccount],
   \* the keys of two clients swapped
   [Usual EXCEPT !.keys = Plain(<<"F2", "F1", "F3", "F3", "F1">>)],
   \* a third client, and one less
   [Usual EXCEPT !.accounts = <<Kai, Ora, Zed>>, !.autofire = Zed],
   Written(<<Zed>>, Plain(<<"F2">>), Kai),
   \* a key that is none, a modifier that is not looked at, autofire on Ctrl-F2
   Written(<<Kai, Ora>>, << <<"typo", 0>>, <<"F2", 128>>, <<"F2", 0>>, <<"F2", 4>>,
                            <<"F1", 0>> >>, Kai),
   \* four keys only, fewer keys than accounts, two lines of keys
   Written(<<Ora, Kai>>, Plain(<<"F1", "F2", "F3", "F3">>), Ora),
   Written(<<Kai, Ora>>, Plain(<<"F2">>), NoAccount),
   [Usual EXCEPT !.earlier = <<4>>]}
=============================================================================
