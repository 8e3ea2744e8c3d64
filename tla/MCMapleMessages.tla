-------------------------- MODULE MCMapleMessages --------------------------
(***************************************************************************)
(* Messages on either side of what extra_data has room for: without parts, *)
(* with three and with four bytes of data, with an address to receive it,  *)
(* and with a token and nothing else.                                      *)
(***************************************************************************)
EXTENDS MapleMessages

CONSTANTS boss, alice, bob, none, usdc

MCKeys == {boss, alice, bob, none}

MCOnChain == [a \in MCKeys \cup {FILLER} |-> [token |-> FALSE, size |-> 0,
                                           at |-> [o \in Offsets |-> 0]]]

Bare == [receiver |-> 0, data |-> 0, tokens |-> 0, amount |-> 0,
         extra_args |-> 0, token_indexes |-> 0]

MCMessages == {
    Bare,
    [Bare EXCEPT !.data = 3],
    [Bare EXCEPT !.data = 4],
    [Bare EXCEPT !.receiver = 32],
    [Bare EXCEPT !.tokens = 1, !.amount = 1],
    [Bare EXCEPT !.tokens = 1, !.amount = 2, !.receiver = 32, !.token_indexes = 1] }
===========================================================================
